SPECIFICATION Spec
CONSTANTS
  gemma = gemma
  qwen = qwen
  Models <- Gemma
  MtpModels <- Nobody
  GpuMode = "off"
  HasCard = FALSE
  SpareBuild = FALSE
  SettingsMayFail = FALSE
  MaxOps = 3
  MaxEpoch = 1
CHECK_DEADLOCK FALSE
INVARIANT DeadNeverActive
