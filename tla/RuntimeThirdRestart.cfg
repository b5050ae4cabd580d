\* Violation: a speculative model on a machine with a card, every settings write
\* succeeding, crashes on each rung it is restarted on.
SPECIFICATION Spec
CONSTANTS
  gemma = gemma
  qwen = qwen
  Models <- Gemma
  MtpModels <- Gemma
  GpuMode = "auto"
  HasCard = TRUE
  SpareBuild = FALSE
  SettingsMayFail = FALSE
  MaxOps = 4
  MaxEpoch = 1
CONSTRAINT LongOnlyForCrashes
CHECK_DEADLOCK FALSE
INVARIANT AtMostTwoRestarts
