\* Three calls over two models on a machine without a graphics card, and a
\* second session after a lock; up to six calls only where the last is the report of
\* a crash that two starts have overtaken.
SPECIFICATION Spec
CONSTANTS
  gemma = gemma
  qwen = qwen
  Models <- Either
  MtpModels <- Nobody
  GpuMode = "off"
  HasCard = FALSE
  SpareBuild = FALSE
  SettingsMayFail = FALSE
  MaxOps = 6
  MaxEpoch = 2
SYMMETRY Swap
CONSTRAINT LongOnlyForLateReports
CHECK_DEADLOCK FALSE
INVARIANTS
  NoOrphan StartingShown LastWordCounts DeadNotShownHealthy
  LockedMeansStopped SessionsModel
