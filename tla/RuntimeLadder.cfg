\* The full ladder (speculative, graphics card, CPU, spare build, mock) under
\* two calls, crashes, locks, probes and a quit, and the longest chain of
\* restarts the three crash handlers can make of one start.
SPECIFICATION FairSpec
CONSTANTS
  gemma = gemma
  qwen = qwen
  Models <- Gemma
  MtpModels <- Gemma
  GpuMode = "auto"
  HasCard = TRUE
  SpareBuild = TRUE
  SettingsMayFail = TRUE
  MaxOps = 5
  MaxEpoch = 1
CONSTRAINT LongOnlyForCrashes
CHECK_DEADLOCK FALSE
INVARIANTS QuitLeavesNothing NoCrashLoop
PROPERTIES EveryCallSettles
