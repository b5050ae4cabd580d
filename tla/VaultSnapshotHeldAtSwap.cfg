\* Violation: the snapshot is held while a password change swaps its successor in.
CONSTANTS
  Docs = {}
  OutOfStore = {}
  Holdable = {"enc"}
  SteadyClock = TRUE
  DataKeys = {"k1", "k2", "k3"}
  StartFormats = {"v1"}
  DiskMayFill = TRUE
  ForeignSweep = FALSE
  DescriptorFaults = "never"
  MaxGeneration = 2
  StartBodies <- Sound
SPECIFICATION Spec
INVARIANTS
  LockedDataSurvives
