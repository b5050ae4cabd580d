\* Kills between any two file-system effects, a disk that fills up, a second
\* instance that overwrites the open database, a descriptor that is damaged at any
\* time and restored while the application is closed, a .recovery file and a legacy
\* sidecar other programs hold, a snapshot an older build sealed over noise, and the
\* journaled v1 -> v2 migration of an in-store and an out-of-store sidecar.
CONSTANTS
  Docs <- InStoreAndLegacy
  OutOfStore <- Legacy
  Holdable = {"d2", "recovery"}
  SteadyClock = TRUE
  DataKeys = {"k1", "k2", "k3"}
  StartFormats = {"none", "v1", "v2"}
  DiskMayFill = TRUE
  ForeignSweep = TRUE
  DescriptorFaults = "atRest"
  MaxGeneration = 2
  StartBodies <- SoundOrDamaged
SPECIFICATION Spec
INVARIANTS
  LockedDataSurvives NothingLeftAtRest RecoveryIsSpent NeverMixed SidecarsOpenable
PROPERTIES
  KeepsPromise
