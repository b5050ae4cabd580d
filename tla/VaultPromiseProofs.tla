------------------------- MODULE VaultPromiseProofs -------------------------
(***************************************************************************)
(* What the vault keeps, and what it leaves behind: the files on the drive *)
(* at every step of every operation, and the promise of VaultPromise they  *)
(* add up to.                                                              *)
(***************************************************************************)
EXTENDS VaultRefinement, WorkspaceVaultProofs

USE DEF Goto, Return

Sweeping == {"salvage", "sweep", "sweepRest"}
Recovering == {"recover", "swap", "swapIn", "discard"}
Opening == {"verify", "rollForward", "spend", "decrypt", "place", "open"}
Creating == {"sealNew", "eraseNew", "commitNew"}
Restaging == pc \in {"stage", "stageDb", "stageDocs"}
OnSession == {"stage", "stageDb", "stageDocs", "seal", "erase", "reopen", "closeForExit"}

-----------------------------------------------------------------------------
(* Which vault the process knows of.                                       *)

\* Before a first descriptor is committed the drive holds nothing to lose.
NoVaultYet ==
  desc.ver = "none" =>
    /\ recovery = Absent /\ cipher[DB] = NoFile /\ lease = {} /\ descr.ver = "none"
    /\ ("transient" \notin Holdable => ~transient)

\* unlock() reads the descriptor before it touches a file.
ReadFirst ==
  /\ pc \in Opening => Readable
  /\ pc \in Recovering /\ task \in {"unlock", "create"} => Readable
  /\ pc \in Recovering => desc.ver # "none"

\* create() works beside no other vault.
NewVault ==
  /\ pc \in Creating => desc.ver = "none"
  /\ pc \in {"eraseNew", "commitNew", "adopt"} => staged[DB] # NoFile
  /\ pc = "adopt" => recovery = Absent /\ desc.ver # "none" /\ ~damaged
  /\ pc \in Creating \cup {"adopt"} =>
       descr.ver = "none" /\ ~damaged /\ ("transient" \notin Holdable => ~transient)

\* A committed vault no operation has read yet is one create() left behind.
Adopted ==
  descr.ver = "none" /\ desc.ver # "none" /\ ~damaged /\ pc \notin {"down", "adopt"} =>
    /\ staged[DB] = NoFile /\ cipher[DB] # NoFile
    /\ pc \in {"swap", "swapIn"} => DB \notin todo
    /\ pc = "swapIn" => cur # DB

\* A session, a sweep and a blocked salvage belong to a vault that was read.
SessionOfVault ==
  /\ handle # "closed" => descr.ver # "none"
  /\ pc \in OnSession => handle # "closed"
  /\ blocked => descr.ver # "none" /\ handle = "closed" /\ pc \in {"idle", "init", "salvage"}
  /\ pc \in Sweeping => descr.ver # "none"
  /\ pc \in Recovering /\ task \in {"launch", "retry"} => descr.ver # "none"
  /\ pc \in Recovering /\ task \in {"change", "abort"} => handle # "closed"

VaultKnown == /\ NoVaultYet /\ ReadFirst /\ NewVault /\ Adopted /\ SessionOfVault
              /\ NoSession /\ TaskInStep

\* Every action keeps track of the vault.
LEMMA KnownNext ==
  ASSUME StagedName \notin Holdable, DescriptorFaults # "anyTime", TypeOK, VaultKnown, [Next]_vars
  PROVE  VaultKnown'
<1> USE DEF VaultKnown, NoVaultYet, ReadFirst, NewVault, Adopted, SessionOfVault, NoSession,
            TaskInStep, Readable, Opening, Recovering, OnSession, Sweeping, Creating, Idle,
            Formats
<1> USE DEF descVars, rekeyVars, plainVars, stepVars, sessionVars, workVars, ghostVars
<1>a. /\ cipher \in [CipherFiles -> FileRecords] /\ staged \in [CipherFiles -> FileRecords]
      /\ desc.ver \in Formats /\ DB \in CipherFiles /\ handle \in {"closed", "open", "dead"}
  BY DEF TypeOK, CipherTypes, DescriptorTypes, Descriptors, CipherFiles, SessionTypes
<1> USE <1>a
<1>1. CASE InitStep
  <2>1. CASE InitWithoutDescriptor
    BY <2>1 DEF InitWithoutDescriptor
  <2>2. CASE SalvageNotNeeded
    BY <2>2 DEF SalvageNotNeeded
  <2>3. CASE SalvageProbeFails
    BY <2>3 DEF SalvageProbeFails, Block
  <2>4. CASE SalvageShredOldRecovery
    BY <2>4 DEF SalvageShredOldRecovery, Shredded
  <2>5. CASE SalvageMove
    BY <2>5 DEF SalvageMove, Block
  <2>6. CASE SweepDatabase
    BY <2>6 DEF SweepDatabase, Shredded
  <2>7. CASE SweepRest
    BY <2>7 DEF SweepRest, Shredded, TransientSwept
  <2> QED
    BY <1>1, <2>1, <2>2, <2>3, <2>4, <2>5, <2>6, <2>7 DEF InitStep
<1>2. CASE RekeyStep
  <2>1. CASE RecoverPendingRekey
    BY <2>1 DEF RecoverPendingRekey, AfterRecovery, StagedRekeyFiles, DecidingDescriptor
  <2>2. CASE SwapShredTarget
    BY <2>2 DEF SwapShredTarget, ShreddedCipher, NoFile
  <2>3. CASE SwapRename
    BY <2>3 DEF SwapRename, NoFile
  <2>4. CASE SwapDone
    BY <2>4 DEF SwapDone, AfterRecovery, RecoveryFails, StagedRekeyFiles
  <2>5. CASE DiscardOne
    BY <2>5 DEF DiscardOne, RecoveryFails, StagedRekeyFiles
  <2>6. CASE DiscardDone
    BY <2>6 DEF DiscardDone, AfterRecovery, StagedRekeyFiles
  <2> QED
    BY <1>2, <2>1, <2>2, <2>3, <2>4, <2>5, <2>6 DEF RekeyStep
<1>3. CASE UnlockStep
  <2>1. CASE ReadDescriptor
    BY <2>1 DEF ReadDescriptor
  <2>2. CASE VerifyPassword
    BY <2>2 DEF VerifyPassword
  <2>3. CASE RecoveryProbeFails
    BY <2>3 DEF RecoveryProbeFails, UnlockFails
  <2>4. CASE RollForward
    BY <2>4 DEF RollForward, UnlockFails, Sealed, NoFile
  <2>5. CASE SpendRecovery
    BY <2>5 DEF SpendRecovery, Shredded
  <2>6. CASE DecryptSnapshot
    BY <2>6 DEF DecryptSnapshot, UnlockFails, Shredded
  <2>7. CASE PlaceWorkingFile
    BY <2>7 DEF PlaceWorkingFile, UnlockFails, TransientSwept
  <2>8. CASE OpenWorkingFile
    BY <2>8 DEF OpenWorkingFile
  <2>9. CASE OpenRefused
    BY <2>9 DEF OpenRefused, UnlockFails, Shredded
  <2> QED
    BY <1>3, <2>1, <2>2, <2>3, <2>4, <2>5, <2>6, <2>7, <2>8, <2>9 DEF UnlockStep
<1>4. CASE LockStep
  <2>1. CASE SealSnapshot
    BY <2>1 DEF SealSnapshot, Sealed, NoFile
  <2>2. CASE EraseWorkingFile
    BY <2>2 DEF EraseWorkingFile, Shredded
  <2>3. CASE Reopen
    BY <2>3 DEF Reopen
  <2>4. CASE CloseForExit
    BY <2>4 DEF CloseForExit
  <2>5. CASE Exit
    BY <2>5 DEF Exit, MemoryLost, Idle, Locked, NoDescr
  <2> QED
    BY <1>4, <2>1, <2>2, <2>3, <2>4, <2>5 DEF LockStep
<1>5. CASE CreateStep
  <2>1. CASE SealNewVault
    BY <2>1 DEF SealNewVault, FreshKeys, Sealed, NoFile
  <2>2. CASE EraseNewPlaintext
    BY <2>2 DEF EraseNewPlaintext, Shredded
  <2>3. CASE CommitNewDescriptor
    BY <2>3 DEF CommitNewDescriptor
  <2>4. CASE AdoptNewSnapshot
    BY <2>4 DEF AdoptNewSnapshot, NoFile
  <2> QED
    BY <1>5, <2>1, <2>2, <2>3, <2>4 DEF CreateStep
<1>6. CASE ChangeStep
  <2>1. CASE StageJournal
    BY <2>1 DEF StageJournal, FreshKeys, Checkpointed, AbortChange
  <2>2. CASE StageDatabase
    BY <2>2 DEF StageDatabase, AbortChange, Sealed, NoFile
  <2>3. CASE StageSidecar
    BY <2>3 DEF StageSidecar, AbortChange, Sealed, ToStage, TransientSwept
  <2>4. CASE CommitRekey
    BY <2>4 DEF CommitRekey, AbortChange, StagedRekeyFiles, ToStage
  <2> QED
    BY <1>6, <2>1, <2>2, <2>3, <2>4 DEF ChangeStep
<1>7. CASE Request
  <2>1. CASE Launch
    BY <2>1 DEF Launch, NoDescr
  <2>2. CASE Unlock
    BY <2>2 DEF Unlock, Idle, Locked
  <2>3. CASE WriteDatabase
    BY <2>3 DEF WriteDatabase, Idle
  <2>4. CASE Create
    BY <2>4 DEF Create, Idle, Locked, VaultExistsOnDisk
  <2>5. CASE ChangePassword
    BY <2>5 DEF ChangePassword, Idle, DocumentsBusy
  <2>6. CASE \E t \in {"lock", "quit"} : Lock(t)
    BY <2>6 DEF Lock, Checkpointed, Idle, Locked
  <2> QED
    BY <1>7, <2>1, <2>2, <2>3, <2>4, <2>5, <2>6 DEF Request
<1>8. CASE Environment
  <2>1. CASE Crash
    BY <2>1 DEF Crash, MemoryLost, NoDescr
  <2>2. CASE ForeignOverwrite
    BY <2>2 DEF ForeignOverwrite, Idle
  <2>3. CASE DamageDescriptor
    BY <2>3 DEF DamageDescriptor
  <2>4. CASE RestoreDescriptor
    BY <2>4 DEF RestoreDescriptor, Idle
  <2> QED
    BY <1>8, <2>1, <2>2, <2>3, <2>4 DEF Environment
<1>9. CASE DocumentStep
  BY <1>9, FilesAssumption DEF DocumentStep, BeginDocumentWork, StartSidecarWrite,
     FinishSidecarWrite, EndDocumentWork, Idle
<1>10. CASE UNCHANGED vars
  BY <1>10 DEF vars
<1> QED
  BY <1>1, <1>2, <1>3, <1>4, <1>5, <1>6, <1>7, <1>8, <1>9, <1>10 DEF Next

-----------------------------------------------------------------------------
(* What is left of the plaintext while the vault is locked.                *)

NoneOf(name, body) == name \notin Holdable => body = Absent

\* Once the sweep is past a file, no operation but an open session brings it back.
SweptAtRest ==
  /\ pc = "sweepRest" => NoneOf("db", db)
  /\ /\ descr.ver # "none" /\ handle = "closed"
     /\ pc \in Recovering \cup {"read"} \cup (Opening \ {"open"}) \/ (Idle /\ ~blocked)
     => NoneOf("db", db) /\ NoneOf("wal", wal)

\* A leftover temporary is swept before anything else is done.
TransientAtRest ==
  transient /\ "transient" \notin Holdable =>
    \/ pc \in {"down", "init"} \cup Sweeping
    \/ blocked /\ Idle
    \/ descr.ver = "none" /\ damaged

StillDamaged ==
  transient /\ "transient" \notin Holdable /\ pc = "init" /\ descr.ver = "none" => damaged

AtRest == SweptAtRest /\ TransientAtRest /\ StillDamaged

\* Every action sweeps what it must.
LEMMA RestNext ==
  ASSUME StagedName \notin Holdable, DescriptorFaults # "anyTime", TypeOK, VaultKnown, AtRest,
         [Next]_vars
  PROVE  AtRest'
<1> USE DEF AtRest, SweptAtRest, TransientAtRest, StillDamaged, NoneOf
<1> USE DEF VaultKnown, NoVaultYet, ReadFirst, NewVault, Adopted, SessionOfVault, NoSession,
            TaskInStep, Readable, Opening, Recovering, OnSession, Sweeping, Creating, Idle
<1> USE DEF descVars, rekeyVars, plainVars, stepVars, sessionVars, workVars, ghostVars
<1>a. /\ handle \in {"closed", "open", "dead"} /\ damaged \in BOOLEAN /\ transient \in BOOLEAN
      /\ blocked \in BOOLEAN
  BY DEF TypeOK, SessionTypes, FlagTypes
<1> USE <1>a
<1>1. CASE InitStep
  <2>1. CASE InitWithoutDescriptor
    BY <2>1 DEF InitWithoutDescriptor
  <2>2. CASE SalvageNotNeeded
    BY <2>2 DEF SalvageNotNeeded
  <2>3. CASE SalvageProbeFails
    BY <2>3 DEF SalvageProbeFails, Block
  <2>4. CASE SalvageShredOldRecovery
    BY <2>4 DEF SalvageShredOldRecovery, Shredded
  <2>5. CASE SalvageMove
    BY <2>5 DEF SalvageMove, Block
  <2>6. CASE SweepDatabase
    BY <2>6 DEF SweepDatabase, Shredded
  <2>7. CASE SweepRest
    BY <2>7 DEF SweepRest, Shredded, TransientSwept
  <2> QED
    BY <1>1, <2>1, <2>2, <2>3, <2>4, <2>5, <2>6, <2>7 DEF InitStep
<1>2. CASE RekeyStep
  <2>1. CASE RecoverPendingRekey
    BY <2>1 DEF RecoverPendingRekey, AfterRecovery, StagedRekeyFiles, DecidingDescriptor
  <2>2. CASE SwapShredTarget
    BY <2>2 DEF SwapShredTarget, ShreddedCipher
  <2>3. CASE SwapRename
    BY <2>3 DEF SwapRename
  <2>4. CASE SwapDone
    BY <2>4 DEF SwapDone, AfterRecovery, RecoveryFails, StagedRekeyFiles
  <2>5. CASE DiscardOne
    BY <2>5 DEF DiscardOne, RecoveryFails, StagedRekeyFiles
  <2>6. CASE DiscardDone
    BY <2>6 DEF DiscardDone, AfterRecovery, StagedRekeyFiles
  <2> QED
    BY <1>2, <2>1, <2>2, <2>3, <2>4, <2>5, <2>6 DEF RekeyStep
<1>3. CASE UnlockStep
  <2>1. CASE ReadDescriptor
    BY <2>1 DEF ReadDescriptor
  <2>2. CASE VerifyPassword
    BY <2>2 DEF VerifyPassword
  <2>3. CASE RecoveryProbeFails
    BY <2>3 DEF RecoveryProbeFails, UnlockFails
  <2>4. CASE RollForward
    BY <2>4 DEF RollForward, UnlockFails, Sealed
  <2>5. CASE SpendRecovery
    BY <2>5 DEF SpendRecovery, Shredded
  <2>6. CASE DecryptSnapshot
    BY <2>6 DEF DecryptSnapshot, UnlockFails, Shredded
  <2>7. CASE PlaceWorkingFile
    <3>1. SweptAtRest'
      BY <2>7 DEF PlaceWorkingFile, UnlockFails, TransientSwept
    <3>2. TransientAtRest'
      BY <2>7 DEF PlaceWorkingFile, UnlockFails, TransientSwept
    <3>3. StillDamaged'
      BY <2>7 DEF PlaceWorkingFile, UnlockFails, TransientSwept
    <3> QED
      BY <3>1, <3>2, <3>3
  <2>8. CASE OpenWorkingFile
    BY <2>8 DEF OpenWorkingFile
  <2>9. CASE OpenRefused
    BY <2>9 DEF OpenRefused, UnlockFails, Shredded
  <2> QED
    BY <1>3, <2>1, <2>2, <2>3, <2>4, <2>5, <2>6, <2>7, <2>8, <2>9 DEF UnlockStep
<1>4. CASE LockStep
  <2>1. CASE SealSnapshot
    BY <2>1 DEF SealSnapshot, Sealed
  <2>2. CASE EraseWorkingFile
    BY <2>2 DEF EraseWorkingFile, Shredded
  <2>3. CASE Reopen
    BY <2>3 DEF Reopen
  <2>4. CASE CloseForExit
    BY <2>4 DEF CloseForExit
  <2>5. CASE Exit
    BY <2>5 DEF Exit, MemoryLost, Idle, Locked, NoDescr
  <2> QED
    BY <1>4, <2>1, <2>2, <2>3, <2>4, <2>5 DEF LockStep
<1>5. CASE CreateStep
  <2>1. CASE SealNewVault
    BY <2>1 DEF SealNewVault, FreshKeys, Sealed
  <2>2. CASE EraseNewPlaintext
    BY <2>2 DEF EraseNewPlaintext, Shredded
  <2>3. CASE CommitNewDescriptor
    BY <2>3 DEF CommitNewDescriptor
  <2>4. CASE AdoptNewSnapshot
    BY <2>4 DEF AdoptNewSnapshot
  <2> QED
    BY <1>5, <2>1, <2>2, <2>3, <2>4 DEF CreateStep
<1>6. CASE ChangeStep
  <2>1. CASE StageJournal
    BY <2>1 DEF StageJournal, FreshKeys, Checkpointed, AbortChange
  <2>2. CASE StageDatabase
    BY <2>2 DEF StageDatabase, AbortChange, Sealed
  <2>3. CASE StageSidecar
    BY <2>3 DEF StageSidecar, AbortChange, Sealed, ToStage, TransientSwept
  <2>4. CASE CommitRekey
    BY <2>4 DEF CommitRekey, AbortChange, StagedRekeyFiles, ToStage
  <2> QED
    BY <1>6, <2>1, <2>2, <2>3, <2>4 DEF ChangeStep
<1>7. CASE Request
  <2>1. CASE Launch
    BY <2>1 DEF Launch, NoDescr
  <2>2. CASE Unlock
    BY <2>2 DEF Unlock, Idle, Locked
  <2>3. CASE WriteDatabase
    BY <2>3 DEF WriteDatabase, Idle
  <2>4. CASE Create
    BY <2>4 DEF Create, Idle, Locked, VaultExistsOnDisk
  <2>5. CASE ChangePassword
    BY <2>5 DEF ChangePassword, Idle, DocumentsBusy
  <2>6. CASE \E t \in {"lock", "quit"} : Lock(t)
    BY <2>6 DEF Lock, Checkpointed, Idle, Locked
  <2> QED
    BY <1>7, <2>1, <2>2, <2>3, <2>4, <2>5, <2>6 DEF Request
<1>8. CASE Environment
  <2>1. CASE Crash
    BY <2>1 DEF Crash, MemoryLost, NoDescr
  <2>2. CASE ForeignOverwrite
    BY <2>2 DEF ForeignOverwrite, Idle
  <2>3. CASE DamageDescriptor
    BY <2>3 DEF DamageDescriptor
  <2>4. CASE RestoreDescriptor
    BY <2>4 DEF RestoreDescriptor, Idle
  <2> QED
    BY <1>8, <2>1, <2>2, <2>3, <2>4 DEF Environment
<1>9. CASE DocumentStep
  BY <1>9 DEF DocumentStep, BeginDocumentWork, StartSidecarWrite, FinishSidecarWrite,
     EndDocumentWork, Idle
<1>10. CASE UNCHANGED vars
  BY <1>10 DEF vars
<1> QED
  BY <1>1, <1>2, <1>3, <1>4, <1>5, <1>6, <1>7, <1>8, <1>9, <1>10 DEF Next

-----------------------------------------------------------------------------
(* Whether .recovery may still be the fresh copy.                          *)

\* The .recovery file is not newer than snapshot s.
NotAhead(s) == HasHeader(recovery) => s \notin older["recovery"]

\* No staged snapshot is pending when unlock() compares file times.
NotStaged == pc \in Opening => staged[DB] = NoFile

\* By the time a snapshot is decrypted, .recovery has been sealed into it or
\* was behind it.
SpentBeforeUse == pc \in {"spend", "decrypt", "place"} /\ cipher[DB] # NoFile => NotAhead(DB)

\* A snapshot staged beside a working database is newer than .recovery too: the
\* swap keeps its time.
StagedIsNewer == HasHeader(db) /\ staged[DB] # NoFile => NotAhead(StagedName)

Spent == NotStaged /\ SpentBeforeUse /\ StagedIsNewer /\ RecoveryIsSpent

\* Every action spends .recovery before it makes a newer copy.
LEMMA SpentNext ==
  ASSUME StagedName \notin Holdable, DescriptorFaults # "anyTime", SteadyClock, TypeOK,
         VaultKnown, Spent, [Next]_vars
  PROVE  Spent'
<1> USE DEF Spent, NotStaged, SpentBeforeUse, StagedIsNewer, RecoveryIsSpent, NotAhead, HasHeader,
            Bodies, Absent, Noise, Torn, PlainNames, StampNames
<1> USE DEF VaultKnown, NoVaultYet, ReadFirst, NewVault, Adopted, SessionOfVault, NoSession,
            TaskInStep, Readable, Opening, Recovering, OnSession, Sweeping, Creating, Idle
<1> USE DEF descVars, rekeyVars, plainVars, stepVars, sessionVars, workVars, ghostVars
<1>a. /\ cipher \in [CipherFiles -> FileRecords] /\ staged \in [CipherFiles -> FileRecords]
      /\ older \in [PlainNames -> SUBSET StampNames] /\ DB \in CipherFiles
      /\ db \in Bodies /\ recovery \in Bodies
  BY DEF TypeOK, CipherTypes, PlainTypes, StampTypes, CipherFiles
<1> USE <1>a
<1>1. CASE InitStep
  <2>1. CASE InitWithoutDescriptor
    BY <2>1 DEF InitWithoutDescriptor
  <2>2. CASE SalvageNotNeeded
    BY <2>2 DEF SalvageNotNeeded, MaybeFresh
  <2>3. CASE SalvageProbeFails
    BY <2>3 DEF SalvageProbeFails, Block
  <2>4. CASE SalvageShredOldRecovery
    BY <2>4 DEF SalvageShredOldRecovery, Shredded, MaybeFresh
  <2>5. CASE SalvageMove
    BY <2>5 DEF SalvageMove, Block, SnapshotWritten, PlainWritten, PlainMoved, StagedMovedIn
  <2>6. CASE SweepDatabase
    BY <2>6 DEF SweepDatabase, Shredded
  <2>7. CASE SweepRest
    BY <2>7 DEF SweepRest, Shredded, TransientSwept
  <2> QED
    BY <1>1, <2>1, <2>2, <2>3, <2>4, <2>5, <2>6, <2>7 DEF InitStep
<1>2. CASE RekeyStep
  <2>1. CASE RecoverPendingRekey
    BY <2>1, FilesAssumption DEF RecoverPendingRekey, AfterRecovery, StagedRekeyFiles,
       DecidingDescriptor
  <2>2. CASE SwapShredTarget
    BY <2>2 DEF SwapShredTarget, ShreddedCipher, NoFile
  <2>3. CASE SwapRename
    BY <2>3 DEF SwapRename, SnapshotWritten, PlainWritten, PlainMoved, StagedMovedIn, NoFile
  <2>4. CASE SwapDone
    BY <2>4, FilesAssumption DEF SwapDone, AfterRecovery, RecoveryFails, StagedRekeyFiles
  <2>5. CASE DiscardOne
    BY <2>5 DEF DiscardOne, RecoveryFails, StagedRekeyFiles
  <2>6. CASE DiscardDone
    BY <2>6, FilesAssumption DEF DiscardDone, AfterRecovery, StagedRekeyFiles
  <2> QED
    BY <1>2, <2>1, <2>2, <2>3, <2>4, <2>5, <2>6 DEF RekeyStep
<1>3. CASE UnlockStep
  <2>1. CASE ReadDescriptor
    BY <2>1 DEF ReadDescriptor
  <2>2. CASE VerifyPassword
    BY <2>2 DEF VerifyPassword
  <2>3. CASE RecoveryProbeFails
    BY <2>3 DEF RecoveryProbeFails, UnlockFails
  <2>4. CASE RollForward
    BY <2>4 DEF RollForward, UnlockFails, Sealed, Fresher, SnapshotWritten, PlainWritten,
       PlainMoved, StagedMovedIn
  <2>5. CASE SpendRecovery
    BY <2>5 DEF SpendRecovery, Shredded
  <2>6. CASE DecryptSnapshot
    BY <2>6 DEF DecryptSnapshot, UnlockFails, Shredded
  <2>7. CASE PlaceWorkingFile
    BY <2>7 DEF PlaceWorkingFile, UnlockFails, TransientSwept, SnapshotWritten, PlainWritten,
       PlainMoved, StagedMovedIn
  <2>8. CASE OpenWorkingFile
    BY <2>8 DEF OpenWorkingFile
  <2>9. CASE OpenRefused
    BY <2>9 DEF OpenRefused, UnlockFails, Shredded
  <2> QED
    BY <1>3, <2>1, <2>2, <2>3, <2>4, <2>5, <2>6, <2>7, <2>8, <2>9 DEF UnlockStep
<1>4. CASE LockStep
  <2>1. CASE SealSnapshot
    BY <2>1 DEF SealSnapshot, Sealed, SnapshotWritten, PlainWritten, PlainMoved, StagedMovedIn
  <2>2. CASE EraseWorkingFile
    BY <2>2 DEF EraseWorkingFile, Shredded
  <2>3. CASE Reopen
    BY <2>3 DEF Reopen
  <2>4. CASE CloseForExit
    BY <2>4 DEF CloseForExit
  <2>5. CASE Exit
    BY <2>5 DEF Exit, MemoryLost, Idle, Locked, NoDescr
  <2> QED
    BY <1>4, <2>1, <2>2, <2>3, <2>4, <2>5 DEF LockStep
<1>5. CASE CreateStep
  <2>1. CASE SealNewVault
    BY <2>1 DEF SealNewVault, FreshKeys, Sealed, SnapshotWritten, PlainWritten, PlainMoved,
       StagedMovedIn, NoFile
  <2>2. CASE EraseNewPlaintext
    BY <2>2 DEF EraseNewPlaintext, Shredded
  <2>3. CASE CommitNewDescriptor
    BY <2>3 DEF CommitNewDescriptor
  <2>4. CASE AdoptNewSnapshot
    BY <2>4 DEF AdoptNewSnapshot, SnapshotWritten, PlainWritten, PlainMoved, StagedMovedIn
  <2> QED
    BY <1>5, <2>1, <2>2, <2>3, <2>4 DEF CreateStep
<1>6. CASE ChangeStep
  <2>1. CASE StageJournal
    BY <2>1 DEF StageJournal, FreshKeys, Checkpointed, AbortChange, SnapshotWritten, PlainWritten,
       PlainMoved, StagedMovedIn
  <2>2. CASE StageDatabase
    BY <2>2 DEF StageDatabase, AbortChange, Sealed, SnapshotWritten, PlainWritten, PlainMoved,
       StagedMovedIn, NoFile
  <2>3. CASE StageSidecar
    BY <2>3 DEF StageSidecar, AbortChange, Sealed, ToStage, TransientSwept
  <2>4. CASE CommitRekey
    BY <2>4 DEF CommitRekey, AbortChange, StagedRekeyFiles, ToStage
  <2> QED
    BY <1>6, <2>1, <2>2, <2>3, <2>4 DEF ChangeStep
<1>7. CASE Request
  <2>1. CASE Launch
    BY <2>1 DEF Launch, NoDescr
  <2>2. CASE Unlock
    BY <2>2 DEF Unlock, Idle, Locked
  <2>3. CASE WriteDatabase
    BY <2>3 DEF WriteDatabase, Idle
  <2>4. CASE Create
    BY <2>4 DEF Create, Idle, Locked, VaultExistsOnDisk, SnapshotWritten, PlainWritten,
       PlainMoved, StagedMovedIn
  <2>5. CASE ChangePassword
    BY <2>5 DEF ChangePassword, Idle, DocumentsBusy
  <2>6. CASE \E t \in {"lock", "quit"} : Lock(t)
    BY <2>6 DEF Lock, Checkpointed, Idle, Locked, SnapshotWritten, PlainWritten, PlainMoved,
       StagedMovedIn
  <2> QED
    BY <1>7, <2>1, <2>2, <2>3, <2>4, <2>5, <2>6 DEF Request
<1>8. CASE Environment
  <2>1. CASE Crash
    BY <2>1 DEF Crash, MemoryLost, NoDescr
  <2>2. CASE ForeignOverwrite
    BY <2>2 DEF ForeignOverwrite, Idle
  <2>3. CASE DamageDescriptor
    BY <2>3 DEF DamageDescriptor
  <2>4. CASE RestoreDescriptor
    BY <2>4 DEF RestoreDescriptor, Idle
  <2> QED
    BY <1>8, <2>1, <2>2, <2>3, <2>4 DEF Environment
<1>9. CASE DocumentStep
  BY <1>9, FilesAssumption DEF DocumentStep, BeginDocumentWork, StartSidecarWrite,
     FinishSidecarWrite, EndDocumentWork, Idle
<1>10. CASE UNCHANGED vars
  BY <1>10 DEF vars
<1> QED
  BY <1>1, <1>2, <1>3, <1>4, <1>5, <1>6, <1>7, <1>8, <1>9, <1>10 DEF Next

-----------------------------------------------------------------------------
(* Which file is the database, at every step.                              *)

\* Nothing else holds the database files or moves the clock, and a damaged
\* descriptor is put back only while the application is closed.
Undisturbed == /\ SteadyClock /\ DescriptorFaults # "anyTime"
               /\ {"db", "wal", DB, StagedName} \cap Holdable = {}

\* Recovery decides by the committed descriptor.
Deciding ==
  /\ desc.ver = "none" => desc = NoDescr
  /\ descr \in {desc, NoDescr}
  /\ pc = "discard" => desc.ver # "v2"
  /\ pc \in {"swap", "swapIn", "adopt"} => desc.ver = "v2"
  /\ pc \in {"swap", "swapIn"} /\ DB \in todo => staged[DB] # NoFile
  /\ pc = "swapIn" => cur \notin todo /\ (cur = DB => staged[DB] # NoFile)
  /\ Restaging => desc.ver = "v1"

\* A committed snapshot that still waits to be moved in is never beside a
\* closed working database that a salvage could prefer to it.
MoveInAlone ==
  /\ desc.ver = "v2" /\ staged[DB] # NoFile => wal = Frames \/ db = Absent
  /\ handle # "closed" /\ desc.ver = "v2" /\ pc \notin {"swap", "swapIn"} => staged[DB] = NoFile
  /\ pc = "swap" /\ staged[DB] # NoFile => DB \in todo
  /\ pc = "swapIn" /\ staged[DB] # NoFile => DB \in todo \/ cur = DB

\* An open session has its log, a snapshot to fall back on, and no fresher
\* .recovery beside that.
OpenSession ==
  /\ handle = "open" => wal = Frames
  /\ Restaging \/ (pc \in Recovering /\ task \in {"change", "abort"}) => handle = "open"
  /\ handle # "closed" =>
       live >= 0 /\ NotAhead(DB) /\ (cipher[DB] # NoFile \/ (pc = "swapIn" /\ cur = DB))
  /\ pc \in {"stageDocs", "swap", "swapIn"} /\ handle # "closed" /\ staged[DB] # NoFile =>
       NotAhead(StagedName)

\* From the checkpoint of a lock on, the working file is the session's database
\* and newer than the snapshot, until it is sealed.
DeadSession ==
  /\ pc \in {"seal", "erase", "reopen"} => handle = "dead"
  /\ handle = "dead" =>
       wal = Absent /\ (HasHeader(db) => db = live /\ (pc # "erase" => DB \in older["db"]))
  /\ pc = "erase" => cipher[DB].body = live
  /\ pc = "closeForExit" => (HasHeader(db) => db = live /\ DB \in older["db"])

\* unlock() decrypts the snapshot only when that is the saved database.
OpeningFiles ==
  /\ pc \in Opening \ {"open"} => db = Absent
  /\ pc \in {"place", "open"} => wal = Absent
  /\ pc \in {"spend", "decrypt", "place", "open"} => ~Fresher
  /\ pc = "open" => db = cipher[DB].body

FreshVault ==
  descr.ver = "none" /\ desc.ver # "none" /\ ~damaged /\ pc # "down" =>
    recovery = Absent /\ (pc # "open" => db = Absent)

CreateFiles ==
  /\ pc = "sealNew" => db = 0
  /\ pc \in {"eraseNew", "commitNew"} => staged[DB].body = 0
  /\ pc = "commitNew" => db = Absent

\* The snapshot a password change stages is the running session's database.
StageFiles ==
  /\ pc = "stageDb" => db = live
  /\ pc = "stageDocs" => staged[DB] # NoFile /\ staged[DB].body = live

\* The sweep starts only when there is nothing left to salvage.
SalvageFiles ==
  /\ pc = "salvage" => WouldSalvage
  /\ pc = "sweep" => ~WouldSalvage

FilesInStep == /\ MoveInAlone /\ OpenSession /\ DeadSession /\ OpeningFiles /\ FreshVault
               /\ CreateFiles /\ StageFiles /\ SalvageFiles

\* No file is ahead of the last write, and a torn main file is never sealed.
Generations == /\ cipher[DB].body <= top /\ staged[DB].body <= top /\ db <= top
               /\ recovery <= top /\ live <= top
NotTorn == /\ cipher[DB].body # Torn /\ staged[DB].body # Torn /\ recovery # Torn
           /\ db = Torn => wal = Frames
Contents == Generations /\ NotTorn

\* Every action decides by the descriptor that is committed.
LEMMA DecidingNext ==
  ASSUME Undisturbed, TypeOK, VaultKnown, Spent, Deciding, [Next]_vars
  PROVE  Deciding'
<1> USE DEF Deciding, NoDescr
<1> USE DEF VaultKnown, NoVaultYet, ReadFirst, NewVault, Adopted, SessionOfVault, NoSession,
            TaskInStep, Readable, Opening, Recovering, OnSession, Sweeping, Creating, Idle,
            Restaging, Formats
<1> USE DEF descVars, rekeyVars, plainVars, stepVars, sessionVars, workVars, ghostVars
<1>a. /\ cipher \in [CipherFiles -> FileRecords] /\ staged \in [CipherFiles -> FileRecords]
      /\ older \in [PlainNames -> SUBSET StampNames] /\ DB \in CipherFiles /\ desc.ver \in Formats
      /\ db \in Bodies /\ recovery \in Bodies /\ live \in Bodies /\ wal \in {Absent, Noise, Frames}
      /\ handle \in {"closed", "open", "dead"} /\ cipher[DB].body \in Bodies /\ staged[DB].body \in Bodies /\ top \in Nat
  BY FileFields DEF TypeOK, CipherTypes, PlainTypes, StampTypes, CipherFiles, DescriptorTypes, Descriptors, SessionTypes, HistoryTypes
<1>b. /\ SteadyClock /\ DescriptorFaults # "anyTime" /\ "db" \notin Holdable /\ "wal" \notin Holdable
      /\ DB \notin Holdable /\ StagedName \notin Holdable /\ DB \notin OutOfStore
  BY FilesAssumption DEF Undisturbed
<1> USE <1>a, <1>b
<1>1. CASE InitStep
  <2>1. CASE InitWithoutDescriptor
    BY <2>1 DEF InitWithoutDescriptor
  <2>2. CASE SalvageNotNeeded
    BY <2>2 DEF SalvageNotNeeded
  <2>3. CASE SalvageProbeFails
    BY <2>3 DEF SalvageProbeFails, Block
  <2>4. CASE SalvageShredOldRecovery
    BY <2>4 DEF SalvageShredOldRecovery, Shredded
  <2>5. CASE SalvageMove
    BY <2>5 DEF SalvageMove, Block
  <2>6. CASE SweepDatabase
    BY <2>6 DEF SweepDatabase, Shredded
  <2>7. CASE SweepRest
    BY <2>7 DEF SweepRest, Shredded, TransientSwept
  <2> QED
    BY <1>1, <2>1, <2>2, <2>3, <2>4, <2>5, <2>6, <2>7 DEF InitStep
<1>2. CASE RekeyStep
  <2>1. CASE RecoverPendingRekey
    BY <2>1 DEF RecoverPendingRekey, AfterRecovery, StagedRekeyFiles, DecidingDescriptor
  <2>2. CASE SwapShredTarget
    BY <2>2 DEF SwapShredTarget, ShreddedCipher, NoFile
  <2>3. CASE SwapRename
    BY <2>3 DEF SwapRename, NoFile
  <2>4. CASE SwapDone
    BY <2>4 DEF SwapDone, AfterRecovery, RecoveryFails, StagedRekeyFiles
  <2>5. CASE DiscardOne
    BY <2>5 DEF DiscardOne, RecoveryFails, StagedRekeyFiles
  <2>6. CASE DiscardDone
    BY <2>6 DEF DiscardDone, AfterRecovery, StagedRekeyFiles
  <2> QED
    BY <1>2, <2>1, <2>2, <2>3, <2>4, <2>5, <2>6 DEF RekeyStep
<1>3. CASE UnlockStep
  <2>1. CASE ReadDescriptor
    BY <2>1 DEF ReadDescriptor
  <2>2. CASE VerifyPassword
    BY <2>2 DEF VerifyPassword
  <2>3. CASE RecoveryProbeFails
    BY <2>3 DEF RecoveryProbeFails, UnlockFails
  <2>4. CASE RollForward
    BY <2>4 DEF RollForward, UnlockFails, Sealed
  <2>5. CASE SpendRecovery
    BY <2>5 DEF SpendRecovery, Shredded
  <2>6. CASE DecryptSnapshot
    BY <2>6 DEF DecryptSnapshot, UnlockFails, Shredded
  <2>7. CASE PlaceWorkingFile
    BY <2>7 DEF PlaceWorkingFile, UnlockFails, TransientSwept
  <2>8. CASE OpenWorkingFile
    BY <2>8 DEF OpenWorkingFile
  <2>9. CASE OpenRefused
    BY <2>9 DEF OpenRefused, UnlockFails, Shredded
  <2> QED
    BY <1>3, <2>1, <2>2, <2>3, <2>4, <2>5, <2>6, <2>7, <2>8, <2>9 DEF UnlockStep
<1>4. CASE LockStep
  <2>1. CASE SealSnapshot
    BY <2>1 DEF SealSnapshot, Sealed
  <2>2. CASE EraseWorkingFile
    BY <2>2 DEF EraseWorkingFile, Shredded
  <2>3. CASE Reopen
    BY <2>3 DEF Reopen
  <2>4. CASE CloseForExit
    BY <2>4 DEF CloseForExit
  <2>5. CASE Exit
    BY <2>5 DEF Exit, MemoryLost, Idle, Locked
  <2> QED
    BY <1>4, <2>1, <2>2, <2>3, <2>4, <2>5 DEF LockStep
<1>5. CASE CreateStep
  <2>1. CASE SealNewVault
    BY <2>1 DEF SealNewVault, FreshKeys, Sealed, NoFile
  <2>2. CASE EraseNewPlaintext
    BY <2>2 DEF EraseNewPlaintext, Shredded
  <2>3. CASE CommitNewDescriptor
    BY <2>3 DEF CommitNewDescriptor
  <2>4. CASE AdoptNewSnapshot
    BY <2>4 DEF AdoptNewSnapshot, NoFile
  <2> QED
    BY <1>5, <2>1, <2>2, <2>3, <2>4 DEF CreateStep
<1>6. CASE ChangeStep
  <2>1. CASE StageJournal
    BY <2>1 DEF StageJournal, FreshKeys, Checkpointed, AbortChange
  <2>2. CASE StageDatabase
    BY <2>2 DEF StageDatabase, AbortChange, Sealed, NoFile
  <2>3. CASE StageSidecar
    BY <2>3 DEF StageSidecar, AbortChange, Sealed, ToStage, TransientSwept
  <2>4. CASE CommitRekey
    BY <2>4 DEF CommitRekey, AbortChange, StagedRekeyFiles, ToStage
  <2> QED
    BY <1>6, <2>1, <2>2, <2>3, <2>4 DEF ChangeStep
<1>7. CASE Request
  <2>1. CASE Launch
    BY <2>1 DEF Launch
  <2>2. CASE Unlock
    BY <2>2 DEF Unlock, Idle, Locked
  <2>3. CASE WriteDatabase
    BY <2>3 DEF WriteDatabase, Idle
  <2>4. CASE Create
    BY <2>4 DEF Create, Idle, Locked, VaultExistsOnDisk
  <2>5. CASE ChangePassword
    BY <2>5 DEF ChangePassword, Idle, DocumentsBusy
  <2>6. CASE \E t \in {"lock", "quit"} : Lock(t)
    BY <2>6 DEF Lock, Checkpointed, Idle, Locked
  <2> QED
    BY <1>7, <2>1, <2>2, <2>3, <2>4, <2>5, <2>6 DEF Request
<1>8. CASE Environment
  <2>1. CASE Crash
    BY <2>1 DEF Crash, MemoryLost
  <2>2. CASE ForeignOverwrite
    BY <2>2 DEF ForeignOverwrite, Idle
  <2>3. CASE DamageDescriptor
    BY <2>3 DEF DamageDescriptor
  <2>4. CASE RestoreDescriptor
    BY <2>4 DEF RestoreDescriptor, Idle
  <2> QED
    BY <1>8, <2>1, <2>2, <2>3, <2>4 DEF Environment
<1>9. CASE DocumentStep
  BY <1>9 DEF DocumentStep, BeginDocumentWork, StartSidecarWrite, FinishSidecarWrite,
     EndDocumentWork, Idle
<1>10. CASE UNCHANGED vars
  BY <1>10 DEF vars
<1> QED
  BY <1>1, <1>2, <1>3, <1>4, <1>5, <1>6, <1>7, <1>8, <1>9, <1>10 DEF Next

\* Every action writes a whole database, or the one that was there.
LEMMA ContentsNext ==
  ASSUME Undisturbed, TypeOK, VaultKnown, AtRest, Spent, Deciding, Contents, FilesInStep,
         [Next]_vars
  PROVE  Contents'
<1> USE DEF AtRest, Spent, Deciding, Contents, FilesInStep, Generations, NotTorn, NoneOf,
            SweptAtRest, MoveInAlone, OpenSession, DeadSession, OpeningFiles, FreshVault,
            CreateFiles, StageFiles, SalvageFiles
<1> USE DEF NotStaged, SpentBeforeUse, StagedIsNewer, RecoveryIsSpent, NotAhead, PlainNames,
            StampNames, WouldSalvage, MaybeFresh, Fresher, HasHeader, Bodies, Absent, Noise, Torn,
            Frames, NoFile
<1> USE DEF VaultKnown, NoVaultYet, ReadFirst, NewVault, Adopted, SessionOfVault, NoSession,
            TaskInStep, Readable, Opening, Recovering, OnSession, Sweeping, Creating, Idle,
            Restaging, Formats
<1> USE DEF descVars, rekeyVars, plainVars, stepVars, sessionVars, workVars, ghostVars
<1>a. /\ cipher \in [CipherFiles -> FileRecords] /\ staged \in [CipherFiles -> FileRecords]
      /\ older \in [PlainNames -> SUBSET StampNames] /\ DB \in CipherFiles /\ desc.ver \in Formats
      /\ db \in Bodies /\ recovery \in Bodies /\ live \in Bodies /\ wal \in {Absent, Noise, Frames}
      /\ handle \in {"closed", "open", "dead"} /\ cipher[DB].body \in Bodies /\ staged[DB].body \in Bodies /\ top \in Nat
  BY FileFields DEF TypeOK, CipherTypes, PlainTypes, StampTypes, CipherFiles, DescriptorTypes, Descriptors, SessionTypes, HistoryTypes
<1>b. /\ SteadyClock /\ DescriptorFaults # "anyTime" /\ "db" \notin Holdable /\ "wal" \notin Holdable
      /\ DB \notin Holdable /\ StagedName \notin Holdable /\ DB \notin OutOfStore
  BY FilesAssumption DEF Undisturbed
<1> USE <1>a, <1>b
<1>1. CASE InitStep
  <2>1. CASE InitWithoutDescriptor
    BY <2>1 DEF InitWithoutDescriptor
  <2>2. CASE SalvageNotNeeded
    BY <2>2 DEF SalvageNotNeeded
  <2>3. CASE SalvageProbeFails
    BY <2>3 DEF SalvageProbeFails, Block
  <2>4. CASE SalvageShredOldRecovery
    BY <2>4 DEF SalvageShredOldRecovery, Shredded
  <2>5. CASE SalvageMove
    BY <2>5 DEF SalvageMove, Block
  <2>6. CASE SweepDatabase
    BY <2>6 DEF SweepDatabase, Shredded
  <2>7. CASE SweepRest
    BY <2>7 DEF SweepRest, Shredded, TransientSwept
  <2> QED
    BY <1>1, <2>1, <2>2, <2>3, <2>4, <2>5, <2>6, <2>7 DEF InitStep
<1>2. CASE RekeyStep
  <2>1. CASE RecoverPendingRekey
    BY <2>1 DEF RecoverPendingRekey, AfterRecovery, StagedRekeyFiles, DecidingDescriptor
  <2>2. CASE SwapShredTarget
    BY <2>2 DEF SwapShredTarget, ShreddedCipher
  <2>3. CASE SwapRename
    BY <2>3 DEF SwapRename
  <2>4. CASE SwapDone
    BY <2>4 DEF SwapDone, AfterRecovery, RecoveryFails, StagedRekeyFiles
  <2>5. CASE DiscardOne
    BY <2>5 DEF DiscardOne, RecoveryFails, StagedRekeyFiles
  <2>6. CASE DiscardDone
    BY <2>6 DEF DiscardDone, AfterRecovery, StagedRekeyFiles
  <2> QED
    BY <1>2, <2>1, <2>2, <2>3, <2>4, <2>5, <2>6 DEF RekeyStep
<1>3. CASE UnlockStep
  <2>1. CASE ReadDescriptor
    BY <2>1 DEF ReadDescriptor
  <2>2. CASE VerifyPassword
    BY <2>2 DEF VerifyPassword
  <2>3. CASE RecoveryProbeFails
    BY <2>3 DEF RecoveryProbeFails, UnlockFails
  <2>4. CASE RollForward
    BY <2>4 DEF RollForward, UnlockFails, Sealed
  <2>5. CASE SpendRecovery
    BY <2>5 DEF SpendRecovery, Shredded
  <2>6. CASE DecryptSnapshot
    BY <2>6 DEF DecryptSnapshot, UnlockFails, Shredded
  <2>7. CASE PlaceWorkingFile
    BY <2>7 DEF PlaceWorkingFile, UnlockFails, TransientSwept
  <2>8. CASE OpenWorkingFile
    BY <2>8 DEF OpenWorkingFile
  <2>9. CASE OpenRefused
    BY <2>9 DEF OpenRefused, UnlockFails, Shredded
  <2> QED
    BY <1>3, <2>1, <2>2, <2>3, <2>4, <2>5, <2>6, <2>7, <2>8, <2>9 DEF UnlockStep
<1>4. CASE LockStep
  <2>1. CASE SealSnapshot
    BY <2>1 DEF SealSnapshot, Sealed
  <2>2. CASE EraseWorkingFile
    BY <2>2 DEF EraseWorkingFile, Shredded
  <2>3. CASE Reopen
    BY <2>3 DEF Reopen
  <2>4. CASE CloseForExit
    BY <2>4 DEF CloseForExit
  <2>5. CASE Exit
    BY <2>5 DEF Exit, MemoryLost, Idle, Locked
  <2> QED
    BY <1>4, <2>1, <2>2, <2>3, <2>4, <2>5 DEF LockStep
<1>5. CASE CreateStep
  <2>1. CASE SealNewVault
    BY <2>1 DEF SealNewVault, FreshKeys, Sealed
  <2>2. CASE EraseNewPlaintext
    BY <2>2 DEF EraseNewPlaintext, Shredded
  <2>3. CASE CommitNewDescriptor
    BY <2>3 DEF CommitNewDescriptor
  <2>4. CASE AdoptNewSnapshot
    BY <2>4 DEF AdoptNewSnapshot
  <2> QED
    BY <1>5, <2>1, <2>2, <2>3, <2>4 DEF CreateStep
<1>6. CASE ChangeStep
  <2>1. CASE StageJournal
    BY <2>1 DEF StageJournal, FreshKeys, Checkpointed, AbortChange
  <2>2. CASE StageDatabase
    BY <2>2 DEF StageDatabase, AbortChange, Sealed
  <2>3. CASE StageSidecar
    BY <2>3 DEF StageSidecar, AbortChange, Sealed, ToStage, TransientSwept
  <2>4. CASE CommitRekey
    BY <2>4 DEF CommitRekey, AbortChange, StagedRekeyFiles, ToStage
  <2> QED
    BY <1>6, <2>1, <2>2, <2>3, <2>4 DEF ChangeStep
<1>7. CASE Request
  <2>1. CASE Launch
    BY <2>1 DEF Launch
  <2>2. CASE Unlock
    BY <2>2 DEF Unlock, Idle, Locked
  <2>3. CASE WriteDatabase
    BY <2>3 DEF WriteDatabase, Idle
  <2>4. CASE Create
    BY <2>4 DEF Create, Idle, Locked, VaultExistsOnDisk
  <2>5. CASE ChangePassword
    BY <2>5 DEF ChangePassword, Idle, DocumentsBusy
  <2>6. CASE \E t \in {"lock", "quit"} : Lock(t)
    BY <2>6 DEF Lock, Checkpointed, Idle, Locked
  <2> QED
    BY <1>7, <2>1, <2>2, <2>3, <2>4, <2>5, <2>6 DEF Request
<1>8. CASE Environment
  <2>1. CASE Crash
    BY <2>1 DEF Crash, MemoryLost
  <2>2. CASE ForeignOverwrite
    BY <2>2 DEF ForeignOverwrite, Idle
  <2>3. CASE DamageDescriptor
    BY <2>3 DEF DamageDescriptor
  <2>4. CASE RestoreDescriptor
    BY <2>4 DEF RestoreDescriptor, Idle
  <2> QED
    BY <1>8, <2>1, <2>2, <2>3, <2>4 DEF Environment
<1>9. CASE DocumentStep
  BY <1>9, FilesAssumption DEF DocumentStep, BeginDocumentWork, StartSidecarWrite,
     FinishSidecarWrite, EndDocumentWork, Idle
<1>10. CASE UNCHANGED vars
  BY <1>10 DEF vars
<1> QED
  BY <1>1, <1>2, <1>3, <1>4, <1>5, <1>6, <1>7, <1>8, <1>9, <1>10 DEF Next

\* Every action leaves the files as the next one expects them.
LEMMA FilesNext ==
  ASSUME Undisturbed, TypeOK, VaultKnown, AtRest, Spent, Deciding, Contents, FilesInStep,
         [Next]_vars
  PROVE  FilesInStep'
<1> USE DEF AtRest, Spent, Deciding, Contents, FilesInStep, Generations, NotTorn, NoneOf,
            SweptAtRest, MoveInAlone, OpenSession, DeadSession, OpeningFiles, FreshVault,
            CreateFiles, StageFiles, SalvageFiles
<1> USE DEF NotStaged, SpentBeforeUse, StagedIsNewer, RecoveryIsSpent, NotAhead, PlainNames,
            StampNames, WouldSalvage, MaybeFresh, Fresher, HasHeader, Bodies, Absent, Noise, Torn,
            Frames, NoFile
<1> USE DEF VaultKnown, NoVaultYet, ReadFirst, NewVault, Adopted, SessionOfVault, NoSession,
            TaskInStep, Readable, Opening, Recovering, OnSession, Sweeping, Creating, Idle,
            Restaging, Formats
<1> USE DEF descVars, rekeyVars, plainVars, stepVars, sessionVars, workVars, ghostVars
<1>a. /\ cipher \in [CipherFiles -> FileRecords] /\ staged \in [CipherFiles -> FileRecords]
      /\ older \in [PlainNames -> SUBSET StampNames] /\ DB \in CipherFiles /\ desc.ver \in Formats
      /\ db \in Bodies /\ recovery \in Bodies /\ live \in Bodies /\ wal \in {Absent, Noise, Frames}
      /\ handle \in {"closed", "open", "dead"} /\ cipher[DB].body \in Bodies /\ staged[DB].body \in Bodies /\ top \in Nat
  BY FileFields DEF TypeOK, CipherTypes, PlainTypes, StampTypes, CipherFiles, DescriptorTypes, Descriptors, SessionTypes, HistoryTypes
<1>b. /\ SteadyClock /\ DescriptorFaults # "anyTime" /\ "db" \notin Holdable /\ "wal" \notin Holdable
      /\ DB \notin Holdable /\ StagedName \notin Holdable /\ DB \notin OutOfStore
  BY FilesAssumption DEF Undisturbed
<1> USE <1>a, <1>b
<1>1. CASE InitStep
  <2>1. CASE InitWithoutDescriptor
    BY <2>1 DEF InitWithoutDescriptor
  <2>2. CASE SalvageNotNeeded
    BY <2>2 DEF SalvageNotNeeded
  <2>3. CASE SalvageProbeFails
    BY <2>3 DEF SalvageProbeFails, Block
  <2>4. CASE SalvageShredOldRecovery
    BY <2>4 DEF SalvageShredOldRecovery, Shredded
  <2>5. CASE SalvageMove
    BY <2>5 DEF SalvageMove, Block, SnapshotWritten, PlainWritten, PlainMoved, StagedMovedIn
  <2>6. CASE SweepDatabase
    BY <2>6 DEF SweepDatabase, Shredded
  <2>7. CASE SweepRest
    BY <2>7 DEF SweepRest, Shredded, TransientSwept
  <2> QED
    BY <1>1, <2>1, <2>2, <2>3, <2>4, <2>5, <2>6, <2>7 DEF InitStep
<1>2. CASE RekeyStep
  <2>1. CASE RecoverPendingRekey
    BY <2>1 DEF RecoverPendingRekey, AfterRecovery, StagedRekeyFiles, DecidingDescriptor
  <2>2. CASE SwapShredTarget
    BY <2>2 DEF SwapShredTarget, ShreddedCipher
  <2>3. CASE SwapRename
    BY <2>3 DEF SwapRename, SnapshotWritten, PlainWritten, PlainMoved, StagedMovedIn
  <2>4. CASE SwapDone
    BY <2>4 DEF SwapDone, AfterRecovery, RecoveryFails, StagedRekeyFiles
  <2>5. CASE DiscardOne
    BY <2>5 DEF DiscardOne, RecoveryFails, StagedRekeyFiles
  <2>6. CASE DiscardDone
    BY <2>6 DEF DiscardDone, AfterRecovery, StagedRekeyFiles
  <2> QED
    BY <1>2, <2>1, <2>2, <2>3, <2>4, <2>5, <2>6 DEF RekeyStep
<1>3. CASE UnlockStep
  <2>1. CASE ReadDescriptor
    BY <2>1 DEF ReadDescriptor
  <2>2. CASE VerifyPassword
    BY <2>2 DEF VerifyPassword
  <2>3. CASE RecoveryProbeFails
    BY <2>3 DEF RecoveryProbeFails, UnlockFails
  <2>4. CASE RollForward
    BY <2>4 DEF RollForward, UnlockFails, Sealed, SnapshotWritten, PlainWritten, PlainMoved,
       StagedMovedIn
  <2>5. CASE SpendRecovery
    BY <2>5 DEF SpendRecovery, Shredded
  <2>6. CASE DecryptSnapshot
    BY <2>6 DEF DecryptSnapshot, UnlockFails, Shredded
  <2>7. CASE PlaceWorkingFile
    BY <2>7 DEF PlaceWorkingFile, UnlockFails, TransientSwept, SnapshotWritten, PlainWritten,
       PlainMoved, StagedMovedIn, NoDescr
  <2>8. CASE OpenWorkingFile
    BY <2>8 DEF OpenWorkingFile, NoDescr
  <2>9. CASE OpenRefused
    BY <2>9 DEF OpenRefused, UnlockFails, Shredded
  <2> QED
    BY <1>3, <2>1, <2>2, <2>3, <2>4, <2>5, <2>6, <2>7, <2>8, <2>9 DEF UnlockStep
<1>4. CASE LockStep
  <2>1. CASE SealSnapshot
    BY <2>1 DEF SealSnapshot, Sealed, SnapshotWritten, PlainWritten, PlainMoved, StagedMovedIn
  <2>2. CASE EraseWorkingFile
    BY <2>2 DEF EraseWorkingFile, Shredded
  <2>3. CASE Reopen
    BY <2>3 DEF Reopen
  <2>4. CASE CloseForExit
    BY <2>4 DEF CloseForExit
  <2>5. CASE Exit
    BY <2>5 DEF Exit, MemoryLost, Idle, Locked
  <2> QED
    BY <1>4, <2>1, <2>2, <2>3, <2>4, <2>5 DEF LockStep
<1>5. CASE CreateStep
  <2>1. CASE SealNewVault
    BY <2>1 DEF SealNewVault, FreshKeys, Sealed, SnapshotWritten, PlainWritten, PlainMoved,
       StagedMovedIn
  <2>2. CASE EraseNewPlaintext
    BY <2>2 DEF EraseNewPlaintext, Shredded
  <2>3. CASE CommitNewDescriptor
    BY <2>3 DEF CommitNewDescriptor
  <2>4. CASE AdoptNewSnapshot
    BY <2>4 DEF AdoptNewSnapshot, SnapshotWritten, PlainWritten, PlainMoved, StagedMovedIn
  <2> QED
    BY <1>5, <2>1, <2>2, <2>3, <2>4 DEF CreateStep
<1>6. CASE ChangeStep
  <2>1. CASE StageJournal
    BY <2>1 DEF StageJournal, FreshKeys, Checkpointed, AbortChange, SnapshotWritten, PlainWritten,
       PlainMoved, StagedMovedIn
  <2>2. CASE StageDatabase
    BY <2>2 DEF StageDatabase, AbortChange, Sealed, SnapshotWritten, PlainWritten, PlainMoved,
       StagedMovedIn
  <2>3. CASE StageSidecar
    BY <2>3, FilesAssumption DEF StageSidecar, AbortChange, Sealed, ToStage, TransientSwept
  <2>4. CASE CommitRekey
    BY <2>4 DEF CommitRekey, AbortChange, StagedRekeyFiles, ToStage
  <2> QED
    BY <1>6, <2>1, <2>2, <2>3, <2>4 DEF ChangeStep
<1>7. CASE Request
  <2>1. CASE Launch
    BY <2>1 DEF Launch, NoDescr
  <2>2. CASE Unlock
    BY <2>2 DEF Unlock, Idle, Locked
  <2>3. CASE WriteDatabase
    BY <2>3 DEF WriteDatabase, Idle
  <2>4. CASE Create
    BY <2>4 DEF Create, Idle, Locked, VaultExistsOnDisk, SnapshotWritten, PlainWritten,
       PlainMoved, StagedMovedIn
  <2>5. CASE ChangePassword
    BY <2>5 DEF ChangePassword, Idle, DocumentsBusy
  <2>6. CASE \E t \in {"lock", "quit"} : Lock(t)
    BY <2>6 DEF Lock, Checkpointed, Idle, Locked, SnapshotWritten, PlainWritten, PlainMoved,
       StagedMovedIn
  <2> QED
    BY <1>7, <2>1, <2>2, <2>3, <2>4, <2>5, <2>6 DEF Request
<1>8. CASE Environment
  <2>1. CASE Crash
    BY <2>1 DEF Crash, MemoryLost
  <2>2. CASE ForeignOverwrite
    BY <2>2 DEF ForeignOverwrite, Idle
  <2>3. CASE DamageDescriptor
    BY <2>3 DEF DamageDescriptor
  <2>4. CASE RestoreDescriptor
    BY <2>4 DEF RestoreDescriptor, Idle
  <2> QED
    BY <1>8, <2>1, <2>2, <2>3, <2>4 DEF Environment
<1>9. CASE DocumentStep
  BY <1>9, FilesAssumption DEF DocumentStep, BeginDocumentWork, StartSidecarWrite,
     FinishSidecarWrite, EndDocumentWork, Idle
<1>10. CASE UNCHANGED vars
  BY <1>10 DEF vars
<1> QED
  BY <1>1, <1>2, <1>3, <1>4, <1>5, <1>6, <1>7, <1>8, <1>9, <1>10 DEF Next

-----------------------------------------------------------------------------
(* The refinement.                                                         *)

PromisedStep == [Promise!Next]_Promise!vars

\* Every action of the controller is a step of the promise, or invisible in it.
LEMMA PromiseNext ==
  ASSUME Undisturbed, TypeOK, VaultKnown, AtRest, Spent, Deciding, Contents, FilesInStep,
         [Next]_vars
  PROVE  PromisedStep
<1> USE DEF AtRest, Spent, Deciding, Contents, FilesInStep, Generations, NotTorn, NoneOf,
            SweptAtRest, MoveInAlone, OpenSession, DeadSession, OpeningFiles, FreshVault,
            CreateFiles, StageFiles, SalvageFiles
<1> USE DEF NotStaged, SpentBeforeUse, StagedIsNewer, RecoveryIsSpent, NotAhead, PlainNames,
            StampNames, WouldSalvage, MaybeFresh, Fresher, HasHeader, Bodies, Absent, Noise, Torn,
            Frames, NoFile, NoDescr
<1> USE DEF VaultKnown, NoVaultYet, ReadFirst, NewVault, Adopted, SessionOfVault, NoSession,
            TaskInStep, Readable, Opening, Recovering, OnSession, Sweeping, Creating, Idle,
            Restaging, Formats
<1> USE DEF descVars, rekeyVars, plainVars, stepVars, sessionVars, workVars, ghostVars
<1> USE DEF SavedCopy, SealedCopy, WouldMoveIn, WouldRollForward, Locked, Shredded
<1> USE DEF Promise!vars, Promise!Next, Promise!Create, Promise!Open, Promise!Write, Promise!Save,
            Promise!Seal, Promise!SaveAndSeal, Promise!Resume, Promise!Close, Promise!Crash
<1>a. /\ cipher \in [CipherFiles -> FileRecords] /\ staged \in [CipherFiles -> FileRecords]
      /\ older \in [PlainNames -> SUBSET StampNames] /\ DB \in CipherFiles /\ desc.ver \in Formats
      /\ db \in Bodies /\ recovery \in Bodies /\ live \in Bodies /\ wal \in {Absent, Noise, Frames}
      /\ handle \in {"closed", "open", "dead"} /\ cipher[DB].body \in Bodies /\ staged[DB].body \in Bodies /\ top \in Nat
  BY FileFields DEF TypeOK, CipherTypes, PlainTypes, StampTypes, CipherFiles, DescriptorTypes, Descriptors, SessionTypes, HistoryTypes
<1>b. /\ SteadyClock /\ DescriptorFaults # "anyTime" /\ "db" \notin Holdable /\ "wal" \notin Holdable
      /\ DB \notin Holdable /\ StagedName \notin Holdable /\ DB \notin OutOfStore
  BY FilesAssumption DEF Undisturbed
<1> USE <1>a, <1>b
<1>1. CASE InitStep
  <2>1. CASE InitWithoutDescriptor
    BY <2>1 DEF InitWithoutDescriptor, PromisedStep
  <2>2. CASE SalvageNotNeeded
    BY <2>2 DEF SalvageNotNeeded, PromisedStep
  <2>3. CASE SalvageProbeFails
    BY <2>3 DEF SalvageProbeFails, Block, PromisedStep
  <2>4. CASE SalvageShredOldRecovery
    BY <2>4 DEF SalvageShredOldRecovery, Shredded, PromisedStep
  <2>5. CASE SalvageMove
    BY <2>5 DEF SalvageMove, Block, SnapshotWritten, PlainWritten, PlainMoved, StagedMovedIn,
       PromisedStep
  <2>6. CASE SweepDatabase
    BY <2>6 DEF SweepDatabase, Shredded, PromisedStep
  <2>7. CASE SweepRest
    BY <2>7 DEF SweepRest, Shredded, TransientSwept, PromisedStep
  <2> QED
    BY <1>1, <2>1, <2>2, <2>3, <2>4, <2>5, <2>6, <2>7 DEF InitStep
<1>2. CASE RekeyStep
  <2>1. CASE RecoverPendingRekey
    BY <2>1 DEF RecoverPendingRekey, AfterRecovery, StagedRekeyFiles, DecidingDescriptor,
       PromisedStep
  <2>2. CASE SwapShredTarget
    BY <2>2 DEF SwapShredTarget, ShreddedCipher, PromisedStep
  <2>3. CASE SwapRename
    BY <2>3 DEF SwapRename, SnapshotWritten, PlainWritten, PlainMoved, StagedMovedIn, PromisedStep
  <2>4. CASE SwapDone
    BY <2>4 DEF SwapDone, AfterRecovery, RecoveryFails, StagedRekeyFiles, PromisedStep
  <2>5. CASE DiscardOne
    BY <2>5 DEF DiscardOne, RecoveryFails, StagedRekeyFiles, PromisedStep
  <2>6. CASE DiscardDone
    BY <2>6 DEF DiscardDone, AfterRecovery, StagedRekeyFiles, PromisedStep
  <2> QED
    BY <1>2, <2>1, <2>2, <2>3, <2>4, <2>5, <2>6 DEF RekeyStep
<1>3. CASE UnlockStep
  <2>1. CASE ReadDescriptor
    BY <2>1 DEF ReadDescriptor, PromisedStep
  <2>2. CASE VerifyPassword
    BY <2>2 DEF VerifyPassword, PromisedStep
  <2>3. CASE RecoveryProbeFails
    BY <2>3 DEF RecoveryProbeFails, UnlockFails, PromisedStep
  <2>4. CASE RollForward
    BY <2>4 DEF RollForward, UnlockFails, Sealed, SnapshotWritten, PlainWritten, PlainMoved,
       StagedMovedIn, PromisedStep
  <2>5. CASE SpendRecovery
    BY <2>5 DEF SpendRecovery, Shredded, PromisedStep
  <2>6. CASE DecryptSnapshot
    BY <2>6 DEF DecryptSnapshot, UnlockFails, Shredded, PromisedStep
  <2>7. CASE PlaceWorkingFile
    BY <2>7 DEF PlaceWorkingFile, UnlockFails, TransientSwept, SnapshotWritten, PlainWritten,
       PlainMoved, StagedMovedIn, NoDescr, PromisedStep
  <2>8. CASE OpenWorkingFile
    BY <2>8 DEF OpenWorkingFile, NoDescr, PromisedStep
  <2>9. CASE OpenRefused
    BY <2>9 DEF OpenRefused, UnlockFails, Shredded, PromisedStep
  <2> QED
    BY <1>3, <2>1, <2>2, <2>3, <2>4, <2>5, <2>6, <2>7, <2>8, <2>9 DEF UnlockStep
<1>4. CASE LockStep
  <2>1. CASE SealSnapshot
    BY <2>1 DEF SealSnapshot, Sealed, SnapshotWritten, PlainWritten, PlainMoved, StagedMovedIn,
       PromisedStep
  <2>2. CASE EraseWorkingFile
    BY <2>2 DEF EraseWorkingFile, Shredded, PromisedStep
  <2>3. CASE Reopen
    BY <2>3 DEF Reopen, PromisedStep
  <2>4. CASE CloseForExit
    BY <2>4 DEF CloseForExit, PromisedStep
  <2>5. CASE Exit
    BY <2>5 DEF Exit, MemoryLost, Idle, Locked, PromisedStep
  <2> QED
    BY <1>4, <2>1, <2>2, <2>3, <2>4, <2>5 DEF LockStep
<1>5. CASE CreateStep
  <2>1. CASE SealNewVault
    BY <2>1 DEF SealNewVault, FreshKeys, Sealed, SnapshotWritten, PlainWritten, PlainMoved,
       StagedMovedIn, PromisedStep
  <2>2. CASE EraseNewPlaintext
    BY <2>2 DEF EraseNewPlaintext, Shredded, PromisedStep
  <2>3. CASE CommitNewDescriptor
    BY <2>3 DEF CommitNewDescriptor, PromisedStep
  <2>4. CASE AdoptNewSnapshot
    BY <2>4 DEF AdoptNewSnapshot, SnapshotWritten, PlainWritten, PlainMoved, StagedMovedIn,
       PromisedStep
  <2> QED
    BY <1>5, <2>1, <2>2, <2>3, <2>4 DEF CreateStep
<1>6. CASE ChangeStep
  <2>1. CASE StageJournal
    BY <2>1 DEF StageJournal, FreshKeys, Checkpointed, AbortChange, SnapshotWritten, PlainWritten,
       PlainMoved, StagedMovedIn, PromisedStep
  <2>2. CASE StageDatabase
    BY <2>2 DEF StageDatabase, AbortChange, Sealed, SnapshotWritten, PlainWritten, PlainMoved,
       StagedMovedIn, PromisedStep
  <2>3. CASE StageSidecar
    BY <2>3 DEF StageSidecar, AbortChange, Sealed, ToStage, TransientSwept, PromisedStep
  <2>4. CASE CommitRekey
    BY <2>4 DEF CommitRekey, AbortChange, StagedRekeyFiles, ToStage, PromisedStep
  <2> QED
    BY <1>6, <2>1, <2>2, <2>3, <2>4 DEF ChangeStep
<1>7. CASE Request
  <2>1. CASE Launch
    BY <2>1 DEF Launch, NoDescr, PromisedStep
  <2>2. CASE Unlock
    BY <2>2 DEF Unlock, Idle, Locked, PromisedStep
  <2>3. CASE WriteDatabase
    BY <2>3 DEF WriteDatabase, Idle, PromisedStep
  <2>4. CASE Create
    BY <2>4 DEF Create, Idle, Locked, VaultExistsOnDisk, SnapshotWritten, PlainWritten,
       PlainMoved, StagedMovedIn, PromisedStep
  <2>5. CASE ChangePassword
    BY <2>5 DEF ChangePassword, Idle, DocumentsBusy, PromisedStep
  <2>6. CASE \E t \in {"lock", "quit"} : Lock(t)
    BY <2>6 DEF Lock, Checkpointed, Idle, Locked, SnapshotWritten, PlainWritten, PlainMoved,
       StagedMovedIn, PromisedStep
  <2> QED
    BY <1>7, <2>1, <2>2, <2>3, <2>4, <2>5, <2>6 DEF Request
<1>8. CASE Environment
  <2>1. CASE Crash
    BY <2>1 DEF Crash, MemoryLost, PromisedStep
  <2>2. CASE ForeignOverwrite
    BY <2>2 DEF ForeignOverwrite, Idle, PromisedStep
  <2>3. CASE DamageDescriptor
    BY <2>3 DEF DamageDescriptor, PromisedStep
  <2>4. CASE RestoreDescriptor
    BY <2>4 DEF RestoreDescriptor, Idle, PromisedStep
  <2> QED
    BY <1>8, <2>1, <2>2, <2>3, <2>4 DEF Environment
<1>9. CASE DocumentStep
  <2>1. PICK d \in Docs : \/ BeginDocumentWork(d) \/ StartSidecarWrite(d)
                            \/ FinishSidecarWrite(d) \/ EndDocumentWork(d)
    BY <1>9 DEF DocumentStep
  <2>2. CASE BeginDocumentWork(d)
    BY <2>2 DEF BeginDocumentWork, Idle, PromisedStep
  <2>3. CASE StartSidecarWrite(d)
    BY <2>3 DEF StartSidecarWrite, Idle, PromisedStep
  <2>4. CASE FinishSidecarWrite(d)
    BY <2>4, FilesAssumption DEF FinishSidecarWrite, Idle, PromisedStep, Sealed
  <2>5. CASE EndDocumentWork(d)
    BY <2>5 DEF EndDocumentWork, Idle, PromisedStep
  <2> QED
    BY <2>1, <2>2, <2>3, <2>4, <2>5
<1>10. CASE UNCHANGED vars
  BY <1>10 DEF vars, PromisedStep
<1> QED
  BY <1>1, <1>2, <1>3, <1>4, <1>5, <1>6, <1>7, <1>8, <1>9, <1>10 DEF Next

VaultInv == VaultKnown /\ AtRest /\ Spent /\ Deciding /\ Contents /\ FilesInStep

\* A vault found on the drive is closed, swept and complete.
LEMMA VaultInit == Init => VaultInv
<1> SUFFICES ASSUME Init PROVE VaultInv
  OBVIOUS
<1>1. PICK v \in StartFormats, start \in StartBodies, k \in MaybeKeys :
        /\ k \in StartKeys(v) /\ desc = [ver |-> v, key |-> k]
        /\ cipher = [f \in CipherFiles |-> IF v = "none" THEN NoFile
                                           ELSE Sealed(k, IF f = DB THEN start ELSE 0)]
  <2>1. PICK v \in StartFormats, start \in StartBodies :
          \E k \in StartKeys(v) :
            /\ desc = [ver |-> v, key |-> k]
            /\ cipher = [f \in CipherFiles |-> IF v = "none" THEN NoFile
                                               ELSE Sealed(k, IF f = DB THEN start ELSE 0)]
    BY DEF Init
  <2> QED
    BY <2>1, VaultAssumption DEF StartKeys, MaybeKeys, Keys
<1>2. /\ v \in Formats /\ start \in {0, Noise} /\ desc.ver = v /\ desc.key = k
      /\ v = "none" => k = NoKey
      /\ cipher[DB] = IF v = "none" THEN NoFile ELSE Sealed(k, start)
  BY <1>1, VaultAssumption DEF StartKeys, CipherFiles
<1>3. /\ pc = "down" /\ task = "none" /\ handle = "closed" /\ descr = NoDescr /\ ~blocked
      /\ ~damaged /\ ~transient /\ staged[DB] = NoFile /\ db = Absent /\ wal = Absent
      /\ recovery = Absent /\ lease = {} /\ live = Absent /\ top = 0
  BY DEF Init, CipherFiles
<1> USE DEF HasHeader, Absent, Noise, Torn
<1>4. VaultKnown
  BY <1>2, <1>3 DEF VaultKnown, NoVaultYet, ReadFirst, NewVault, Adopted, SessionOfVault, NoSession,
     TaskInStep, Opening, Recovering, Creating, OnSession, Sweeping, NoDescr
<1>5. AtRest /\ Spent
  BY <1>3 DEF AtRest, SweptAtRest, TransientAtRest, StillDamaged, Idle, Recovering, Opening, NoneOf,
     NoDescr, Spent, NotStaged, SpentBeforeUse, StagedIsNewer, RecoveryIsSpent
<1>6. Deciding
  BY <1>1, <1>2, <1>3 DEF Deciding, NoDescr, Restaging
<1>7. Contents
  BY <1>2, <1>3 DEF Contents, Generations, NotTorn, NoFile, Sealed
<1>8. FilesInStep
  BY <1>3 DEF FilesInStep, MoveInAlone, OpenSession, DeadSession, OpeningFiles, FreshVault,
     CreateFiles, StageFiles, SalvageFiles, Opening, Recovering, Restaging
<1> QED
  BY <1>4, <1>5, <1>6, <1>7, <1>8 DEF VaultInv

\* The vault the process knows of is the one on the drive.
LEMMA KnownAlways ==
  ASSUME StagedName \notin Holdable, DescriptorFaults # "anyTime"
  PROVE  Spec => []VaultKnown
<1>1. Init => VaultKnown
  BY VaultInit DEF VaultInv
<1>2. TypeOK /\ VaultKnown /\ [Next]_vars => VaultKnown'
  BY KnownNext
<1> QED
  BY <1>1, <1>2, TypeCorrect, PTL DEF Spec

\* Once the application is up and locked, no decrypted database, log or
\* temporary is left that nothing else holds open: whatever was killed, failed
\* or damaged before, with any clock.
THEOREM LockedLeavesNothing ==
  ASSUME StagedName \notin Holdable, DescriptorFaults # "anyTime"
  PROVE  Spec => []NothingLeftAtRest
<1>1. Init => AtRest
  BY VaultInit DEF VaultInv
<1>2. TypeOK /\ VaultKnown /\ AtRest /\ [Next]_vars => AtRest'
  BY RestNext
<1>3. VaultKnown /\ AtRest => NothingLeftAtRest
  BY DEF VaultKnown, AtRest, SweptAtRest, TransientAtRest, NothingLeftAtRest, NoneOf, Idle, Locked,
     Sweeping
<1> QED
  BY <1>1, <1>2, <1>3, KnownAlways, TypeCorrect, PTL DEF Spec

\* A .recovery beside a working database is never ahead of the snapshot, so a
\* salvage that shreds it to make room loses nothing.
THEOREM RecoverySpent ==
  ASSUME StagedName \notin Holdable, DescriptorFaults # "anyTime", SteadyClock
  PROVE  Spec => []RecoveryIsSpent
<1>1. Init => Spent
  BY VaultInit DEF VaultInv
<1>2. TypeOK /\ VaultKnown /\ Spent /\ [Next]_vars => Spent'
  BY SpentNext
<1>3. Spent => RecoveryIsSpent
  BY DEF Spent
<1> QED
  BY <1>1, <1>2, <1>3, KnownAlways, TypeCorrect, PTL DEF Spec

\* Every step keeps the files in step.
LEMMA VaultNext ==
  ASSUME Undisturbed, TypeOK, VaultInv, [Next]_vars
  PROVE  VaultInv' /\ PromisedStep
<1>1. StagedName \notin Holdable /\ DescriptorFaults # "anyTime" /\ SteadyClock
  BY DEF Undisturbed
<1>2. VaultKnown /\ AtRest /\ Spent /\ Deciding /\ Contents /\ FilesInStep
  BY DEF VaultInv
<1>3. VaultKnown'
  BY <1>1, <1>2, KnownNext
<1>4. AtRest'
  BY <1>1, <1>2, RestNext
<1>5. Spent'
  BY <1>1, <1>2, SpentNext
<1>6. Deciding'
  BY <1>2, DecidingNext
<1>7. Contents'
  BY <1>2, ContentsNext
<1>8. FilesInStep'
  BY <1>2, FilesNext
<1>9. PromisedStep
  BY <1>2, PromiseNext
<1> QED
  BY <1>3, <1>4, <1>5, <1>6, <1>7, <1>8, <1>9 DEF VaultInv

\* In every reachable state one file is the saved database, and it is known which.
THEOREM FilesAlwaysInStep == Undisturbed => (Spec => []VaultInv)
<1> SUFFICES ASSUME Undisturbed PROVE Spec => []VaultInv
  OBVIOUS
<1>1. TypeOK /\ VaultInv /\ [Next]_vars => VaultInv'
  BY VaultNext
<1> QED
  BY <1>1, VaultInit, TypeCorrect, PTL DEF Spec

\* The vault implements its promise: whatever files an operation, a crash or a
\* failed write leaves behind, they amount to one saved database, which changes
\* only when a session is saved, and is lost by nothing.
THEOREM VaultKeepsPromise ==
  ASSUME Undisturbed
  PROVE  Spec => KeepsPromise
<1>1. Init => Promise!Init
  <2> SUFFICES ASSUME Init PROVE Promise!Init
    OBVIOUS
  <2>1. PICK v \in StartFormats, start \in StartBodies :
          \E k \in StartKeys(v) :
            cipher = [f \in CipherFiles |-> IF v = "none" THEN NoFile
                                            ELSE Sealed(k, IF f = DB THEN start ELSE 0)]
    BY DEF Init
  <2>2. cipher[DB].body \in {Absent, 0, Noise}
    BY <2>1, VaultAssumption DEF CipherFiles, NoFile, Sealed
  <2>3. /\ staged[DB] = NoFile /\ db = Absent /\ recovery = Absent /\ Locked
        /\ durable = cipher[DB].body
    BY DEF Init, CipherFiles, Locked
  <2>4. SealedCopy = cipher[DB].body /\ SavedCopy = SealedCopy
    BY <2>3 DEF SealedCopy, SavedCopy, WouldSalvage, WouldMoveIn, WouldRollForward, MaybeFresh,
       HasHeader, Absent, Torn
  <2> QED
    BY <2>2, <2>3, <2>4 DEF Promise!Init
<1>2. TypeOK /\ VaultInv /\ [Next]_vars => [Promise!Next]_Promise!vars
  BY VaultNext DEF PromisedStep
<1> QED
  BY <1>1, <1>2, FilesAlwaysInStep, TypeCorrect, PTL DEF Spec, KeepsPromise, Promise!Spec

\* What is saved, sealed and shown is never behind what was promised.
NotBehind ==
  /\ durable <= SavedCopy
  /\ handle # "closed" => durable <= SealedCopy /\ durable <= live

\* The steps of the promise keep it.
LEMMA PromiseNotBehind ==
  ASSUME TypeOK, TypeOK', VaultInv, VaultInv', NotBehind, PromisedStep
  PROVE  NotBehind'
<1>1. /\ handle \in {"closed", "open", "dead"} /\ durable \in Int /\ live \in Int
      /\ SavedCopy \in Int /\ SealedCopy \in Int
  BY FileFields DEF TypeOK, SessionTypes, HistoryTypes, PlainTypes, CipherTypes, CipherFiles, Bodies,
     Absent, Noise, Torn, SavedCopy, SealedCopy
<1>2. /\ (handle \in {"closed", "open", "dead"})' /\ durable' \in Int /\ live' \in Int
      /\ SavedCopy' \in Int /\ SealedCopy' \in Int
  BY FileFields DEF TypeOK, SessionTypes, HistoryTypes, PlainTypes, CipherTypes, CipherFiles, Bodies,
     Absent, Noise, Torn, SavedCopy, SealedCopy
<1>3. /\ handle # "closed" => live >= 0
      /\ handle' # "closed" => live' >= 0
  BY DEF VaultInv, FilesInStep, OpenSession
<1> USE <1>1, <1>2, <1>3 DEF NotBehind, Locked, Absent
<1>4. CASE Promise!Create
  BY <1>4 DEF Promise!Create
<1>5. CASE Promise!Open
  BY <1>5 DEF Promise!Open
<1>6. CASE Promise!Write
  BY <1>6 DEF Promise!Write
<1>7. CASE Promise!Save
  BY <1>7 DEF Promise!Save
<1>8. CASE Promise!Seal
  BY <1>8 DEF Promise!Seal
<1>9. CASE Promise!SaveAndSeal
  BY <1>9 DEF Promise!SaveAndSeal
<1>10. CASE Promise!Resume
  BY <1>10 DEF Promise!Resume
<1>11. CASE Promise!Close
  BY <1>11 DEF Promise!Close
<1>12. CASE Promise!Crash
  BY <1>12 DEF Promise!Crash
<1>13. CASE UNCHANGED Promise!vars
  BY <1>13 DEF Promise!vars
<1> QED
  BY <1>4, <1>5, <1>6, <1>7, <1>8, <1>9, <1>10, <1>11, <1>12, <1>13 DEF PromisedStep, Promise!Next

\* A session always shows at least what the last completed lock, or the last
\* clean quit after a failed one, told the user is saved.
THEOREM SavedSurvives == Undisturbed => (Spec => []LockedDataSurvives)
<1> SUFFICES ASSUME Undisturbed PROVE Spec => []LockedDataSurvives
  OBVIOUS
<1>1. Init => NotBehind
  <2> SUFFICES ASSUME Init PROVE NotBehind
    OBVIOUS
  <2>1. /\ staged[DB] = NoFile /\ db = Absent /\ recovery = Absent /\ handle = "closed"
        /\ durable = cipher[DB].body
    BY DEF Init, CipherFiles
  <2>2. SavedCopy = durable /\ durable \in Bodies
    BY <2>1, InitType DEF SealedCopy, SavedCopy, WouldSalvage, WouldMoveIn, WouldRollForward,
       MaybeFresh, HasHeader, Absent, Torn, TypeOK, HistoryTypes
  <2> QED
    BY <2>1, <2>2 DEF NotBehind, Bodies, Absent, Noise, Torn
<1>2. TypeOK /\ TypeOK' /\ VaultInv /\ NotBehind /\ [Next]_vars => NotBehind'
  BY VaultNext, PromiseNotBehind
<1>3. TypeOK /\ NotBehind => LockedDataSurvives
  BY DEF NotBehind, LockedDataSurvives, TypeOK, HistoryTypes, SessionTypes, Bodies, Absent, Noise, Torn
<1> QED
  BY <1>1, <1>2, <1>3, FilesAlwaysInStep, TypeCorrect, PTL DEF Spec
=============================================================================
