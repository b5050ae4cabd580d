----------------------- MODULE WorkspaceVaultProofs -----------------------
(***************************************************************************)
(* What holds of the vault for every set of documents, data keys and held  *)
(* files, with or without a steady clock: the types, and "old or new,      *)
(* never mixed".  Whatever the moment of a crash, the committed descriptor *)
(* opens the snapshot and every document sidecar.                          *)
(***************************************************************************)
EXTENDS WorkspaceVault, TLAPS

USE DEF Goto, Return

StampOrders == [PlainNames -> SUBSET StampNames]

\* The primitives of VaultFiles keep the mtime relation well typed.
LEMMA StampMoves ==
  ASSUME NEW o \in StampOrders
  PROVE  /\ \A p \in PlainNames : PlainWritten(o, p) \subseteq StampOrders
         /\ \A s \in StampNames : SnapshotWritten(o, s) \subseteq StampOrders
         /\ PlainMoved(o, "db", "recovery") \in StampOrders
         /\ StagedMovedIn(o) \in StampOrders
<1> USE DEF StampOrders, StampNames, PlainNames
<1>1. \A p \in PlainNames : PlainWritten(o, p) \subseteq StampOrders
  BY DEF PlainWritten
<1>2. \A s \in StampNames : SnapshotWritten(o, s) \subseteq StampOrders
  BY DEF SnapshotWritten
<1>3. PlainMoved(o, "db", "recovery") \in StampOrders
  BY DEF PlainMoved
<1>4. StagedMovedIn(o) \in StampOrders
  BY DEF StagedMovedIn
<1> QED
  BY <1>1, <1>2, <1>3, <1>4

\* Shredding leaves the content, noise, or nothing.
LEMMA ShreddedType ==
  ASSUME NEW n, NEW b
  PROVE  Shredded(n, b) \subseteq {Absent, Noise, b}
BY DEF Shredded

\* A missing file is a file record.
LEMMA NoFileType == NoFile \in FileRecords
BY DEF NoFile, FileRecords, MaybeKeys, Bodies

\* So is what encryptFile writes.
LEMMA SealedType ==
  ASSUME NEW k \in MaybeKeys, NEW b \in Bodies
  PROVE  Sealed(k, b) \in FileRecords
BY DEF Sealed, FileRecords

\* A file record has a key and a content.
LEMMA FileFields ==
  ASSUME NEW f \in FileRecords
  PROVE  f.key \in MaybeKeys /\ f.body \in Bodies
BY DEF FileRecords

\* Shredding a ciphertext leaves it, noise, or no file.
LEMMA ShreddedCipherType ==
  ASSUME NEW n, NEW f \in FileRecords
  PROVE  ShreddedCipher(n, f) \subseteq FileRecords
BY NoFileType, SealedType DEF ShreddedCipher, MaybeKeys, Bodies

\* The drive as it is found is well typed.
LEMMA InitType == Init => TypeOK
<1> SUFFICES ASSUME Init PROVE TypeOK
  OBVIOUS
<1>1. PICK v \in StartFormats, start \in StartBodies :
        \E k \in StartKeys(v) :
          /\ desc = [ver |-> v, key |-> k]
          /\ cipher = [f \in CipherFiles |-> IF v = "none" THEN NoFile
                                             ELSE Sealed(k, IF f = DB THEN start ELSE 0)]
  BY DEF Init
<1>2. PICK k \in StartKeys(v) :
        /\ desc = [ver |-> v, key |-> k]
        /\ cipher = [f \in CipherFiles |-> IF v = "none" THEN NoFile
                                           ELSE Sealed(k, IF f = DB THEN start ELSE 0)]
  BY <1>1
<1>3. v \in Formats /\ k \in MaybeKeys /\ start \in Bodies
  BY VaultAssumption DEF Bodies, StartKeys, Keys, MaybeKeys
<1>4. cipher \in [CipherFiles -> FileRecords]
  BY <1>2, <1>3, NoFileType, SealedType DEF Bodies
<1>5. cipher[DB].body \in Bodies
  BY <1>4, FileFields DEF CipherFiles
<1>6. desc \in Descriptors /\ NoDescr \in Descriptors
  BY <1>2, <1>3 DEF Descriptors, NoDescr, Formats, MaybeKeys
<1>7. DescriptorTypes /\ SessionTypes
  BY <1>6 DEF Init, DescriptorTypes, SessionTypes, MaybeKeys, Bodies
<1>8. staged \in [CipherFiles -> FileRecords]
  BY NoFileType DEF Init
<1>9. CipherTypes /\ PlainTypes /\ StampTypes
  BY <1>4, <1>8 DEF Init, CipherTypes, PlainTypes, StampTypes, Bodies
<1>10. StepTypes /\ WorkTypes
  BY DEF Init, StepTypes, WorkTypes, Steps, Tasks, CipherFiles, MaybeKeys
<1>11. HistoryTypes
  BY <1>5 DEF Init, HistoryTypes
<1>12. FlagTypes
  BY DEF Init, FlagTypes
<1> QED
  BY <1>7, <1>9, <1>10, <1>11, <1>12 DEF TypeOK

\* Every action keeps the types.
LEMMA TypeNext == TypeOK /\ [Next]_vars => TypeOK'
<1> SUFFICES ASSUME TypeOK, [Next]_vars PROVE TypeOK'
  OBVIOUS
<1> DEFINE DataTypes == /\ DescriptorTypes /\ CipherTypes /\ PlainTypes /\ StampTypes
                        /\ StepTypes /\ SessionTypes /\ WorkTypes /\ HistoryTypes
<1> USE DEF TypeOK, DescriptorTypes, CipherTypes, PlainTypes, StampTypes, StepTypes, SessionTypes,
        WorkTypes, HistoryTypes, Steps, Tasks
<1> USE DEF descVars, rekeyVars, plainVars, stepVars, sessionVars, workVars, ghostVars
<1> USE DEF Bodies, StampOrders, StampNames, PlainNames, CipherFiles, MaybeKeys
<1>1. CASE InitStep
  <2>1. CASE InitWithoutDescriptor
    BY <2>1 DEF InitWithoutDescriptor, FlagTypes
  <2>2. CASE SalvageNotNeeded
    <3>1. FlagTypes'
      BY <2>2 DEF SalvageNotNeeded, MaybeFresh, HasHeader, FlagTypes
    <3>2. DataTypes'
      BY <2>2 DEF SalvageNotNeeded, MaybeFresh, HasHeader
    <3> QED
      BY <3>1, <3>2
  <2>3. CASE SalvageProbeFails
    BY <2>3 DEF SalvageProbeFails, Block, FlagTypes
  <2>4. CASE SalvageShredOldRecovery
    BY <2>4, ShreddedType DEF SalvageShredOldRecovery, FlagTypes
  <2>5. CASE SalvageMove
    <3>1. FlagTypes'
      BY <2>5 DEF SalvageMove, Block, FlagTypes
    <3>2. DataTypes'
      BY <2>5, StampMoves DEF SalvageMove, Block
    <3> QED
      BY <3>1, <3>2
  <2>6. CASE SweepDatabase
    BY <2>6, ShreddedType DEF SweepDatabase, FlagTypes
  <2>7. CASE SweepRest
    <3>1. FlagTypes'
      BY <2>7 DEF SweepRest, TransientSwept, FlagTypes
    <3>2. DataTypes'
      BY <2>7, ShreddedType DEF SweepRest, TransientSwept
    <3> QED
      BY <3>1, <3>2
  <2> QED
    BY <1>1, <2>1, <2>2, <2>3, <2>4, <2>5, <2>6, <2>7 DEF InitStep
<1>2. CASE RekeyStep
  <2>1. CASE RecoverPendingRekey
    BY <2>1 DEF RecoverPendingRekey, AfterRecovery, StagedRekeyFiles, FlagTypes
  <2>2. CASE SwapShredTarget
    BY <2>2, ShreddedCipherType DEF SwapShredTarget, FlagTypes
  <2>3. CASE SwapRename
    BY <2>3, StampMoves, NoFileType DEF SwapRename, FlagTypes
  <2>4. CASE SwapDone
    BY <2>4 DEF SwapDone, AfterRecovery, RecoveryFails, FlagTypes
  <2>5. CASE DiscardOne
    BY <2>5, NoFileType DEF DiscardOne, RecoveryFails, StagedRekeyFiles, FlagTypes
  <2>6. CASE DiscardDone
    BY <2>6 DEF DiscardDone, AfterRecovery, FlagTypes
  <2> QED
    BY <1>2, <2>1, <2>2, <2>3, <2>4, <2>5, <2>6 DEF RekeyStep
<1>3. CASE UnlockStep
  <2>1. CASE ReadDescriptor
    BY <2>1 DEF ReadDescriptor, FlagTypes
  <2>2. CASE VerifyPassword
    BY <2>2 DEF VerifyPassword, Descriptors, FlagTypes
  <2>3. CASE RecoveryProbeFails
    BY <2>3 DEF RecoveryProbeFails, UnlockFails, FlagTypes
  <2>4. CASE RollForward
    BY <2>4, SealedType, StampMoves DEF RollForward, UnlockFails, FlagTypes
  <2>5. CASE SpendRecovery
    BY <2>5, ShreddedType DEF SpendRecovery, FlagTypes
  <2>6. CASE DecryptSnapshot
    BY <2>6, ShreddedType DEF DecryptSnapshot, UnlockFails, FlagTypes
  <2>7. CASE PlaceWorkingFile
    <3>1. FlagTypes'
      BY <2>7 DEF PlaceWorkingFile, UnlockFails, TransientSwept, FlagTypes
    <3>2. cipher[DB].body \in Bodies
      BY FileFields
    <3>3. older' \in StampOrders
      BY <2>7, StampMoves DEF PlaceWorkingFile
    <3>4. db' \in Bodies
      BY <2>7, <3>2 DEF PlaceWorkingFile
    <3>5. StepTypes'
      BY <2>7 DEF PlaceWorkingFile, UnlockFails, TransientSwept
    <3>6. SessionTypes'
      BY <2>7 DEF PlaceWorkingFile, UnlockFails, TransientSwept
    <3>7. DescriptorTypes' /\ CipherTypes' /\ WorkTypes' /\ HistoryTypes'
      BY <2>7 DEF PlaceWorkingFile
    <3> QED
      BY <2>7, <3>1, <3>3, <3>4, <3>5, <3>6, <3>7 DEF PlaceWorkingFile
  <2>8. CASE OpenWorkingFile
    BY <2>8 DEF OpenWorkingFile, FlagTypes
  <2>9. CASE OpenRefused
    BY <2>9, ShreddedType DEF OpenRefused, UnlockFails, FlagTypes
  <2> QED
    BY <1>3, <2>1, <2>2, <2>3, <2>4, <2>5, <2>6, <2>7, <2>8, <2>9 DEF UnlockStep
<1>4. CASE LockStep
  <2>1. CASE SealSnapshot
    BY <2>1, SealedType, StampMoves DEF SealSnapshot, FlagTypes
  <2>2. CASE EraseWorkingFile
    BY <2>2, ShreddedType DEF EraseWorkingFile, FlagTypes
  <2>3. CASE Reopen
    BY <2>3 DEF Reopen, FlagTypes
  <2>4. CASE CloseForExit
    BY <2>4 DEF CloseForExit, FlagTypes
  <2>5. CASE Exit
    <3>1. FlagTypes'
      BY <2>5 DEF Exit, MemoryLost, Idle, Locked, NoDescr, Descriptors, Formats, FlagTypes
    <3>2. DataTypes'
      BY <2>5 DEF Exit, MemoryLost, Idle, Locked, NoDescr, Descriptors, Formats
    <3> QED
      BY <3>1, <3>2
  <2> QED
    BY <1>4, <2>1, <2>2, <2>3, <2>4, <2>5 DEF LockStep
<1>5. CASE CreateStep
  <2>1. CASE SealNewVault
    BY <2>1, SealedType, StampMoves DEF SealNewVault, FreshKeys, Keys, FlagTypes
  <2>2. CASE EraseNewPlaintext
    BY <2>2, ShreddedType DEF EraseNewPlaintext, FlagTypes
  <2>3. CASE CommitNewDescriptor
    BY <2>3 DEF CommitNewDescriptor, Descriptors, Formats, FlagTypes
  <2>4. CASE AdoptNewSnapshot
    BY <2>4, StampMoves, NoFileType DEF AdoptNewSnapshot, FlagTypes
  <2> QED
    BY <1>5, <2>1, <2>2, <2>3, <2>4 DEF CreateStep
<1>6. CASE ChangeStep
  <2>1. CASE StageJournal
    BY <2>1, StampMoves DEF StageJournal, HasHeader, Checkpointed, FreshKeys, Keys, AbortChange,
         FlagTypes
  <2>2. CASE StageDatabase
    BY SMTT(30), <2>2, SealedType, StampMoves DEF StageDatabase, AbortChange, FlagTypes
  <2>3. CASE StageSidecar
    <3>1. FlagTypes'
      BY <2>3 DEF StageSidecar, AbortChange, TransientSwept, ToStage, FlagTypes
    <3>2. DataTypes'
      BY <2>3, SealedType, FileFields DEF StageSidecar, AbortChange, TransientSwept, ToStage
    <3> QED
      BY <3>1, <3>2
  <2>4. CASE CommitRekey
    <3>1. FlagTypes'
      BY <2>4 DEF CommitRekey, FlagTypes
    <3>2. DataTypes'
      BY <2>4 DEF CommitRekey, AbortChange, StagedRekeyFiles, Descriptors, Formats, ToStage
    <3> QED
      BY <3>1, <3>2
  <2> QED
    BY <1>6, <2>1, <2>2, <2>3, <2>4 DEF ChangeStep
<1>7. CASE Request
  <2>1. CASE Launch
    BY <2>1 DEF Launch, Readable, NoDescr, Descriptors, Formats, FlagTypes
  <2>2. CASE Unlock
    BY <2>2 DEF Unlock, FlagTypes
  <2>3. CASE WriteDatabase
    BY <2>3 DEF WriteDatabase, FlagTypes
  <2>4. CASE Create
    BY <2>4, StampMoves DEF Create, FlagTypes
  <2>5. CASE ChangePassword
    <3>1. FlagTypes'
      BY <2>5 DEF ChangePassword, FlagTypes
    <3>2. DataTypes'
      BY <2>5 DEF ChangePassword
    <3> QED
      BY <3>1, <3>2
  <2>6. CASE \E t \in {"lock", "quit"} : Lock(t)
    BY <2>6, StampMoves DEF Lock, Checkpointed, FlagTypes
  <2> QED
    BY <1>7, <2>1, <2>2, <2>3, <2>4, <2>5, <2>6 DEF Request
<1>8. CASE Environment
  <2>1. CASE Crash
    BY ZenonT(100), <2>1 DEF Crash, MemoryLost, HasHeader, NoDescr, Descriptors, Formats, FlagTypes
  <2>2. CASE ForeignOverwrite
    BY <2>2 DEF ForeignOverwrite, FlagTypes
  <2>3. CASE DamageDescriptor
    BY <2>3 DEF DamageDescriptor, FlagTypes
  <2>4. CASE RestoreDescriptor
    <3>1. FlagTypes'
      BY <2>4 DEF RestoreDescriptor, Idle, FlagTypes
    <3>2. DataTypes'
      BY <2>4 DEF RestoreDescriptor, Idle
    <3> QED
      BY <3>1, <3>2
  <2> QED
    BY <1>8, <2>1, <2>2, <2>3, <2>4 DEF Environment
<1>9. CASE DocumentStep
  BY <1>9, SealedType DEF DocumentStep, BeginDocumentWork, StartSidecarWrite,
       FinishSidecarWrite, EndDocumentWork, FlagTypes
<1>10. CASE UNCHANGED vars
  BY <1>10 DEF vars, FlagTypes
<1> QED
  BY <1>1, <1>2, <1>3, <1>4, <1>5, <1>6, <1>7, <1>8, <1>9, <1>10 DEF Next

\* Every variable keeps its type, whatever is held, crashes or fails.
THEOREM TypeCorrect == Spec => []TypeOK
BY InitType, TypeNext, PTL DEF Spec

-----------------------------------------------------------------------------
(* The snapshot.  NeverMixed is not inductive; KeysInStep of WorkspaceVault *)
(* is the invariant it rests on.                                           *)

\* A vault found on the drive opens with the key of its descriptor.
LEMMA KeysInit == Init => KeysInStep
<1> SUFFICES ASSUME Init PROVE KeysInStep
  OBVIOUS
<1>1. PICK v \in StartFormats, k \in MaybeKeys :
        /\ k \in StartKeys(v) /\ desc = [ver |-> v, key |-> k]
        /\ v # "none" => cipher[DB].key = k
  <2>1. PICK v \in StartFormats, start \in StartBodies :
          \E k \in StartKeys(v) :
            /\ desc = [ver |-> v, key |-> k]
            /\ cipher = [f \in CipherFiles |-> IF v = "none" THEN NoFile
                                               ELSE Sealed(k, IF f = DB THEN start ELSE 0)]
    BY DEF Init
  <2> QED
    BY <2>1, VaultAssumption DEF StartKeys, MaybeKeys, Keys, CipherFiles, Sealed
<1>2. v = "none" => k = NoKey
  BY <1>1 DEF StartKeys
<1>3. v # "none" => k # NoKey
  BY <1>1, VaultAssumption DEF StartKeys, PasswordKey, NoKey
<1>4. /\ pc = "down" /\ handle = "closed" /\ descr = NoDescr
      /\ ~damaged /\ ~blocked /\ staged[DB] = NoFile
  BY DEF Init, CipherFiles
<1>5. KnownDescriptor /\ SnapshotOpenable
  BY <1>1, <1>2, <1>3, <1>4 DEF KnownDescriptor, SnapshotOpenable, NoDescr
<1> QED
  BY <1>4, <1>5 DEF KeysInStep, SessionKey, NoSession, TaskInStep, CreateInStep, RekeyInStep

\* Every action keeps the keys in step.
LEMMA KeysNext ==
  ASSUME StagedName \notin Holdable, DescriptorFaults # "anyTime", TypeOK, KeysInStep, [Next]_vars
  PROVE  KeysInStep'
<1> USE DEF KeysInStep, KnownDescriptor, SnapshotOpenable, SessionKey, NoSession,
        TaskInStep, CreateInStep, RekeyInStep
<1> USE DEF descVars, rekeyVars, plainVars, stepVars, sessionVars, workVars, ghostVars
<1>a. /\ cipher \in [CipherFiles -> FileRecords] /\ staged \in [CipherFiles -> FileRecords]
      /\ desc.ver \in Formats /\ DB \in CipherFiles
  BY DEF TypeOK, CipherTypes, DescriptorTypes, Descriptors, CipherFiles
<1>b. damaged \in BOOLEAN
  BY DEF TypeOK, FlagTypes
<1> USE <1>a
<1> USE DEF Formats
<1>1. CASE InitStep
  <2>1. CASE InitWithoutDescriptor
    BY <2>1 DEF InitWithoutDescriptor
  <2>2. CASE SalvageNotNeeded
    BY <2>2 DEF SalvageNotNeeded, NoDescr
  <2>3. CASE SalvageProbeFails
    BY <2>3 DEF SalvageProbeFails, Block, NoDescr
  <2>4. CASE SalvageShredOldRecovery
    BY <2>4 DEF SalvageShredOldRecovery, NoDescr
  <2>5. CASE SalvageMove
    BY <2>5 DEF SalvageMove, Block
  <2>6. CASE SweepDatabase
    BY <2>6 DEF SweepDatabase
  <2>7. CASE SweepRest
    BY <2>7 DEF SweepRest
  <2> QED
    BY <1>1, <2>1, <2>2, <2>3, <2>4, <2>5, <2>6, <2>7 DEF InitStep
<1>2. CASE RekeyStep
  <2>1. CASE RecoverPendingRekey
    <3>1. KnownDescriptor'
      BY <2>1 DEF RecoverPendingRekey, AfterRecovery, StagedRekeyFiles, DecidingDescriptor
    <3>2. SnapshotOpenable'
      BY <2>1 DEF RecoverPendingRekey, AfterRecovery, StagedRekeyFiles, DecidingDescriptor
    <3>3. SessionKey'
      BY <2>1 DEF RecoverPendingRekey, AfterRecovery, StagedRekeyFiles, DecidingDescriptor
    <3>4. NoSession'
      BY <2>1 DEF RecoverPendingRekey, AfterRecovery, StagedRekeyFiles, DecidingDescriptor
    <3>5. TaskInStep'
      BY <2>1 DEF RecoverPendingRekey, AfterRecovery, StagedRekeyFiles, DecidingDescriptor
    <3>6. CreateInStep'
      BY <2>1 DEF RecoverPendingRekey, AfterRecovery, StagedRekeyFiles, DecidingDescriptor
    <3>7. RekeyInStep'
      BY <2>1 DEF RecoverPendingRekey, AfterRecovery, StagedRekeyFiles, DecidingDescriptor
    <3> QED
      BY <3>1, <3>2, <3>3, <3>4, <3>5, <3>6, <3>7
  <2>2. CASE SwapShredTarget
    BY <2>2 DEF SwapShredTarget, NoFile
  <2>3. CASE SwapRename
    <3>1. KnownDescriptor'
      BY <2>3 DEF SwapRename, NoFile
    <3>2. SnapshotOpenable'
      BY <2>3 DEF SwapRename, NoFile
    <3>3. SessionKey'
      BY <2>3 DEF SwapRename, NoFile
    <3>4. NoSession'
      BY <2>3 DEF SwapRename, NoFile
    <3>5. TaskInStep'
      BY <2>3 DEF SwapRename, NoFile
    <3>6. CreateInStep'
      BY <2>3 DEF SwapRename, NoFile
    <3>7. RekeyInStep'
      BY <2>3 DEF SwapRename, NoFile
    <3> QED
      BY <3>1, <3>2, <3>3, <3>4, <3>5, <3>6, <3>7
  <2>4. CASE SwapDone
    BY <2>4, FilesAssumption DEF SwapDone, AfterRecovery, RecoveryFails, StagedRekeyFiles
  <2>5. CASE DiscardOne
    BY <2>5 DEF DiscardOne, RecoveryFails
  <2>6. CASE DiscardDone
    BY <2>6 DEF DiscardDone, AfterRecovery, StagedRekeyFiles
  <2> QED
    BY <1>2, <2>1, <2>2, <2>3, <2>4, <2>5, <2>6 DEF RekeyStep
<1>3. CASE UnlockStep
  <2>1. CASE ReadDescriptor
    BY <2>1 DEF ReadDescriptor, Readable
  <2>2. CASE VerifyPassword
    BY <2>2 DEF VerifyPassword
  <2>3. CASE RecoveryProbeFails
    BY <2>3 DEF RecoveryProbeFails, UnlockFails
  <2>4. CASE RollForward
    BY <2>4 DEF RollForward, UnlockFails, Sealed
  <2>5. CASE SpendRecovery
    BY <2>5 DEF SpendRecovery
  <2>6. CASE DecryptSnapshot
    BY <2>6 DEF DecryptSnapshot, UnlockFails
  <2>7. CASE PlaceWorkingFile
    BY <2>7 DEF PlaceWorkingFile, UnlockFails
  <2>8. CASE OpenWorkingFile
    BY <2>8 DEF OpenWorkingFile
  <2>9. CASE OpenRefused
    BY <2>9 DEF OpenRefused, UnlockFails
  <2> QED
    BY <1>3, <2>1, <2>2, <2>3, <2>4, <2>5, <2>6, <2>7, <2>8, <2>9 DEF UnlockStep
<1>4. CASE LockStep
  <2>1. CASE SealSnapshot
    BY <2>1 DEF SealSnapshot, Sealed
  <2>2. CASE EraseWorkingFile
    BY <2>2 DEF EraseWorkingFile
  <2>3. CASE Reopen
    BY <2>3 DEF Reopen
  <2>4. CASE CloseForExit
    BY <2>4 DEF CloseForExit
  <2>5. CASE Exit
    BY <2>5 DEF Exit, MemoryLost, Idle, Locked
  <2> QED
    BY <1>4, <2>1, <2>2, <2>3, <2>4, <2>5 DEF LockStep
<1>5. CASE CreateStep
  <2>1. CASE SealNewVault
    BY <2>1, VaultAssumption DEF SealNewVault, FreshKeys, Sealed
  <2>2. CASE EraseNewPlaintext
    BY <2>2 DEF EraseNewPlaintext
  <2>3. CASE CommitNewDescriptor
    BY <2>3, VaultAssumption DEF CommitNewDescriptor
  <2>4. CASE AdoptNewSnapshot
    BY <2>4 DEF AdoptNewSnapshot, NoFile
  <2> QED
    BY <1>5, <2>1, <2>2, <2>3, <2>4 DEF CreateStep
<1>6. CASE ChangeStep
  <2>1. CASE StageJournal
    BY <2>1, VaultAssumption DEF StageJournal, FreshKeys, AbortChange
  <2>2. CASE StageDatabase
    <3>1. KnownDescriptor'
      BY <2>2 DEF StageDatabase, AbortChange, Sealed, NoDescr
    <3>2. SnapshotOpenable'
      BY <2>2 DEF StageDatabase, AbortChange, Sealed, NoDescr
    <3>3. SessionKey'
      BY <2>2 DEF StageDatabase, AbortChange, Sealed, NoDescr
    <3>4. NoSession'
      BY <2>2 DEF StageDatabase, AbortChange, Sealed, NoDescr
    <3>5. TaskInStep'
      BY <2>2 DEF StageDatabase, AbortChange, Sealed, NoDescr
    <3>6. CreateInStep'
      BY <2>2 DEF StageDatabase, AbortChange, Sealed, NoDescr
    <3>7. RekeyInStep'
      BY <2>2 DEF StageDatabase, AbortChange, Sealed, NoDescr
    <3> QED
      BY <3>1, <3>2, <3>3, <3>4, <3>5, <3>6, <3>7
  <2>3. CASE StageSidecar
    BY <2>3 DEF StageSidecar, AbortChange, Sealed, ToStage
  <2>4. CASE CommitRekey
    <3>1. KnownDescriptor'
      BY <2>4, VaultAssumption DEF CommitRekey, AbortChange, NoDescr
    <3>2. SnapshotOpenable'
      BY <2>4, VaultAssumption DEF CommitRekey, AbortChange, NoDescr
    <3>3. SessionKey'
      BY <2>4, VaultAssumption DEF CommitRekey, AbortChange, NoDescr
    <3>4. NoSession'
      BY <2>4, VaultAssumption DEF CommitRekey, AbortChange, NoDescr
    <3>5. TaskInStep'
      BY <2>4, VaultAssumption DEF CommitRekey, AbortChange, NoDescr
    <3>6. CreateInStep'
      BY <2>4, VaultAssumption DEF CommitRekey, AbortChange, NoDescr
    <3>7. RekeyInStep'
      BY <2>4, VaultAssumption DEF CommitRekey, AbortChange, NoDescr
    <3> QED
      BY <3>1, <3>2, <3>3, <3>4, <3>5, <3>6, <3>7
  <2> QED
    BY <1>6, <2>1, <2>2, <2>3, <2>4 DEF ChangeStep
<1>7. CASE Request
  <2>1. CASE Launch
    <3>1. KnownDescriptor'
      <4>1. (descr' = desc' \/ damaged') /\ descr' \in {desc', NoDescr}
        BY <2>1, <1>b DEF Launch, Readable, NoDescr
      <4>2. pc' = "init" /\ task' = "launch" /\ ~blocked'
        BY <2>1 DEF Launch, NoDescr
      <4> QED
        BY <2>1, <4>1, <4>2 DEF Launch, NoDescr
    <3>2. SnapshotOpenable'
      BY <2>1 DEF Launch, Readable, NoDescr
    <3>3. SessionKey'
      BY <2>1 DEF Launch, Readable, NoDescr
    <3>4. NoSession'
      BY <2>1 DEF Launch, Readable, NoDescr
    <3>5. TaskInStep'
      BY <2>1 DEF Launch, Readable, NoDescr
    <3>6. CreateInStep'
      BY <2>1 DEF Launch, Readable, NoDescr
    <3>7. RekeyInStep'
      BY <2>1 DEF Launch, Readable, NoDescr
    <3> QED
      BY <3>1, <3>2, <3>3, <3>4, <3>5, <3>6, <3>7
  <2>2. CASE Unlock
    <3>1. KnownDescriptor'
      BY <2>2 DEF Unlock, Idle, Locked
    <3>2. SnapshotOpenable'
      BY <2>2 DEF Unlock, Idle, Locked
    <3>3. SessionKey'
      BY <2>2 DEF Unlock, Idle, Locked
    <3>4. NoSession'
      BY <2>2 DEF Unlock, Idle, Locked
    <3>5. TaskInStep'
      BY <2>2 DEF Unlock, Idle, Locked
    <3>6. CreateInStep'
      BY <2>2 DEF Unlock, Idle, Locked
    <3>7. RekeyInStep'
      BY <2>2 DEF Unlock, Idle, Locked
    <3> QED
      BY <3>1, <3>2, <3>3, <3>4, <3>5, <3>6, <3>7
  <2>3. CASE WriteDatabase
    BY <2>3 DEF WriteDatabase, Idle
  <2>4. CASE Create
    BY <2>4 DEF Create, Idle, Locked, VaultExistsOnDisk, NoFile
  <2>5. CASE ChangePassword
    <3>1. KnownDescriptor'
      BY <2>5, <1>b DEF ChangePassword, Idle
    <3>2. SnapshotOpenable'
      BY <2>5, <1>b DEF ChangePassword, Idle, NoDescr
    <3>3. SessionKey' /\ NoSession'
      BY <2>5 DEF ChangePassword, Idle
    <3>4. TaskInStep' /\ CreateInStep' /\ RekeyInStep'
      BY <2>5 DEF ChangePassword, Idle
    <3> QED
      BY <3>1, <3>2, <3>3, <3>4
  <2>6. CASE \E t \in {"lock", "quit"} : Lock(t)
    BY <2>6 DEF Lock, Idle, Locked
  <2> QED
    BY <1>7, <2>1, <2>2, <2>3, <2>4, <2>5, <2>6 DEF Request
<1>8. CASE Environment
  <2>1. CASE Crash
    BY <2>1 DEF Crash, MemoryLost
  <2>2. CASE ForeignOverwrite
    BY <2>2 DEF ForeignOverwrite, Idle
  <2>3. CASE DamageDescriptor
    BY <2>3 DEF DamageDescriptor
  <2>4. CASE RestoreDescriptor
    BY <2>4 DEF RestoreDescriptor
  <2> QED
    BY <1>8, <2>1, <2>2, <2>3, <2>4 DEF Environment
<1>9. CASE DocumentStep
  BY <1>9, FilesAssumption DEF DocumentStep, BeginDocumentWork, StartSidecarWrite,
       FinishSidecarWrite, EndDocumentWork
<1>10. CASE UNCHANGED vars
  BY <1>10 DEF vars
<1> QED
  BY <1>1, <1>2, <1>3, <1>4, <1>5, <1>6, <1>7, <1>8, <1>9, <1>10 DEF Next

\* While nothing holds <db>.enc.new and no damaged descriptor is put back under
\* the running program, every step that writes or deletes a snapshot has the key
\* it assumes.
THEOREM KeysAlwaysInStep ==
  ASSUME StagedName \notin Holdable, DescriptorFaults # "anyTime"
  PROVE  Spec => []KeysInStep
<1>1. TypeOK /\ KeysInStep /\ [Next]_vars => KeysInStep'
  BY KeysNext
<1> QED
  BY <1>1, KeysInit, TypeCorrect, PTL DEF Spec

\* The committed descriptor can always open the snapshot: a password change
\* interrupted anywhere, by a crash, a full disk or a held file, is old or new.
THEOREM OldOrNew ==
  ASSUME StagedName \notin Holdable, DescriptorFaults # "anyTime"
  PROVE  Spec => []NeverMixed
<1>1. TypeOK /\ KeysInStep => NeverMixed
  BY DEF TypeOK, DescriptorTypes, Descriptors, Formats, KeysInStep, SnapshotOpenable, NeverMixed
<1> QED
  BY <1>1, KeysAlwaysInStep, TypeCorrect, PTL

-----------------------------------------------------------------------------
(* The document sidecars.                                                  *)

\* A sidecar, or the staged file that recovery will move over it, is under the
\* committed key; before the commit of a migration the old file is.
SidecarKeys ==
  \A d \in Docs :
    /\ desc.ver = "none" => cipher[d] = NoFile /\ staged[d] = NoFile
    /\ desc.ver = "v1" => (cipher[d] = NoFile /\ staged[d] = NoFile) \/ cipher[d].key = desc.key
    /\ desc.ver = "v2" => \/ staged[d] = NoFile /\ (cipher[d] = NoFile \/ cipher[d].key = desc.key)
                          \/ staged[d].key = desc.key

\* Recovery finds a staged file outside the store by the journal only.
JournalListsLegacy == \A d \in OutOfStore : staged[d] # NoFile => d \in journal

\* A write in flight is under the committed key, and none is while the key changes.
WorkUnderKey ==
  /\ \A d \in Docs : writing[d] # NoKey => d \in lease /\ writing[d] = desc.key
  /\ key \in {desc.key, NoKey}
  /\ lease # {} => desc.ver # "none"
  /\ pc \in {"stage", "stageDb", "stageDocs"} => lease = {}
  /\ pc \in {"recover", "swap", "swapIn", "discard"} /\ task \in {"change", "abort"} => lease = {}

\* A migration starts with nothing staged, lists every sidecar, and commits only
\* when each has its staged copy.
StagedDocs ==
  \A d \in Docs :
    /\ pc \in {"stage", "stageDb"} => staged[d] = NoFile
    /\ pc = "stageDocs" => staged[d] = NoFile \/ staged[d].key = newKey
    /\ pc \in {"stageDb", "stageDocs"} => (cipher[d] # NoFile => d \in journal)
    /\ pc \in {"swap", "swapIn"} /\ d \in todo => staged[d].key = desc.key
    /\ pc = "swapIn" /\ cur = d => staged[d].key = desc.key

SidecarsInStep == SidecarKeys /\ JournalListsLegacy /\ WorkUnderKey /\ StagedDocs

\* The sidecars found on the drive are under the key of their vault.
LEMMA SidecarInit == Init => SidecarsInStep
<1> SUFFICES ASSUME Init PROVE SidecarsInStep
  OBVIOUS
<1>1. PICK v \in StartFormats, start \in StartBodies, k \in MaybeKeys :
        /\ k \in StartKeys(v) /\ desc = [ver |-> v, key |-> k]
        /\ cipher = [f \in CipherFiles |-> IF v = "none" THEN NoFile
                                           ELSE Sealed(k, IF f = DB THEN start ELSE 0)]
  <2>1. PICK v \in StartFormats, start \in StartBodies :
          \E k \in StartKeys(v) :
            /\ desc = [ver |-> v, key |-> k]
            /\ cipher = [f \in CipherFiles |-> IF v = "none" THEN NoFile
                                               ELSE Sealed(k, IF f = DB THEN start ELSE 0)]
    BY DEF Init
  <2> QED
    BY <2>1, VaultAssumption DEF StartKeys, MaybeKeys, Keys
<1>2. \A d \in Docs : staged[d] = NoFile /\ writing[d] = NoKey
  <2>1. staged = [f \in CipherFiles |-> NoFile] /\ writing = [d \in Docs |-> NoKey]
    BY DEF Init
  <2>2. Docs \subseteq CipherFiles
    BY DEF CipherFiles
  <2> QED
    BY Zenon, <2>1, <2>2
<1>3. SidecarKeys
  <2>1. \A d \in Docs : cipher[d] = IF v = "none" THEN NoFile ELSE Sealed(k, 0)
    BY <1>1, FilesAssumption DEF CipherFiles
  <2>2. desc.ver = v /\ desc.key = k
    BY <1>1
  <2>3. SUFFICES ASSUME NEW d \in Docs
                 PROVE  /\ v = "none" => cipher[d] = NoFile /\ staged[d] = NoFile
                        /\ v = "v1" => cipher[d].key = k
                        /\ v = "v2" => staged[d] = NoFile /\ cipher[d].key = k
    BY Zenon, <2>2 DEF SidecarKeys
  <2>4. v # "none" => cipher[d].key = k
    BY <2>1 DEF Sealed
  <2> QED
    BY <1>2, <2>1, <2>4
<1>4. JournalListsLegacy
  BY <1>2, FilesAssumption DEF JournalListsLegacy
<1>5. WorkUnderKey /\ StagedDocs
  BY <1>2 DEF Init, WorkUnderKey, StagedDocs
<1> QED
  BY <1>3, <1>4, <1>5 DEF SidecarsInStep

\* Every action keeps the sidecars in step with the committed key.
LEMMA SidecarNext ==
  ASSUME StagedName \notin Holdable, DescriptorFaults # "anyTime", TypeOK, KeysInStep,
         SidecarsInStep, [Next]_vars
  PROVE  SidecarsInStep'
<1> USE DEF SidecarsInStep, SidecarKeys, JournalListsLegacy, WorkUnderKey, StagedDocs, Formats,
            NoFile
<1> USE DEF KeysInStep, KnownDescriptor, SessionKey, NoSession, TaskInStep, CreateInStep,
            RekeyInStep
<1> USE DEF descVars, rekeyVars, plainVars, stepVars, sessionVars, workVars, ghostVars
<1>a. /\ cipher \in [CipherFiles -> FileRecords] /\ staged \in [CipherFiles -> FileRecords]
      /\ desc.ver \in Formats /\ DB \in CipherFiles /\ Docs \subseteq CipherFiles /\ DB \notin Docs
      /\ OutOfStore \subseteq Docs /\ writing \in [Docs -> MaybeKeys] /\ lease \in SUBSET Docs
      /\ handle \in {"closed", "open", "dead"}
  BY FilesAssumption DEF TypeOK, CipherTypes, DescriptorTypes, Descriptors, CipherFiles, WorkTypes, SessionTypes
<1> USE <1>a
<1>1. CASE InitStep
  <2>1. CASE InitWithoutDescriptor
    BY <2>1 DEF InitWithoutDescriptor
  <2>2. CASE SalvageNotNeeded
    BY <2>2 DEF SalvageNotNeeded
  <2>3. CASE SalvageProbeFails
    BY <2>3 DEF SalvageProbeFails, Block
  <2>4. CASE SalvageShredOldRecovery
    BY <2>4 DEF SalvageShredOldRecovery, Shredded
  <2>5. CASE SalvageMove
    BY <2>5 DEF SalvageMove, Block
  <2>6. CASE SweepDatabase
    BY <2>6 DEF SweepDatabase, Shredded
  <2>7. CASE SweepRest
    BY <2>7 DEF SweepRest, Shredded, TransientSwept
  <2> QED
    BY <1>1, <2>1, <2>2, <2>3, <2>4, <2>5, <2>6, <2>7 DEF InitStep
<1>2. CASE RekeyStep
  <2>1. CASE RecoverPendingRekey
    BY <2>1 DEF RecoverPendingRekey, AfterRecovery, StagedRekeyFiles, DecidingDescriptor
  <2>2. CASE SwapShredTarget
    BY <2>2 DEF SwapShredTarget, ShreddedCipher
  <2>3. CASE SwapRename
    BY <2>3 DEF SwapRename
  <2>4. CASE SwapDone
    BY <2>4 DEF SwapDone, AfterRecovery, RecoveryFails, StagedRekeyFiles
  <2>5. CASE DiscardOne
    BY <2>5 DEF DiscardOne, RecoveryFails, StagedRekeyFiles
  <2>6. CASE DiscardDone
    BY <2>6 DEF DiscardDone, AfterRecovery, StagedRekeyFiles
  <2> QED
    BY <1>2, <2>1, <2>2, <2>3, <2>4, <2>5, <2>6 DEF RekeyStep
<1>3. CASE UnlockStep
  <2>1. CASE ReadDescriptor
    BY <2>1 DEF ReadDescriptor
  <2>2. CASE VerifyPassword
    BY <2>2 DEF VerifyPassword
  <2>3. CASE RecoveryProbeFails
    BY <2>3 DEF RecoveryProbeFails, UnlockFails
  <2>4. CASE RollForward
    BY <2>4 DEF RollForward, UnlockFails, Sealed
  <2>5. CASE SpendRecovery
    BY <2>5 DEF SpendRecovery, Shredded
  <2>6. CASE DecryptSnapshot
    BY <2>6 DEF DecryptSnapshot, UnlockFails, Shredded
  <2>7. CASE PlaceWorkingFile
    BY <2>7 DEF PlaceWorkingFile, UnlockFails, TransientSwept
  <2>8. CASE OpenWorkingFile
    BY <2>8 DEF OpenWorkingFile
  <2>9. CASE OpenRefused
    BY <2>9 DEF OpenRefused, UnlockFails, Shredded
  <2> QED
    BY <1>3, <2>1, <2>2, <2>3, <2>4, <2>5, <2>6, <2>7, <2>8, <2>9 DEF UnlockStep
<1>4. CASE LockStep
  <2>1. CASE SealSnapshot
    BY <2>1 DEF SealSnapshot, Sealed
  <2>2. CASE EraseWorkingFile
    BY <2>2 DEF EraseWorkingFile, Shredded
  <2>3. CASE Reopen
    BY <2>3 DEF Reopen
  <2>4. CASE CloseForExit
    BY <2>4 DEF CloseForExit
  <2>5. CASE Exit
    BY <2>5 DEF Exit, MemoryLost, Idle, Locked, NoDescr
  <2> QED
    BY <1>4, <2>1, <2>2, <2>3, <2>4, <2>5 DEF LockStep
<1>5. CASE CreateStep
  <2>1. CASE SealNewVault
    BY <2>1 DEF SealNewVault, FreshKeys, Sealed
  <2>2. CASE EraseNewPlaintext
    BY <2>2 DEF EraseNewPlaintext, Shredded
  <2>3. CASE CommitNewDescriptor
    BY <2>3 DEF CommitNewDescriptor, NoDescr
  <2>4. CASE AdoptNewSnapshot
    BY <2>4 DEF AdoptNewSnapshot
  <2> QED
    BY <1>5, <2>1, <2>2, <2>3, <2>4 DEF CreateStep
<1>6. CASE ChangeStep
  <2>1. CASE StageJournal
    BY <2>1 DEF StageJournal, FreshKeys, Checkpointed, AbortChange
  <2>2. CASE StageDatabase
    BY <2>2 DEF StageDatabase, AbortChange, Sealed
  <2>3. CASE StageSidecar
    BY <2>3 DEF StageSidecar, AbortChange, Sealed, ToStage, TransientSwept
  <2>4. CASE CommitRekey
    BY <2>4 DEF CommitRekey, AbortChange, StagedRekeyFiles, ToStage
  <2> QED
    BY <1>6, <2>1, <2>2, <2>3, <2>4 DEF ChangeStep
<1>7. CASE Request
  <2>1. CASE Launch
    BY <2>1 DEF Launch, NoDescr
  <2>2. CASE Unlock
    BY <2>2 DEF Unlock, Idle, Locked
  <2>3. CASE WriteDatabase
    BY <2>3 DEF WriteDatabase, Idle
  <2>4. CASE Create
    BY <2>4 DEF Create, Idle, Locked, VaultExistsOnDisk
  <2>5. CASE ChangePassword
    BY <2>5 DEF ChangePassword, Idle, DocumentsBusy
  <2>6. CASE \E t \in {"lock", "quit"} : Lock(t)
    BY <2>6 DEF Lock, Checkpointed, Idle, Locked
  <2> QED
    BY <1>7, <2>1, <2>2, <2>3, <2>4, <2>5, <2>6 DEF Request
<1>8. CASE Environment
  <2>1. CASE Crash
    BY <2>1 DEF Crash, MemoryLost, NoDescr
  <2>2. CASE ForeignOverwrite
    BY <2>2 DEF ForeignOverwrite, Idle
  <2>3. CASE DamageDescriptor
    BY <2>3 DEF DamageDescriptor
  <2>4. CASE RestoreDescriptor
    BY <2>4 DEF RestoreDescriptor, Idle
  <2> QED
    BY <1>8, <2>1, <2>2, <2>3, <2>4 DEF Environment
<1>9. CASE DocumentStep
  <2>1. PICK d \in Docs : \/ BeginDocumentWork(d) \/ StartSidecarWrite(d)
                            \/ FinishSidecarWrite(d) \/ EndDocumentWork(d)
    BY <1>9 DEF DocumentStep
  <2>2. CASE BeginDocumentWork(d)
    BY <2>2 DEF BeginDocumentWork, Idle
  <2>3. CASE StartSidecarWrite(d)
    BY <2>3 DEF StartSidecarWrite, Idle
  <2>4. CASE FinishSidecarWrite(d)
    BY <2>4 DEF FinishSidecarWrite, Idle, Sealed
  <2>5. CASE EndDocumentWork(d)
    BY <2>5 DEF EndDocumentWork, Idle
  <2> QED
    BY <2>1, <2>2, <2>3, <2>4, <2>5
<1>10. CASE UNCHANGED vars
  BY <1>10 DEF vars
<1> QED
  BY <1>1, <1>2, <1>3, <1>4, <1>5, <1>6, <1>7, <1>8, <1>9, <1>10 DEF Next

\* No import, interrupted password change or lost journal entry leaves a document
\* sidecar that only a retired key could open.
THEOREM SidecarsAlwaysOpenable ==
  ASSUME StagedName \notin Holdable, DescriptorFaults # "anyTime"
  PROVE  Spec => []SidecarsOpenable
<1>1. TypeOK /\ KeysInStep /\ SidecarsInStep /\ [Next]_vars => SidecarsInStep'
  BY SidecarNext
<1>2. ASSUME TypeOK, KeysInStep, SidecarsInStep PROVE SidecarsOpenable
  <2> SUFFICES ASSUME NEW d \in Docs, desc.ver # "none", cipher[d] # NoFile \/ staged[d] # NoFile,
                      cipher[d].key # desc.key
               PROVE  desc.ver = "v2" /\ d \in StagedRekeyFiles /\ staged[d].key = desc.key
    BY DEF SidecarsOpenable
  <2>1. desc.ver \in {"v1", "v2"}
    BY <1>2 DEF TypeOK, DescriptorTypes, Descriptors, Formats
  <2>2. desc.ver = "v2" /\ staged[d] # NoFile /\ staged[d].key = desc.key
    BY <1>2, <2>1 DEF SidecarsInStep, SidecarKeys, KeysInStep, KnownDescriptor, NoFile
  <2> QED
    BY <1>2, <2>2 DEF SidecarsInStep, JournalListsLegacy, StagedRekeyFiles, CipherFiles
<1> QED
  BY <1>1, <1>2, SidecarInit, KeysAlwaysInStep, TypeCorrect, PTL DEF Spec
=============================================================================
