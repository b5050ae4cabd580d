--------------------------- MODULE WorkspaceVault ---------------------------
(***************************************************************************)
(* One encrypted HilbertRaum workspace: the files of the vault, and the    *)
(* WorkspaceController (services/workspace-vault.ts) that opens, locks,    *)
(* creates and re-keys them.                                               *)
(*                                                                         *)
(* The controller runs on Electron's main thread, so its operations never  *)
(* overlap.  Each is cut into one step per file-system effect, because the *)
(* process may be killed between any two of them: pc is the next effect,   *)
(* "idle" between operations, "down" while no process runs, and "failed"   *)
(* when init() threw and the application came up without a back end.       *)
(***************************************************************************)
EXTENDS VaultFiles

CONSTANTS
  DataKeys,        \* the random data keys the envelope format can draw
  StartFormats,    \* vaults found on the drive: subset of {"none","v1","v2"}
  StartBodies,     \* what their snapshot holds: 0, or the noise a build without
                   \* the lock-time check could seal
  DiskMayFill,     \* a file write may fail for want of space
  ForeignSweep,    \* a second, older instance may overwrite the open database
  DescriptorFaults,\* when a damaged config/workspace.json is put back: "atRest",
                   \* "anyTime"; "never" damaged otherwise
  MaxGeneration    \* bound on the number of writes to the database

PasswordKey == "pwKey"        \* v1: the password-derived key encrypts the files
Keys == DataKeys \cup {PasswordKey}
Formats == {"none", "v1", "v2"}

ASSUME VaultAssumption ==
  /\ NoKey \notin DataKeys
  /\ PasswordKey \notin DataKeys
  /\ DataKeys # {}
  /\ StartFormats \subseteq Formats
  /\ StartBodies \subseteq {0, Noise}
  /\ {DiskMayFill, ForeignSweep} \subseteq BOOLEAN
  /\ DescriptorFaults \in {"never", "atRest", "anyTime"}
  /\ MaxGeneration \in Nat

VARIABLES
  \* the drive
  desc,        \* last committed descriptor: its format and the key it yields
  damaged,     \* the descriptor file is there but cannot be parsed
  cipher,      \* <file>.enc, for the database and each sidecar
  staged,      \* <file>.enc.new
  journal,     \* files rekey-journal.json lists; {} when there is no journal
  db, wal,     \* the decrypted working database and its write-ahead log
  recovery,    \* <db>.recovery
  transient,   \* some decrypted *.tmp / *.parse copy is on the drive
  older,       \* mtime order of db and recovery against the snapshots
  \* the process
  pc, task,    \* next effect, and the operation it belongs to
  todo, cur,   \* applyPendingRekey: files left in the pass, file in the swap
  descr,       \* WorkspaceController.descriptor
  key,         \* WorkspaceController.key
  newKey,      \* the data key a migration is staging under
  handle,      \* _db: "closed" (null), "open", or "dead" (set but closed)
  live,        \* generation the open connection reads
  blocked,     \* _recoveryBlocked
  lease,       \* documents with an open beginDocumentWork hold
  writing,     \* key captured by the sidecar encryption in flight
  \* history
  top,         \* last generation written
  durable      \* generation the last completed lock (or clean quit) promised

descVars    == <<desc, damaged>>
rekeyVars   == <<staged, journal>>
plainVars   == <<db, wal, recovery, transient>>
stepVars    == <<todo, cur>>
sessionVars == <<descr, key, handle, live>>
workVars    == <<lease, writing>>
ghostVars   == <<top, durable>>
vars == <<desc, damaged, cipher, staged, journal, db, wal, recovery, transient, older,
          pc, task, todo, cur, descr, key, newKey, handle, live, blocked, lease, writing,
          top, durable>>

NoDescr == [ver |-> "none", key |-> NoKey]
Frames == 0     \* content of a write-ahead log that SQLite would replay

Readable == desc.ver # "none" /\ ~damaged

\* vaultExistsOnDisk: the in-memory descriptor, the snapshot, or a damaged file.
OnlyDescriptorCounts == descr.ver # "none"      \* variant: forgets the files
VaultExistsOnDisk == descr.ver # "none" \/ cipher[DB] # NoFile \/ damaged

\* stagedRekeyFiles: a directory scan for the in-store files, the journal for the rest.
StagedRekeyFiles == {f \in CipherFiles : staged[f] # NoFile /\ (f \in OutOfStore => f \in journal)}

\* generateDataKey: a key nothing on the drive uses.
FreshKeys == {k \in DataKeys : \A f \in CipherFiles : k \notin {desc.key, cipher[f].key, staged[f].key}}

Idle == pc = "idle"
Locked == handle = "closed"

\* Ends the running operation; what an operation held in local variables is gone.
Return == /\ pc' = "idle" /\ task' = "none"
Goto(p) == /\ pc' = p /\ UNCHANGED task

\* The key the files of a vault found on the drive are under.
StartKeys(v) == IF v = "none" THEN {NoKey} ELSE IF v = "v1" THEN {PasswordKey} ELSE DataKeys

Init ==
  \E v \in StartFormats, start \in StartBodies : \E k \in StartKeys(v) :
       /\ desc = [ver |-> v, key |-> k]
       /\ cipher = [f \in CipherFiles |-> IF v = "none" THEN NoFile
                                          ELSE Sealed(k, IF f = DB THEN start ELSE 0)]
       /\ damaged = FALSE
       /\ staged = [f \in CipherFiles |-> NoFile]
       /\ journal = {}
       /\ db = Absent /\ wal = Absent /\ recovery = Absent /\ transient = FALSE
       /\ older = [p \in PlainNames |-> {}]
       /\ pc = "down" /\ task = "none" /\ todo = {} /\ cur = DB
       /\ descr = NoDescr /\ key = NoKey /\ newKey = NoKey
       /\ handle = "closed" /\ live = Absent /\ blocked = FALSE
       /\ lease = {} /\ writing = [d \in Docs |-> NoKey]
       /\ top = 0 /\ durable = cipher[DB].body

-----------------------------------------------------------------------------
(* Launch: the constructor, then init().                                   *)

Launch ==
  /\ pc = "down"
  /\ descr' = IF Readable THEN desc ELSE NoDescr
  /\ pc' = "init" /\ task' = "launch"
  /\ UNCHANGED <<descVars, cipher, rekeyVars, plainVars, older, stepVars, key, newKey, handle,
                 live, blocked, workVars, ghostVars>>

\* No usable descriptor: stay locked, or wait for onboarding.
InitWithoutDescriptor ==
  /\ pc = "init" /\ descr.ver = "none"
  /\ Return
  /\ UNCHANGED <<descVars, cipher, rekeyVars, plainVars, older, stepVars, sessionVars, newKey,
                 blocked, workVars, ghostVars>>

\* preserveNewerPlaintext, its cheap checks first: is this a closed database
\* that a failed lock left as the only fresh copy?
NewerAlone == db # Absent /\ cipher[DB] # NoFile /\ DB \in older["db"]
              \* variant: does not look for a write-ahead log
MaybeFresh == /\ db # Absent /\ cipher[DB] # NoFile /\ wal = Absent
              /\ DB \in older["db"]

SalvageNotNeeded ==
  /\ pc = "init" /\ descr.ver # "none"
  /\ ~MaybeFresh \/ ~HasHeader(db)
  /\ blocked' = FALSE
  /\ Goto("sweep")
  /\ UNCHANGED <<descVars, cipher, rekeyVars, plainVars, older, stepVars, sessionVars, newKey,
                 workVars, ghostVars>>

\* A blocked salvage leaves everything as it is.  From init() the workspace
\* stays locked; from unlock() the call is refused.
SweepAnyway ==   \* variant: a failed salvage falls through to the sweep
  /\ blocked' = FALSE
  /\ Goto("sweep")
  /\ UNCHANGED <<db, wal, recovery, older>>

Block ==
  /\ blocked' = TRUE
  /\ Return
  /\ UNCHANGED <<db, wal, recovery, older>>

\* The header cannot be read: another program holds the file, or the drive fails.
SalvageProbeFails ==
  /\ pc = "init" /\ descr.ver # "none" /\ MaybeFresh
  /\ Block
  /\ UNCHANGED <<descVars, cipher, rekeyVars, transient, stepVars, sessionVars, newKey,
                 workVars, ghostVars>>

SalvageShredOldRecovery ==
  /\ pc = "init" /\ descr.ver # "none" /\ MaybeFresh /\ HasHeader(db)
  /\ recovery' \in Shredded("recovery", recovery)
  /\ Goto("salvage")
  /\ UNCHANGED <<descVars, cipher, rekeyVars, db, wal, transient, older, stepVars, sessionVars,
                 newKey, blocked, workVars, ghostVars>>

SalvageMove ==
  /\ pc = "salvage"
  /\ \/ /\ recovery' = db /\ db' = Absent /\ older' = PlainMoved(older, "db", "recovery")
        /\ blocked' = FALSE
        /\ Goto("sweep")
        /\ UNCHANGED wal
     \/ /\ "db" \in Holdable \/ (recovery # Absent /\ "recovery" \in Holdable)
        /\ Block
  /\ UNCHANGED <<descVars, cipher, rekeyVars, transient, stepVars, sessionVars, newKey,
                 workVars, ghostVars>>

\* shredStalePlaintext: the working database first, then its logs and temps.
SweepDatabase ==
  /\ pc = "sweep"
  /\ db' \in Shredded("db", db)
  /\ Goto("sweepRest")
  /\ UNCHANGED <<descVars, cipher, rekeyVars, wal, recovery, transient, older, stepVars,
                 sessionVars, newKey, blocked, workVars, ghostVars>>

TransientKept(t) == {t}     \* variant: the sweep knows the database files only
TransientSwept(t) == IF t /\ "transient" \in Holdable THEN BOOLEAN ELSE {FALSE}

SweepRest ==
  /\ pc = "sweepRest"
  /\ wal' \in Shredded("wal", wal)
  /\ transient' \in TransientSwept(transient)
  /\ Goto("recover")
  /\ UNCHANGED <<descVars, cipher, rekeyVars, db, recovery, older, stepVars, sessionVars, newKey,
                 blocked, workVars, ghostVars>>

-----------------------------------------------------------------------------
(* recoverPendingRekey, applyPendingRekey and discardPendingRekey.  They   *)
(* run from init(), from unlock() and from changePassword(); task says     *)
(* which, and so where the step sequence resumes.                          *)

AfterRecovery ==
  \/ task = "launch" /\ Return
  \/ task = "retry" /\ pc' = "read" /\ task' = "unlock"
  \/ task \in {"unlock", "create"} /\ Goto("verify")

\* init() throws: at launch the back end never comes up.
RecoveryFails ==
  IF task = "launch" THEN pc' = "failed" /\ task' = "none" ELSE Return

\* init() decides by the descriptor read at launch, unlock() re-reads it.
AlwaysRollBack == NoDescr   \* variant: recovery that ignores the commit point
DecidingDescriptor == IF task \in {"launch", "retry"} THEN descr ELSE desc

RecoverPendingRekey ==
  /\ pc = "recover"
  /\ \/ /\ StagedRekeyFiles = {} /\ journal = {}
        /\ AfterRecovery
        /\ UNCHANGED todo
     \/ /\ StagedRekeyFiles # {} \/ journal # {}
        /\ IF DecidingDescriptor.ver = "v2"
           THEN Goto("swap") /\ todo' = StagedRekeyFiles
           ELSE Goto("discard") /\ UNCHANGED todo
  /\ UNCHANGED <<descVars, cipher, rekeyVars, plainVars, older, cur, sessionVars, newKey, blocked,
                 workVars, ghostVars>>

\* swapOne, first half: shred the ciphertext the staged file replaces.
SwapShredTarget ==
  /\ pc = "swap"
  /\ \E f \in todo :
       /\ cur' = f /\ todo' = todo \ {f}
       /\ \E left \in ShreddedCipher(f, cipher[f]) : cipher' = [cipher EXCEPT ![f] = left]
  /\ Goto("swapIn")
  /\ UNCHANGED <<descVars, rekeyVars, plainVars, older, sessionVars, newKey, blocked, workVars,
                 ghostVars>>

\* swapOne, second half.  A held target fails both attempts and stays staged.
SwapRename ==
  /\ pc = "swapIn"
  /\ \/ /\ cipher' = [cipher EXCEPT ![cur] = staged[cur]]
        /\ staged' = [staged EXCEPT ![cur] = NoFile]
        /\ older' = IF cur = DB THEN StagedMovedIn(older) ELSE older
     \/ /\ cur \in Holdable \/ (cur = DB /\ StagedName \in Holdable)
        /\ UNCHANGED <<cipher, staged, older>>
  /\ Goto("swap")
  /\ UNCHANGED <<descVars, journal, plainVars, stepVars, sessionVars, newKey, blocked, workVars,
                 ghostVars>>

\* The pass is over: clear the journal, or throw and leave the rest staged.
\* changePassword() swallows that error, the others report it.
SwapDone ==
  /\ pc = "swap" /\ todo = {}
  /\ \/ /\ StagedRekeyFiles = {}
        /\ journal' = {}
        /\ IF task = "change" THEN Return ELSE AfterRecovery
     \/ /\ StagedRekeyFiles # {}
        /\ UNCHANGED journal
        /\ IF task = "change" THEN Return ELSE RecoveryFails
  /\ newKey' = NoKey
  /\ UNCHANGED <<descVars, cipher, staged, plainVars, older, stepVars, sessionVars, blocked,
                 workVars, ghostVars>>

DiscardOne ==
  /\ pc = "discard"
  /\ \E f \in StagedRekeyFiles :
       \/ /\ staged' = [staged EXCEPT ![f] = NoFile]
          /\ UNCHANGED <<pc, task, newKey>>
       \/ /\ f \in Holdable \/ (f = DB /\ StagedName \in Holdable)
          /\ IF task \in {"change", "abort"} THEN Return ELSE RecoveryFails
          /\ newKey' = NoKey
          /\ UNCHANGED staged
  /\ UNCHANGED <<descVars, cipher, journal, plainVars, older, stepVars, sessionVars, blocked,
                 workVars, ghostVars>>

DiscardDone ==
  /\ pc = "discard" /\ StagedRekeyFiles = {}
  /\ journal' = {}
  /\ \/ task = "change" /\ Goto("stage")
     \/ task = "abort" /\ Return
     \/ AfterRecovery
  /\ newKey' = NoKey
  /\ UNCHANGED <<descVars, cipher, staged, plainVars, older, stepVars, sessionVars, blocked,
                 workVars, ghostVars>>

-----------------------------------------------------------------------------
(* unlock()                                                                *)

\* A blocked salvage is retried first: unlock() re-runs init().
Unlock ==
  /\ Idle /\ Locked
  /\ IF blocked THEN pc' = "init" /\ task' = "retry"
                ELSE pc' = "read" /\ task' = "unlock"
  /\ UNCHANGED <<descVars, cipher, rekeyVars, plainVars, older, stepVars, sessionVars, newKey,
                 blocked, workVars, ghostVars>>

ReadDescriptor ==
  /\ pc = "read"
  /\ IF Readable THEN Goto("recover") ELSE Return
  /\ UNCHANGED <<descVars, cipher, rekeyVars, plainVars, older, stepVars, sessionVars, newKey,
                 blocked, workVars, ghostVars>>

\* The password either verifies, yielding the file key, or the call fails.
VerifyPassword ==
  /\ pc = "verify"
  /\ \/ key' = desc.key /\ Goto("rollForward")
     \/ task = "unlock" /\ Return /\ UNCHANGED key
  /\ UNCHANGED <<descVars, cipher, rekeyVars, plainVars, older, stepVars, descr, handle, live,
                 newKey, blocked, workVars, ghostVars>>

UnlockFails == Return /\ key' = NoKey

OnlyIfMissing == HasHeader(recovery) /\ cipher[DB] = NoFile
                 \* variant: rolls forward only when there is no snapshot
Fresher == /\ HasHeader(recovery)
           /\ cipher[DB] = NoFile \/ DB \in older["recovery"]

\* A held .recovery cannot be probed.  It may be the fresh copy unless the
\* snapshot is demonstrably newer, so unlocking past it is refused.
RecoveryProbeFails ==
  /\ pc = "rollForward" /\ recovery # Absent /\ "recovery" \in Holdable
  /\ \/ /\ cipher[DB] # NoFile /\ DB \notin older["recovery"]
        /\ Goto("decrypt")
        /\ UNCHANGED key
     \/ /\ cipher[DB] = NoFile \/ DB \in older["recovery"] \/ ~SteadyClock
        /\ UnlockFails
  /\ UNCHANGED <<descVars, cipher, rekeyVars, plainVars, older, stepVars, descr, handle, live,
                 newKey, blocked, workVars, ghostVars>>

RollForward ==
  /\ pc = "rollForward"
  /\ \/ /\ recovery = Absent
        /\ Goto("decrypt")
        /\ UNCHANGED <<cipher, older, key>>
     \/ /\ recovery # Absent /\ ~Fresher
        /\ Goto("spend")
        /\ UNCHANGED <<cipher, older, key>>
     \/ /\ recovery # Absent /\ Fresher
        /\ cipher' = [cipher EXCEPT ![DB] = Sealed(key, recovery)]
        /\ older' \in SnapshotWritten(older, DB)
        /\ Goto("spend")
        /\ UNCHANGED key
     \/ /\ recovery # Absent /\ Fresher
        /\ DiskMayFill \/ DB \in Holdable
        /\ UnlockFails
        /\ UNCHANGED <<cipher, older>>
  /\ UNCHANGED <<descVars, rekeyVars, plainVars, stepVars, descr, handle, live, newKey, blocked,
                 workVars, ghostVars>>

SpendRecovery ==
  /\ pc = "spend"
  /\ recovery' \in Shredded("recovery", recovery)
  /\ Goto("decrypt")
  /\ UNCHANGED <<descVars, cipher, rekeyVars, db, wal, transient, older, stepVars, sessionVars,
                 newKey, blocked, workVars, ghostVars>>

\* cleanSidecars, then decryptFile into <db>.tmp; the GCM tag must verify.
DecryptSnapshot ==
  /\ pc = "decrypt"
  /\ wal' \in Shredded("wal", wal)
  /\ IF cipher[DB].key = key THEN Goto("place") /\ UNCHANGED key ELSE UnlockFails
  /\ UNCHANGED <<descVars, cipher, rekeyVars, db, recovery, transient, older, stepVars, descr,
                 handle, live, newKey, blocked, workVars, ghostVars>>

\* decryptFile's atomic rename over the working name.
PlaceWorkingFile ==
  /\ pc = "place"
  /\ \/ /\ db' = cipher[DB].body
        /\ older' \in PlainWritten(older, "db")
        /\ Goto("open")
        /\ UNCHANGED <<key, transient>>
     \/ /\ DiskMayFill \/ "db" \in Holdable
        /\ UnlockFails
        /\ transient' \in TransientSwept(TRUE)
        /\ UNCHANGED <<db, older>>
  /\ UNCHANGED <<descVars, cipher, rekeyVars, wal, recovery, stepVars, descr, handle, live, newKey,
                 blocked, workVars, ghostVars>>

\* openDatabase: SQLite replays a log it finds, then beginSession().
OpenWorkingFile ==
  /\ pc = "open" /\ HasHeader(db)
  /\ handle' = "open"
  /\ live' = IF wal = Frames THEN Torn ELSE db
  /\ wal' = Frames
  /\ descr' = desc
  /\ Return
  /\ UNCHANGED <<descVars, cipher, rekeyVars, db, recovery, transient, older, stepVars, key,
                 newKey, blocked, workVars, ghostVars>>

\* Not a database: VaultDamagedError, and nothing decrypted stays behind.
OpenRefused ==
  /\ pc = "open" /\ ~HasHeader(db)
  /\ db' \in Shredded("db", db)
  /\ wal' \in Shredded("wal", wal)
  /\ UnlockFails
  /\ UNCHANGED <<descVars, cipher, rekeyVars, recovery, transient, older, stepVars, descr, handle,
                 live, newKey, blocked, workVars, ghostVars>>

-----------------------------------------------------------------------------
(* lock() and shutdown()                                                   *)

\* The session writes to the database: the bytes reach the log first.
WriteDatabase ==
  /\ Idle /\ handle = "open" /\ top < MaxGeneration
  /\ top' = top + 1 /\ live' = top'
  /\ UNCHANGED <<descVars, cipher, rekeyVars, plainVars, older, pc, task, stepVars, descr, key,
                 newKey, handle, blocked, workVars, durable>>

\* Checkpoint: the log is folded into the main file.  A main file another
\* instance overwrote stays what it is.
Checkpointed == IF db \in {Absent, Noise} THEN db ELSE live

\* A handle a failed re-open left dead cannot be closed again: the call fails.
Lock(t) ==
  /\ Idle /\ ~Locked
  /\ task' = t
  /\ IF handle = "open"
     THEN /\ db' = Checkpointed /\ wal' = Absent /\ older' \in PlainWritten(older, "db")
          /\ handle' = "dead" /\ pc' = "seal"
     ELSE pc' = "reopen" /\ UNCHANGED <<db, wal, older, handle>>
  /\ UNCHANGED <<descVars, cipher, rekeyVars, recovery, transient, stepVars, descr, key, live,
                 newKey, blocked, workVars, ghostVars>>

SealSnapshot ==
  /\ pc = "seal"
  /\ \/ /\ HasHeader(db)
        /\ cipher' = [cipher EXCEPT ![DB] = Sealed(key, db)]
        /\ older' \in SnapshotWritten(older, DB)
        /\ Goto("erase")
     \/ /\ ~HasHeader(db) \/ DiskMayFill \/ DB \in Holdable \/ "db" \in Holdable
        /\ Goto("reopen")
        /\ UNCHANGED <<cipher, older>>
  /\ UNCHANGED <<descVars, rekeyVars, plainVars, stepVars, sessionVars, newKey, blocked, workVars,
                 ghostVars>>

\* Shred the plaintext, zero the key; on the quit path the process exits.
EraseWorkingFile ==
  /\ pc = "erase"
  /\ db' \in Shredded("db", db)
  /\ wal' \in Shredded("wal", wal)
  /\ durable' = live
  /\ key' = NoKey /\ handle' = "closed" /\ live' = Absent
  /\ IF task = "quit" THEN pc' = "exit" /\ UNCHANGED task ELSE Return
  /\ UNCHANGED <<descVars, cipher, rekeyVars, recovery, transient, older, stepVars, descr, newKey,
                 blocked, workVars, top>>

\* lock() failed: re-open the plaintext so that the session stays usable.
Reopen ==
  /\ pc = "reopen"
  /\ \/ HasHeader(db) /\ handle' = "open" /\ wal' = Frames
     \/ (~HasHeader(db) \/ DiskMayFill) /\ UNCHANGED <<handle, wal>>
  /\ IF task = "quit" THEN Goto("closeForExit") ELSE Return
  /\ UNCHANGED <<descVars, cipher, rekeyVars, db, recovery, transient, older, stepVars, descr, key,
                 live, newKey, blocked, workVars, ghostVars>>

\* shutdown() after a failed lock: close cleanly, so that the next launch finds
\* the bare, newer working file its salvage looks for.
CloseForExit ==
  /\ pc = "closeForExit"
  /\ wal' = IF handle = "open" THEN Absent ELSE wal
  /\ durable' = IF HasHeader(db) THEN live ELSE durable
  /\ handle' = "closed"
  /\ Goto("exit")
  /\ UNCHANGED <<descVars, cipher, rekeyVars, db, recovery, transient, older, stepVars, descr, key,
                 live, newKey, blocked, workVars, top>>

\* A process that ends, or is killed, takes its memory with it.
MemoryLost ==
  /\ pc' = "down" /\ task' = "none" /\ todo' = {} /\ cur' = DB
  /\ descr' = NoDescr /\ key' = NoKey /\ newKey' = NoKey /\ handle' = "closed"
  /\ live' = Absent /\ blocked' = FALSE /\ lease' = {} /\ writing' = [d \in Docs |-> NoKey]

Exit ==
  /\ pc \in {"exit", "failed"} \/ (Idle /\ Locked)
  /\ MemoryLost
  /\ UNCHANGED <<descVars, cipher, rekeyVars, plainVars, older, ghostVars>>

\* Killed, or the power fails.  An open database leaves a main file that may be
\* half-way through a checkpoint; a decryption leaves its temporary file.
Crash ==
  /\ pc # "down"
  /\ MemoryLost
  /\ db' \in IF handle = "open" /\ HasHeader(db) THEN {db, Torn} ELSE {db}
  /\ transient' = (transient \/ pc \in {"place", "stageDocs"} \/ lease # {})
  /\ UNCHANGED <<descVars, cipher, rekeyVars, wal, recovery, older, ghostVars>>

-----------------------------------------------------------------------------
(* create()                                                                *)

\* Build, seed, checkpoint and close the new database.
Create ==
  /\ Idle /\ Locked /\ ~VaultExistsOnDisk
  /\ HasHeader(db) \/ db = Absent
  /\ db' = 0 /\ wal' = Absent /\ older' \in PlainWritten(older, "db")
  /\ pc' = "sealNew" /\ task' = "create"
  /\ UNCHANGED <<descVars, cipher, rekeyVars, recovery, transient, stepVars, sessionVars, newKey,
                 blocked, workVars, ghostVars>>

SealNewVault ==
  /\ pc = "sealNew"
  /\ \/ /\ \E k \in FreshKeys : newKey' = k /\ staged' = [staged EXCEPT ![DB] = Sealed(k, db)]
        /\ older' \in SnapshotWritten(older, StagedName)
        /\ Goto("eraseNew")
     \/ /\ DiskMayFill
        /\ Return
        /\ UNCHANGED <<staged, newKey, older>>
  /\ UNCHANGED <<descVars, cipher, journal, plainVars, stepVars, sessionVars, blocked, workVars,
                 ghostVars>>

EraseNewPlaintext ==
  /\ pc = "eraseNew"
  /\ db' \in Shredded("db", db)
  /\ wal' \in Shredded("wal", wal)
  /\ Goto("commitNew")
  /\ UNCHANGED <<descVars, cipher, rekeyVars, recovery, transient, older, stepVars, sessionVars,
                 newKey, blocked, workVars, ghostVars>>

\* The commit point of create(): the descriptor is replaced atomically.
CommitNewDescriptor ==
  /\ pc = "commitNew"
  /\ \/ desc' = [ver |-> "v2", key |-> newKey] /\ Goto("adopt") /\ UNCHANGED newKey
     \/ DiskMayFill /\ Return /\ newKey' = NoKey /\ UNCHANGED desc
  /\ UNCHANGED <<damaged, cipher, rekeyVars, plainVars, older, stepVars, sessionVars, blocked,
                 workVars, ghostVars>>

AdoptNewSnapshot ==
  /\ pc = "adopt"
  /\ newKey' = NoKey
  /\ \/ /\ cipher' = [cipher EXCEPT ![DB] = staged[DB]]
        /\ staged' = [staged EXCEPT ![DB] = NoFile]
        /\ older' = StagedMovedIn(older)
        /\ Goto("read")
     \/ /\ StagedName \in Holdable
        /\ Return
        /\ UNCHANGED <<cipher, staged, older>>
  /\ UNCHANGED <<descVars, journal, plainVars, stepVars, sessionVars, blocked, workVars, ghostVars>>

-----------------------------------------------------------------------------
(* changePassword() on a v1 vault: the journaled migration to the envelope *)
(* format.  On a v2 vault the descriptor is replaced by one that yields    *)
(* the same file key; either way a damaged one is whole again.             *)

NeverBusy == FALSE          \* variant: the change does not look at the holds
DocumentsBusy == lease # {}

ChangePassword ==
  /\ Idle /\ handle = "open" /\ ~DocumentsBusy
  /\ \/ descr.ver = "v1" /\ pc' = "discard" /\ task' = "change" /\ UNCHANGED damaged
     \/ descr.ver = "v2" /\ damaged' = FALSE /\ UNCHANGED <<pc, task>>
  /\ UNCHANGED <<desc, cipher, rekeyVars, plainVars, older, stepVars, sessionVars, newKey,
                 blocked, workVars, ghostVars>>

AbortChange == pc' = "discard" /\ task' = "abort"

\* stageRekey: checkpoint, refuse a non-database, list the files, write the journal.
StageJournal ==
  /\ pc = "stage"
  /\ db' = Checkpointed
  /\ older' \in PlainWritten(older, "db")
  /\ \/ /\ HasHeader(db)
        /\ journal' = {DB} \cup {d \in Docs : cipher[d] # NoFile}
        /\ newKey' \in FreshKeys
        /\ Goto("stageDb")
     \/ /\ ~HasHeader(db) \/ DiskMayFill \/ "db" \in Holdable
        /\ AbortChange
        /\ UNCHANGED <<journal, newKey>>
  /\ UNCHANGED <<descVars, cipher, staged, wal, recovery, transient, stepVars, sessionVars,
                 blocked, workVars, ghostVars>>

StageDatabase ==
  /\ pc = "stageDb"
  /\ \/ /\ staged' = [staged EXCEPT ![DB] = Sealed(newKey, db)]
        /\ older' \in SnapshotWritten(older, StagedName)
        /\ Goto("stageDocs")
     \/ DiskMayFill /\ AbortChange /\ UNCHANGED <<staged, older>>
  /\ UNCHANGED <<descVars, cipher, journal, plainVars, stepVars, sessionVars, newKey, blocked,
                 workVars, ghostVars>>

ToStage == {d \in journal \ {DB} : staged[d] = NoFile}

\* Decrypt a sidecar under the old key, encrypt it under the new one.
StageSidecar ==
  /\ pc = "stageDocs"
  /\ \E d \in ToStage :
       \/ /\ cipher[d].key = key
          /\ staged' = [staged EXCEPT ![d] = Sealed(newKey, cipher[d].body)]
          /\ UNCHANGED <<pc, task>>
       \/ /\ cipher[d].key # key \/ DiskMayFill \/ d \in Holdable
          /\ AbortChange
          /\ UNCHANGED staged
  /\ transient' \in {transient} \cup TransientSwept(TRUE)
  /\ UNCHANGED <<descVars, cipher, journal, db, wal, recovery, older, stepVars, sessionVars, newKey,
                 blocked, workVars, ghostVars>>

\* The commit point: descriptor on disk, then descriptor and key in memory.
CommitRekey ==
  /\ pc = "stageDocs" /\ ToStage = {}
  /\ \/ /\ desc' = [ver |-> "v2", key |-> newKey]
        /\ descr' = desc' /\ damaged' = FALSE /\ key' = newKey
        /\ todo' = StagedRekeyFiles
        /\ Goto("swap")
     \/ DiskMayFill /\ AbortChange /\ UNCHANGED <<descVars, descr, key, todo>>
  /\ UNCHANGED <<cipher, rekeyVars, plainVars, older, cur, handle, live, newKey, blocked,
                 workVars, ghostVars>>

-----------------------------------------------------------------------------
(* Document work: an import or re-index that writes an encrypted sidecar.  *)

BeginDocumentWork(d) ==
  /\ Idle /\ handle = "open" /\ d \notin lease
  /\ lease' = lease \cup {d}
  /\ UNCHANGED <<descVars, cipher, rekeyVars, plainVars, older, pc, task, stepVars, sessionVars,
                 newKey, blocked, writing, ghostVars>>

\* documentCipher().encryptFileAsync: re-reads the key at the call, refuses
\* once the vault is locked, and keeps the key it read until it finishes.
StartSidecarWrite(d) ==
  /\ Idle /\ d \in lease /\ writing[d] = NoKey /\ key # NoKey
  /\ writing' = [writing EXCEPT ![d] = key]
  /\ UNCHANGED <<descVars, cipher, rekeyVars, plainVars, older, pc, task, stepVars, sessionVars,
                 newKey, blocked, lease, ghostVars>>

FinishSidecarWrite(d) ==
  /\ Idle /\ writing[d] # NoKey
  /\ cipher' = [cipher EXCEPT ![d] = Sealed(writing[d], 0)]
  /\ writing' = [writing EXCEPT ![d] = NoKey]
  /\ UNCHANGED <<descVars, rekeyVars, plainVars, older, pc, task, stepVars, sessionVars, newKey,
                 blocked, lease, ghostVars>>

EndDocumentWork(d) ==
  /\ Idle /\ d \in lease /\ writing[d] = NoKey
  /\ lease' = lease \ {d}
  /\ UNCHANGED <<descVars, cipher, rekeyVars, plainVars, older, pc, task, stepVars, sessionVars,
                 newKey, blocked, writing, ghostVars>>

-----------------------------------------------------------------------------
(* What other programs and the medium do.                                  *)

\* The crash sweep of a build without the single-instance lock overwrites the
\* open database in place; the unlink fails, so the noise keeps the name.
ForeignOverwrite ==
  /\ ForeignSweep /\ Idle /\ handle = "open" /\ db # Noise
  /\ db' = Noise
  /\ UNCHANGED <<descVars, cipher, rekeyVars, wal, recovery, transient, older, pc, task, stepVars,
                 sessionVars, newKey, blocked, workVars, ghostVars>>

DamageDescriptor ==
  /\ DescriptorFaults # "never" /\ pc \in {"idle", "down"} /\ Readable
  /\ damaged' = TRUE
  /\ UNCHANGED <<desc, cipher, rekeyVars, plainVars, older, pc, task, stepVars, sessionVars, newKey,
                 blocked, workVars, ghostVars>>

RestoreDescriptor ==
  /\ damaged /\ (pc = "down" \/ (Idle /\ DescriptorFaults = "anyTime"))
  /\ damaged' = FALSE
  /\ UNCHANGED <<desc, cipher, rekeyVars, plainVars, older, pc, task, stepVars, sessionVars, newKey,
                 blocked, workVars, ghostVars>>

-----------------------------------------------------------------------------
InitStep == InitWithoutDescriptor \/ SalvageNotNeeded \/ SalvageProbeFails
            \/ SalvageShredOldRecovery \/ SalvageMove \/ SweepDatabase \/ SweepRest
RekeyStep == RecoverPendingRekey \/ SwapShredTarget \/ SwapRename \/ SwapDone
             \/ DiscardOne \/ DiscardDone
UnlockStep == ReadDescriptor \/ VerifyPassword \/ RecoveryProbeFails \/ RollForward
              \/ SpendRecovery \/ DecryptSnapshot \/ PlaceWorkingFile \/ OpenWorkingFile
              \/ OpenRefused
LockStep == SealSnapshot \/ EraseWorkingFile \/ Reopen \/ CloseForExit \/ Exit
CreateStep == SealNewVault \/ EraseNewPlaintext \/ CommitNewDescriptor \/ AdoptNewSnapshot
ChangeStep == StageJournal \/ StageDatabase \/ StageSidecar \/ CommitRekey
DocumentStep == \E d \in Docs : \/ BeginDocumentWork(d) \/ StartSidecarWrite(d)
                                \/ FinishSidecarWrite(d) \/ EndDocumentWork(d)
Request == \/ Launch \/ Unlock \/ WriteDatabase \/ Create \/ ChangePassword
           \/ \E t \in {"lock", "quit"} : Lock(t)
Environment == Crash \/ ForeignOverwrite \/ DamageDescriptor \/ RestoreDescriptor

Next == \/ InitStep \/ RekeyStep \/ UnlockStep \/ LockStep \/ CreateStep \/ ChangeStep
        \/ DocumentStep \/ Request \/ Environment

Spec == Init /\ [][Next]_vars

-----------------------------------------------------------------------------
MaybeKeys == Keys \cup {NoKey}
Descriptors == [ver : Formats, key : MaybeKeys]
FileRecords == [key : MaybeKeys, body : Bodies]
Steps == {"down", "failed", "idle", "exit", "init", "salvage", "sweep", "sweepRest", "recover",
          "swap", "swapIn", "discard", "read", "verify", "rollForward", "spend", "decrypt", "place",
          "open", "seal", "erase", "reopen", "closeForExit", "sealNew", "eraseNew", "commitNew",
          "adopt", "stage", "stageDb", "stageDocs"}
Tasks == {"none", "launch", "retry", "unlock", "create", "lock", "quit", "change", "abort"}

DescriptorTypes == desc \in Descriptors /\ descr \in Descriptors
CipherTypes == /\ cipher \in [CipherFiles -> FileRecords] /\ staged \in [CipherFiles -> FileRecords]
               /\ journal \in SUBSET CipherFiles
PlainTypes == /\ db \in Bodies /\ recovery \in Bodies /\ wal \in {Absent, Noise, Frames}
StampTypes == older \in [PlainNames -> SUBSET StampNames]
StepTypes == /\ pc \in Steps /\ task \in Tasks
             /\ todo \in SUBSET CipherFiles /\ cur \in CipherFiles
SessionTypes == /\ key \in MaybeKeys /\ newKey \in MaybeKeys
                /\ handle \in {"closed", "open", "dead"} /\ live \in Bodies
WorkTypes == lease \in SUBSET Docs /\ writing \in [Docs -> MaybeKeys]
FlagTypes == damaged \in BOOLEAN /\ transient \in BOOLEAN /\ blocked \in BOOLEAN
HistoryTypes == top \in Nat /\ durable \in Bodies

\* Every variable has the type its comment gives it.
TypeOK == /\ DescriptorTypes /\ CipherTypes /\ PlainTypes /\ StampTypes /\ StepTypes
          /\ SessionTypes /\ WorkTypes /\ HistoryTypes /\ FlagTypes

-----------------------------------------------------------------------------
(* Safety.                                                                 *)

\* The journal's promise, "old-or-new, never mixed": at every instant, whatever
\* crash comes next, the committed descriptor yields the key of the snapshot or
\* of the staged file recovery will move over it.
NeverMixed ==
  desc.ver # "none" =>
    \/ cipher[DB].key = desc.key
    \/ desc.ver = "v2" /\ staged[DB].key = desc.key

\* Why it holds while no damaged descriptor is put back under the running program
\* and nothing holds <db>.enc.new: the descriptor in memory is the committed one
\* (or none was read yet), and a step that writes, moves or deletes a snapshot has
\* the key that step assumes.
KnownDescriptor ==
  /\ desc.ver = "none" => desc = NoDescr
  /\ desc.ver # "none" => desc.key # NoKey
  /\ descr \in {desc, NoDescr}
  /\ pc = "init" => descr = desc \/ damaged
  /\ pc = "down" => ~blocked
  /\ pc \in {"salvage", "sweep", "sweepRest"} \/ blocked => descr = desc /\ descr.ver # "none"
  /\ pc \in {"recover", "swap", "swapIn", "discard"} /\ task \in {"launch", "retry"} => descr = desc

SnapshotOpenable ==
  /\ desc.ver = "v1" => cipher[DB].key = desc.key
  /\ desc.ver = "v2" => \/ staged[DB].key = desc.key
                        \/ staged[DB] = NoFile /\ cipher[DB].key = desc.key
  /\ desc.ver # "none" /\ descr = NoDescr /\ ~damaged /\ pc \notin {"down", "adopt"} =>
       staged[DB] = NoFile /\ cipher[DB].key = desc.key

SessionKey ==
  /\ handle # "closed" => desc.ver # "none" /\ descr = desc /\ key = desc.key
  /\ pc \in {"seal", "erase", "reopen", "closeForExit", "stage", "stageDb", "stageDocs"} =>
       handle # "closed"
  /\ pc \in {"rollForward", "spend", "decrypt", "place", "open"} =>
       desc.ver # "none" /\ key = desc.key
  /\ pc = "verify" => desc.ver # "none"

NoSession ==
  /\ pc \in {"down", "init", "salvage", "sweep", "sweepRest", "read", "verify", "rollForward", "spend",
            "decrypt", "place", "open", "sealNew", "eraseNew", "commitNew", "adopt"} =>
       handle = "closed"
  /\ pc \in {"recover", "swap", "swapIn", "discard"} /\ task \notin {"change", "abort"} =>
       handle = "closed"

TaskInStep ==
  /\ pc \in {"init", "salvage", "sweep", "sweepRest"} => task \in {"launch", "retry"}
  /\ pc = "read" => task \in {"unlock", "create"}
  /\ pc = "recover" => task \in {"launch", "retry", "unlock", "create"}
  /\ pc \in {"stage", "stageDb", "stageDocs"} => task = "change"
  /\ pc \in {"sealNew", "eraseNew", "commitNew", "adopt"} => task = "create"
  /\ pc \in {"recover", "swap", "swapIn", "discard"} /\ task \in {"unlock", "create"} =>
       desc.ver # "none"

CreateInStep ==
  /\ pc \in {"sealNew", "eraseNew", "commitNew"} => desc.ver = "none"
  /\ pc \in {"eraseNew", "commitNew"} => newKey \in DataKeys /\ staged[DB].key = newKey
  /\ pc = "adopt" => desc.ver = "v2" /\ staged[DB].key = desc.key

RekeyInStep ==
  /\ pc \in {"stage", "stageDb", "stageDocs"} => desc.ver = "v1"
  /\ pc = "discard" => desc.ver # "v2"
  /\ pc = "discard" /\ task \in {"change", "abort"} => handle # "closed"
  /\ pc \in {"stageDb", "stageDocs"} => newKey \in DataKeys
  /\ pc = "stageDocs" => staged[DB].key = newKey
  /\ pc \in {"swap", "swapIn"} => desc.ver = "v2"
  /\ pc \in {"swap", "swapIn"} /\ DB \in todo => staged[DB].key = desc.key
  /\ pc = "swapIn" => cur \notin todo
  /\ pc = "swapIn" /\ cur = DB => staged[DB].key = desc.key

KeysInStep == /\ KnownDescriptor /\ SnapshotOpenable /\ SessionKey /\ NoSession
              /\ TaskInStep /\ CreateInStep /\ RekeyInStep

\* The same for every document sidecar: no import, interrupted password change or
\* lost journal entry leaves one that only a retired key could open.
SidecarsOpenable ==
  \A d \in Docs :
    desc.ver # "none" /\ (cipher[d] # NoFile \/ staged[d] # NoFile) =>
      \/ cipher[d].key = desc.key
      \/ desc.ver = "v2" /\ d \in StagedRekeyFiles /\ staged[d].key = desc.key

\* A session always shows at least what the last completed lock, or the last
\* clean quit after a failed one, had on the drive.
LockedDataSurvives == handle = "open" => live >= durable

\* Once the application is up and locked, no decrypted file is left on the drive
\* that nothing else holds open (a blocked salvage keeps its only fresh copy).
NothingLeftAtRest ==
  Idle /\ Locked /\ ~blocked /\ descr.ver # "none" =>
    /\ "db" \notin Holdable => db = Absent
    /\ "wal" \notin Holdable => wal = Absent
    /\ "transient" \notin Holdable => ~transient

\* A .recovery next to a working database is never the fresh copy any more: this
\* is what lets the next salvage shred it (preserveNewerPlaintext, REL-1).
RecoveryIsSpent ==
  HasHeader(db) /\ HasHeader(recovery) /\ cipher[DB] # NoFile => DB \notin older["recovery"]

=============================================================================
