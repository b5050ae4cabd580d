----------------------------- MODULE VaultFiles -----------------------------
(***************************************************************************)
(* The files of a HilbertRaum vault and what the file primitives of        *)
(* services/workspace-vault.ts do to one of them.                          *)
(*                                                                         *)
(* A file's content is a number.  A generation n >= 0 is a consistent      *)
(* SQLite database that holds every write up to the n-th; the negative     *)
(* values are the contents a crash or an unfinished shred can leave.       *)
(***************************************************************************)
EXTENDS Integers

CONSTANTS
  Docs,         \* document sidecars encrypted under the vault data key
  OutOfStore,   \* those of them that lie outside workspace/documents
  Holdable,     \* files some other program (scanner, indexer) may hold open
  SteadyClock   \* TRUE: a later write always gets a strictly later mtime

DB == "enc"                          \* the encrypted database snapshot, <db>.enc
CipherFiles == {DB} \cup Docs
StagedName == "encNew"               \* <db>.enc.new
PlainNames == {"db", "recovery"}     \* <db> and <db>.recovery
StampNames == {DB, StagedName}

ASSUME FilesAssumption ==
  /\ DB \notin Docs
  /\ OutOfStore \subseteq Docs
  /\ SteadyClock \in BOOLEAN
  /\ Holdable \subseteq {"db", "wal", "recovery", "transient", StagedName} \cup CipherFiles

Absent == -3     \* no such file
Noise  == -2     \* overwritten with random bytes, still under its name
Torn   == -1     \* a main file without the write-ahead log it needs
Bodies == {Absent, Noise, Torn} \cup Nat

\* fileHasSqliteHeader: a torn main file passes, a shred survivor does not.
HasHeader(body) == body >= Torn

NoKey == "none"
NoFile == [key |-> NoKey, body |-> Absent]
Sealed(key, body) == [key |-> key, body |-> body]

\* shredFile: overwrite, then unlink, both best-effort.  A file another
\* program holds may survive both, or only the overwrite may get through.
Shredded(name, body) ==
  {Absent} \cup (IF body # Absent /\ name \in Holdable THEN {body, Noise} ELSE {})

ShreddedCipher(name, file) ==
  {NoFile} \cup (IF file # NoFile /\ name \in Holdable
                 THEN {file, Sealed(NoKey, Noise)} ELSE {})

(***************************************************************************)
(* Modification times.  The code only ever compares a plaintext file with  *)
(* a snapshot, so older[p] is the set of snapshots whose mtime is strictly *)
(* below that of p.  Without a steady clock (the drive moved to a computer *)
(* with another clock, or a coarse FAT stamp) a write may land anywhere.   *)
(***************************************************************************)
PlainWritten(older, p) ==
  IF SteadyClock THEN {[older EXCEPT ![p] = StampNames]}
  ELSE {[older EXCEPT ![p] = s] : s \in SUBSET StampNames}

SnapshotWritten(older, s) ==
  IF SteadyClock THEN {[p \in PlainNames |-> older[p] \ {s}]}
  ELSE {[p \in PlainNames |-> IF p \in after THEN older[p] \cup {s} ELSE older[p] \ {s}]
          : after \in SUBSET PlainNames}

\* A rename keeps the mtime of the file it moves.
PlainMoved(older, from, to) == [older EXCEPT ![to] = older[from]]

StagedMovedIn(older) ==
  [p \in PlainNames |-> (older[p] \ {DB}) \cup (IF StagedName \in older[p] THEN {DB} ELSE {})]
=============================================================================
