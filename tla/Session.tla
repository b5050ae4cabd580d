------------------------------ MODULE Session -------------------------------
(***************************************************************************)
(* The open workspace as every other part sees it: the database handle and *)
(* the latch a lock or a quit arms before it takes the first component     *)
(* down (services/workspace-vault.ts, WorkspaceController).                *)
(*                                                                         *)
(* Sealing closes the handle before it encrypts, so a seal that fails      *)
(* leaves the workspace open behind a NEW handle: whoever still holds the  *)
(* old one can write nothing any more.  Each part that captures a handle   *)
(* keeps a `stale` flag of its own.                                        *)
(***************************************************************************)
EXTENDS Integers, FiniteSets

CONSTANT None

ASSUME NoneAssumption == None \notin {"user", "model", "lock", "quit"}

VARIABLES
    db,      \* the database is open
    locking  \* the lock latch

session == <<db, locking>>

SessionTypes == db \in BOOLEAN /\ locking \in BOOLEAN

\* Work is admitted while the workspace is open and no lock is under way.
Admits == db /\ ~locking

ArmLatch == locking' = TRUE

\* A lock that failed disarms the latch, for the workspace is still open.
AfterLock(sealed) == sealed
=============================================================================
