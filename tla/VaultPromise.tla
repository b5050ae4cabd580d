---------------------------- MODULE VaultPromise ----------------------------
(***************************************************************************)
(* What the vault promises its user, with no file in sight: a store that   *)
(* holds one database, shows it while a session is open, and saves it when *)
(* the session is locked.  docs/security-model.md, "Lock failure &         *)
(* durability", is the prose of it: a crash costs the open session's       *)
(* changes, and never what was saved before.                               *)
(***************************************************************************)
EXTENDS Integers

CONSTANTS
  None,       \* no database, or no session
  Broken      \* sealed over noise by an older build: no session ever shows it

VARIABLES
  saved,      \* the database the next session will show
  sealed,     \* the one under the vault key; behind saved after a failed lock
  shown,      \* the database of the open session
  promised    \* what the last completed lock or clean quit told the user is safe

vars == <<saved, sealed, shown, promised>>

Init == /\ saved \in {None, 0, Broken} /\ sealed = saved /\ promised = saved
        /\ shown = None

Create == /\ saved = None /\ shown = None
          /\ saved' = 0 /\ sealed' = 0
          /\ UNCHANGED <<shown, promised>>

Open == /\ shown = None /\ saved \notin {None, Broken} /\ sealed = saved
        /\ shown' = saved
        /\ UNCHANGED <<saved, sealed, promised>>

Write == /\ shown # None
         /\ shown' \in Nat /\ shown' > shown
         /\ UNCHANGED <<saved, sealed, promised>>

\* The database is closed in one piece: from here on it survives a crash.
Save == /\ shown # None
        /\ saved' = shown
        /\ UNCHANGED <<sealed, shown, promised>>

Seal == /\ saved # None
        /\ sealed' = saved
        /\ UNCHANGED <<saved, shown, promised>>

\* A password change seals the running session's database in one step.
SaveAndSeal == /\ shown # None
               /\ saved' = shown /\ sealed' = shown
               /\ UNCHANGED <<shown, promised>>

\* The lock failed and the session goes on, back on the last sealed copy.
Resume == /\ shown # None
          /\ saved' = sealed
          /\ UNCHANGED <<sealed, shown, promised>>

Close == /\ shown # None
         /\ saved' = shown /\ promised' = shown /\ shown' = None
         /\ UNCHANGED sealed

Crash == /\ shown # None
         /\ shown' = None
         /\ UNCHANGED <<saved, sealed, promised>>

Next == Create \/ Open \/ Write \/ Save \/ Seal \/ SaveAndSeal \/ Resume \/ Close \/ Crash

Spec == Init /\ [][Next]_vars
=============================================================================
