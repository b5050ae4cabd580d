------------------------------ MODULE MCVault ------------------------------
(***************************************************************************)
(* The vault for TLC.  Each Vault*.cfg fixes what the environment may do   *)
(* (which files are held, whether the disk fills up, whether clocks agree) *)
(* and asks one question.                                                  *)
(***************************************************************************)
EXTENDS VaultRefinement

\* Snapshots a drive may start with.
Sound == {0}
SoundOrDamaged == {0, Noise}

\* Documents, one of them a legacy copy outside the document store.
InStoreAndLegacy == {"d1", "d2"}
Legacy == {"d2"}
=============================================================================
