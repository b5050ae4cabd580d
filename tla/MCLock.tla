------------------------------- MODULE MCLock -------------------------------
(* Instances of LockTeardown for TLC. *)
EXTENDS LockTeardown
Alone    == {{"turn"}, {"docs"}, {"image"}, {"text"}}
DocsOnly == {{"docs"}}
=============================================================================
