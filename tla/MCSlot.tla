------------------------------- MODULE MCSlot -------------------------------
(* Instances of ModelSlot for TLC. *)
EXTENDS ModelSlot, TLC
CONSTANTS j1, j2, j3, c1, c2, d1
ThreeJobs == {j1, j2, j3}
TwoChats  == {c1, c2}
TwoJobs   == {j1, j2}
OneChat   == {c1}
JobSwap   == Permutations(ThreeJobs) \cup Permutations(TwoChats)
OneDoc    == {d1}
=============================================================================
