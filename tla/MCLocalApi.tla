----------------------------- MODULE MCLocalApi -----------------------------
(* Instances of LocalApi for TLC. *)
EXTENDS LocalApi, TLC
CONSTANTS chat, job, r1, r2
OneChat     == {chat}
OneJob      == {job}
TwoRequests == {r1, r2}
OneRequest  == {r1}
None        == {}
RequestSwap == Permutations(TwoRequests)
=============================================================================
