------------------------------ MODULE MCRuntime ------------------------------
(* Instances of RuntimeManager for TLC: two chat models, or one of them. *)
EXTENDS RuntimeManager, TLC
CONSTANTS gemma, qwen
Either == {gemma, qwen}
Gemma  == {gemma}
Nobody == {}
Swap == Permutations(Either)

\* The long chains: one start by the user, and otherwise only what the crash
\* handlers call.
OnlyCrashesFollow ==
    /\ ws = "open" /\ ~shut /\ probing = None
    /\ \A o \in 1 .. issued : kind[o] # "stop"
    /\ Cardinality({o \in 1 .. issued : kind[o] = "start"}) <= 1

\* A model that was restarted after a crash is restarted by the user, and while it
\* warms up another is asked for and then it again: the report of a crash in the
\* warm-up finds what the last start brought up.
Overtaken == <<"start", "cpuRestart", "start", "start", "start", "giveUp">>
BackAgain == /\ model[1] = model[2] /\ model[2] = model[3]
             /\ issued >= 4 => model[4] # model[3]
             /\ issued >= 5 => model[5] = model[3]
LateReport ==
    /\ ws = "open" /\ ~shut /\ probing = None /\ BackAgain
    /\ \A o \in 1 .. issued : kind[o] = Overtaken[o]

\* (A weight check that ends after the third call only ends.)
ThreeCalls == issued < 3 \/ (issued = 3 /\ requests = {})
LongOnlyForLateReports == ThreeCalls \/ LateReport
LongOnlyForCrashes == issued <= 2 \/ OnlyCrashesFollow
=============================================================================
