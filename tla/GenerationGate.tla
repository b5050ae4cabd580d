--------------------------- MODULE GenerationGate ---------------------------
(***************************************************************************)
(* The generation gate of RuntimeManager (services/runtime/index.ts): the  *)
(* decorator every chatStream passes, which counts the streams of the two  *)
(* lanes.  The application's own calls (chat answers, document tasks,      *)
(* skill runs) go first; a caller of the local API streams only while      *)
(* nobody else does.                                                       *)
(*                                                                         *)
(* The gate compares the epoch a stream entered under with the current     *)
(* one and nothing else, so a call keeps one bit: `fresh`, true until the  *)
(* next reset.  The runtime's own life is RuntimeManager.tla's; here it is *)
(* the four instants the gate sees.                                        *)
(***************************************************************************)
EXTENDS Naturals, FiniteSets

CONSTANTS
    Chats,      \* in-app callers the model-stop hook aborts
    Jobs,       \* in-app callers that hold an occupancy span
    Requests    \* callers of the local API

ASSUME CallersAssumption ==
    /\ IsFiniteSet(Chats) /\ IsFiniteSet(Jobs) /\ IsFiniteSet(Requests)
    /\ Chats \cap Jobs = {}
    /\ (Chats \cup Jobs) \cap Requests = {}

Turns   == Chats \cup Jobs
Callers == Turns \cup Requests
LaneOf(x) == IF x \in Requests THEN "external" ELSE "inApp"

VARIABLES
    model,    \* "up" while the manager has a current runtime
    lane,     \* laneCounts
    call,     \* per caller: its generator, its abort signal
    holding   \* in-app callers that have resolved active(): a later call of
              \* theirs may reach the gate when that runtime is gone

gateVars == <<model, lane, call, holding>>

\* "waiting": parked in waitExternalIdle; "woken": its wait was settled, it has
\* not run since; "pulling": inside inner.chatStream; "parked": suspended at a
\* yield whose consumer waits for its socket to drain.
Places == {"out", "waiting", "woken", "pulling", "parked"}
Lanes  == {"inApp", "external"}
NoCall == [at |-> "out", fresh |-> FALSE, aborted |-> FALSE, late |-> FALSE]

Busy      == lane["inApp"] > 0 \/ lane["external"] > 0
InGate(x) == call[x].at # "out"

-----------------------------------------------------------------------------
\* Helpers on the call records.

Aborted(c, S) == [x \in Callers |-> IF x \in S THEN [c[x] EXCEPT !.aborted = TRUE]
                                              ELSE c[x]]

\* An aborted wait is settled by the abort listener.
Stopped(c, S) == [x \in Callers |->
    IF x \in S THEN [c[x] EXCEPT !.aborted = TRUE,
                                 !.at = IF @ = "waiting" THEN "woken" ELSE @]
               ELSE c[x]]

\* flushExternalIdleWaiters
Flushed(c) == [x \in Callers |-> IF c[x].at = "waiting" THEN [c[x] EXCEPT !.at = "woken"]
                                                        ELSE c[x]]

\* The finally of gatedChatStream: a stream of an older epoch skips its
\* decrement; the last external one wakes the waiting in-app calls.
Left(c, x) == [c EXCEPT ![x] = [@ EXCEPT !.at = "out", !.fresh = FALSE, !.late = FALSE]]

\* variant: the epoch is not compared
LeaveOnceMore(x) ==
    /\ lane' = [lane EXCEPT ![LaneOf(x)] = @ - 1]
    /\ call' = IF LaneOf(x) = "external" THEN Flushed(Left(call, x)) ELSE Left(call, x)
LeaveGate(x) ==
    /\ lane' = IF call[x].fresh THEN [lane EXCEPT ![LaneOf(x)] = @ - 1] ELSE lane
    /\ call' = IF call[x].fresh /\ LaneOf(x) = "external" /\ lane["external"] = 1
               THEN Flushed(Left(call, x))
               ELSE Left(call, x)

\* resetGenerationGate, on a record of calls that may have been aborted in the
\* same frame.
ResetGate ==
    /\ lane' = [l \in Lanes |-> 0]
    /\ call' = Flushed([x \in Callers |-> [call[x] EXCEPT !.fresh = FALSE]])

-----------------------------------------------------------------------------
\* The runtime's life as the gate sees it.

\* doStop up to the kill.  `ended` is what the model-stop hook aborts (nothing
\* on a crash restart).
StopModel(ended) ==
    /\ model = "up"
    /\ model' = "dying"
    /\ call' = Stopped(call, ended)
    /\ UNCHANGED <<lane, holding>>

\* The child is gone, or a start resets the gate before it spawns.
KillSettles ==
    /\ model = "dying"
    /\ model' = "none"
    /\ ResetGate
    /\ UNCHANGED holding

LoadBegins ==
    /\ model = "none"
    /\ model' = "loading"
    /\ ResetGate
    /\ UNCHANGED holding

LoadEnds ==
    /\ model = "loading"
    /\ model' \in {"up", "none"}
    /\ UNCHANGED <<lane, call, holding>>

-----------------------------------------------------------------------------
\* In-app calls.

\* The caller reads active(); a job takes its span in the same frame.
Prepare(t) ==
    /\ model = "up"
    /\ t \notin holding
    /\ holding' = holding \cup {t}
    /\ call' = [call EXCEPT ![t] = NoCall]
    /\ UNCHANGED <<model, lane>>

Finish(t) ==
    /\ t \in holding
    /\ ~InGate(t)
    /\ holding' = holding \ {t}
    /\ call' = [call EXCEPT ![t] = NoCall]
    /\ UNCHANGED <<model, lane>>

\* The first pull of an in-app generator.  `ended` is what the pre-emption hook
\* aborts.  An aborted call counts itself, returns, and is uncounted: no change.
EnterInApp(t, ended) ==
    /\ t \in holding
    /\ ~InGate(t)
    /\ ~call[t].aborted
    /\ lane' = [lane EXCEPT !["inApp"] = @ + 1]
    /\ call' = Aborted(
          [call EXCEPT ![t] = [@ EXCEPT !.at = IF lane["external"] > 0 THEN "waiting"
                                                                       ELSE "pulling",
                                        !.fresh = TRUE]],
          ended)
    /\ UNCHANGED <<model, holding>>

\* EXTERNAL_TEARDOWN_TIMEOUT_MS.
TeardownBound(t) ==
    /\ call[t].at = "waiting"
    /\ call' = [call EXCEPT ![t] = [@ EXCEPT !.at = "woken", !.late = TRUE]]
    /\ UNCHANGED <<model, lane, holding>>

Resume(t) ==
    /\ call[t].at = "woken"
    /\ IF call[t].aborted
       THEN LeaveGate(t)
       ELSE /\ call' = [call EXCEPT ![t].at = "pulling"]
            /\ UNCHANGED lane
    /\ UNCHANGED <<model, holding>>

EndInApp(t) ==
    /\ call[t].at = "pulling"
    /\ LeaveGate(t)
    /\ UNCHANGED <<model, holding>>

\* The user stops the answer, or cancels the job.
StopTurn(t) ==
    /\ t \in holding
    /\ ~call[t].aborted
    /\ call' = Stopped(call, {t})
    /\ UNCHANGED <<model, lane, holding>>

-----------------------------------------------------------------------------
\* External calls.

\* ExternalGenerationBusyError is thrown in the frame that counted the call.
\* variant: only another request refuses
RefusedByRequests(r) == lane["external"] > 0
Refused(r) == lane["inApp"] > 0 \/ lane["external"] > 0

EnterExternal(r) ==
    /\ ~InGate(r)
    /\ ~Refused(r)
    /\ lane' = [lane EXCEPT !["external"] = @ + 1]
    /\ call' = [call EXCEPT ![r] = [@ EXCEPT !.at = "pulling", !.fresh = TRUE]]
    /\ UNCHANGED <<model, holding>>

\* A delta the socket does not take suspends the generator at its yield.
Park(r) ==
    /\ call[r].at = "pulling"
    /\ call' = [call EXCEPT ![r].at = "parked"]
    /\ UNCHANGED <<model, lane, holding>>

Unpark(r) ==
    /\ call[r].at = "parked"
    /\ call' = [call EXCEPT ![r].at = "pulling"]
    /\ UNCHANGED <<model, lane, holding>>

\* variant: a reader that does not drain is never given up
EndDrained(r) ==
    /\ call[r].at = "pulling"
    /\ LeaveGate(r)
    /\ UNCHANGED <<model, holding>>
EndExternal(r) ==
    /\ call[r].at \in {"pulling", "parked"}
    /\ LeaveGate(r)
    /\ UNCHANGED <<model, holding>>

\* Aborting and renewing the signals of external calls is the caller's doing.
AbortExternal(S) ==
    /\ call' = Aborted(call, S)
    /\ UNCHANGED <<model, lane, holding>>

RenewSignal(r) ==
    /\ ~InGate(r)
    /\ call' = [call EXCEPT ![r] = NoCall]
    /\ UNCHANGED <<model, lane, holding>>

-----------------------------------------------------------------------------
GateInit ==
    /\ model = "none"
    /\ lane = [l \in Lanes |-> 0]
    /\ call = [x \in Callers |-> NoCall]
    /\ holding = {}

GateNext ==
    \/ \E ended \in SUBSET Callers : StopModel(ended)
    \/ KillSettles \/ LoadBegins \/ LoadEnds
    \/ \E t \in Turns :
          \/ Prepare(t) \/ Finish(t) \/ TeardownBound(t) \/ Resume(t)
          \/ EndInApp(t) \/ StopTurn(t)
          \/ \E ended \in SUBSET Requests : EnterInApp(t, ended)
    \/ \E r \in Requests :
          EnterExternal(r) \/ Park(r) \/ Unpark(r) \/ EndExternal(r) \/ RenewSignal(r)
    \/ \E S \in SUBSET Requests : AbortExternal(S)

GateSpec == GateInit /\ [][GateNext]_gateVars

-----------------------------------------------------------------------------
\* The model and its gate are well formed: a request never waits for others.
GateTypeOK ==
    /\ model \in {"none", "loading", "up", "dying"}
    /\ lane \in [Lanes -> Nat]
    /\ call \in [Callers -> [at : Places, fresh : BOOLEAN, aborted : BOOLEAN, late : BOOLEAN]]
    /\ holding \subseteq Turns

Counted(l) == {x \in Callers : LaneOf(x) = l /\ InGate(x) /\ call[x].fresh}

\* What a lane counts is exactly the streams that entered it since the last
\* reset and have not left: a stream of an earlier runtime that ends late
\* takes nothing off the count of the present one (gateEpoch).
LaneCountsLiveStreams == \A l \in Lanes : lane[l] = Cardinality(Counted(l))

\* An answer and an outside request stream on the running model together only
\* when the answer has waited the whole teardown bound for the request to end.
InAppWaitsItsTurn ==
    \A t \in Turns, r \in Requests :
        /\ t \in Counted("inApp") /\ call[t].at = "pulling"
        /\ r \in Counted("external")
        => call[t].late

\* The external lane is a single slot whatever admission does.
OneExternalStream == lane["external"] <= 1
=============================================================================
