--------------------------- MODULE LocalApiProofs ---------------------------
(***************************************************************************)
(* The local API uses the gate as the gate's own specification allows, so  *)
(* what GateProofs shows of any callers holds of it; and its admission     *)
(* keeps its slot, its waiter and its access key in order for any number   *)
(* of requests, callers and queued operations.                             *)
(***************************************************************************)
EXTENDS LocalApi, GateProofs

\* A request that is not there carries nothing of an earlier one.
FreeIsFresh == \A r \in Requests : req[r].at = "free" => ~req[r].oldKey

AdmTypes == /\ active \in Requests \cup {Nobody} /\ queued \in Requests \cup {Nobody}
            /\ req \in [Requests -> [at : Stages, oldKey : BOOLEAN]]
            /\ call \in [Callers -> CallRecords]

AdmInv == AdmTypes /\ FreeIsFresh /\ SlotHeldUntilSettled /\ NoStrandedWaiter /\ OldKeyStopsWorking

USE CallersAssumption, NobodyAssumption DEF Turns, Callers, Lanes, Places, LaneOf, InGate

-----------------------------------------------------------------------------
(* What the gate's actions do to the signals of requests. *)

\* No action of the gate but a renewal takes an abort back.
SignalsKept == \A r \in Requests : call[r].aborted => call'[r].aborted
CallsTyped  == call' \in [Callers -> CallRecords]

LEMMA CallTypeKept ==
  ASSUME GateTypeOK, GateTypeOK'
  PROVE  call \in [Callers -> CallRecords] /\ CallsTyped
BY DEF GateTypeOK, CallsTyped, CallRecords

LEMMA EntryEffect ==
  ASSUME call \in [Callers -> CallRecords], NEW t \in Turns, NEW S \in SUBSET Requests,
         EnterInApp(t, S)
  PROVE  \A r \in Requests : call[r].aborted \/ r \in S => call'[r].aborted
<1> DEFINE at == IF lane["external"] > 0 THEN "waiting" ELSE "pulling"
           entered == [call EXCEPT ![t] = [@ EXCEPT !.at = at, !.fresh = TRUE]]
<1>1. \A r \in Requests : r \in Callers /\ entered[r] = call[r] /\ call[r] \in CallRecords
  OBVIOUS
<1>2. call' = Aborted(entered, S)
  BY DEF EnterInApp
<1> HIDE DEF entered
<1> QED
  BY <1>1, <1>2 DEF Aborted, CallRecords

LEMMA GateKeepsSignals ==
  ASSUME call \in [Callers -> CallRecords],
         \/ \E ended \in SUBSET Callers : StopModel(ended)
         \/ KillSettles \/ LoadBegins \/ LoadEnds
         \/ \E t \in Turns :
               \/ Prepare(t) \/ Finish(t) \/ TeardownBound(t) \/ Resume(t)
               \/ EndInApp(t) \/ StopTurn(t)
               \/ \E ended \in SUBSET Requests : EnterInApp(t, ended)
         \/ \E r \in Requests : EnterExternal(r) \/ Park(r) \/ Unpark(r) \/ EndExternal(r)
         \/ \E S \in SUBSET Requests : AbortExternal(S)
  PROVE  SignalsKept
<1>0. \A x \in Callers : call[x] \in CallRecords
  OBVIOUS
<1>1. ASSUME NEW ended \in SUBSET Callers, StopModel(ended) PROVE SignalsKept
  BY <1>0, <1>1 DEF StopModel, Stopped, SignalsKept, CallRecords
<1>2. ASSUME KillSettles \/ LoadBegins PROVE SignalsKept
  <2> DEFINE cleared == [x \in Callers |-> [call[x] EXCEPT !.fresh = FALSE]]
  <2>1. \A x \in Callers : cleared[x] \in CallRecords /\ cleared[x].aborted = call[x].aborted
    BY <1>0 DEF CallRecords
  <2>2. call' = Flushed(cleared)
    BY <1>2 DEF KillSettles, LoadBegins, ResetGate
  <2> HIDE DEF cleared
  <2> QED
    BY <2>1, <2>2 DEF Flushed, SignalsKept, CallRecords
<1>3. ASSUME LoadEnds PROVE SignalsKept
  BY <1>3 DEF LoadEnds, SignalsKept
<1>4. ASSUME NEW t \in Turns, Prepare(t) \/ Finish(t) PROVE SignalsKept
  BY <1>0, <1>4 DEF Prepare, Finish, SignalsKept
<1>5. ASSUME NEW t \in Turns, TeardownBound(t) PROVE SignalsKept
  BY <1>0, <1>5 DEF TeardownBound, SignalsKept
<1>6. ASSUME NEW x \in Callers, LeaveGate(x) PROVE SignalsKept
  BY <1>0, <1>6 DEF LeaveGate, Flushed, Left, SignalsKept, CallRecords
<1>7. ASSUME NEW t \in Turns, Resume(t) \/ EndInApp(t) PROVE SignalsKept
  <2>1. CASE LeaveGate(t)
    BY <1>6, <2>1
  <2>2. CASE call' = [call EXCEPT ![t].at = "pulling"]
    BY <1>0, <2>2 DEF SignalsKept
  <2> QED
    BY <1>7, <2>1, <2>2 DEF Resume, EndInApp
<1>8. ASSUME NEW t \in Turns, StopTurn(t) PROVE SignalsKept
  BY <1>0, <1>8 DEF StopTurn, Stopped, SignalsKept, CallRecords
<1>9. ASSUME NEW t \in Turns, NEW ended \in SUBSET Requests, EnterInApp(t, ended)
      PROVE SignalsKept
  <2>1. call \in [Callers -> CallRecords]
    OBVIOUS
  <2>2. \A r \in Requests : call[r].aborted \/ r \in ended => call'[r].aborted
    BY <2>1, <1>9, EntryEffect
  <2> QED
    BY <2>2 DEF SignalsKept
<1>10. ASSUME NEW r \in Requests, EnterExternal(r) \/ Park(r) \/ Unpark(r) PROVE SignalsKept
  <2>1. CASE EnterExternal(r)
    BY <1>0, <2>1 DEF EnterExternal, SignalsKept, CallRecords
  <2>2. CASE Park(r)
    BY <1>0, <2>2 DEF Park, SignalsKept
  <2>3. CASE Unpark(r)
    BY <1>0, <2>3 DEF Unpark, SignalsKept
  <2> QED
    BY <1>10, <2>1, <2>2, <2>3
<1>11. ASSUME NEW r \in Requests, EndExternal(r) PROVE SignalsKept
  BY <1>6, <1>11 DEF EndExternal
<1>12. ASSUME NEW S \in SUBSET Requests, AbortExternal(S) PROVE SignalsKept
  BY <1>0, <1>12 DEF AbortExternal, Aborted, SignalsKept, CallRecords
<1> QED
  BY <1>1, <1>2, <1>3, <1>4, <1>5, <1>7, <1>8, <1>9, <1>10, <1>11, <1>12

\* The signals a step aborts are aborted after it.
LEMMA AbortsReach ==
  ASSUME call \in [Callers -> CallRecords], NEW S \in SUBSET Requests,
         \/ AbortExternal(S)
         \/ \E ended \in SUBSET Callers : S \subseteq ended /\ StopModel(ended)
         \/ \E t \in Turns : EnterInApp(t, S)
  PROVE  \A r \in S : call'[r].aborted
<1>0. \A x \in Callers : call[x] \in CallRecords
  OBVIOUS
<1>1. CASE AbortExternal(S)
  BY <1>0, <1>1 DEF AbortExternal, Aborted, CallRecords
<1>2. ASSUME NEW ended \in SUBSET Callers, S \subseteq ended, StopModel(ended)
      PROVE  \A r \in S : call'[r].aborted
  BY <1>0, <1>2 DEF StopModel, Stopped, CallRecords
<1>3. ASSUME NEW t \in Turns, EnterInApp(t, S) PROVE \A r \in S : call'[r].aborted
  BY <1>3, EntryEffect
<1> QED
  BY <1>1, <1>2, <1>3

-----------------------------------------------------------------------------
(* Two ways a step touches the admission. *)

\* It leaves the requests alone and takes no abort back.
LEMMA AdmissionUntouched ==
  ASSUME AdmInv, CallsTyped, SignalsKept, UNCHANGED <<admVars, req>>
  PROVE  AdmInv'
<1>1. AdmTypes'
  BY DEF AdmInv, AdmTypes, CallsTyped, admVars
<1>2. FreeIsFresh' /\ SlotHeldUntilSettled' /\ NoStrandedWaiter'
  BY DEF AdmInv, FreeIsFresh, SlotHeldUntilSettled, NoStrandedWaiter, admVars
<1>3. OldKeyStopsWorking'
  BY DEF AdmInv, OldKeyStopsWorking, SignalsKept, admVars
<1> QED
  BY <1>1, <1>2, <1>3 DEF AdmInv

\* It drops the waiter, and may drop requests whose body is awaited.
LEMMA NoReqFields == NoReq.at = "free" /\ ~NoReq.oldKey
BY DEF NoReq

LEMMA WaiterDropped ==
  ASSUME AdmInv, CallsTyped, SignalsKept, NEW S \in SUBSET Requests,
         \A r \in S : req[r].at = "body",
         queued' = Nobody, active' = active,
         req' = FreeAll(S \cup Dropped)
  PROVE  AdmInv'
<1>1. \A r \in Requests : req'[r] = IF r \in S \/ r = queued THEN NoReq ELSE req[r]
  BY DEF FreeAll, Dropped
<1>2. AdmTypes'
  BY <1>1 DEF AdmInv, AdmTypes, CallsTyped, FreeAll, NoReq, Stages
<1>3. \A r \in Requests :
         \/ req'[r].at = "free" /\ ~req'[r].oldKey /\ active # r
         \/ req'[r] = req[r] /\ r # queued
  BY <1>1, NoReqFields DEF AdmInv, SlotHeldUntilSettled, NoStrandedWaiter
<1>4. FreeIsFresh'
  BY <1>3 DEF AdmInv, FreeIsFresh
<1>5. OldKeyStopsWorking'
  BY <1>3 DEF AdmInv, OldKeyStopsWorking, SignalsKept
<1>6. SlotHeldUntilSettled'
  BY <1>3 DEF AdmInv, SlotHeldUntilSettled
<1>7. NoStrandedWaiter'
  BY <1>3 DEF AdmInv, NoStrandedWaiter
<1> QED
  BY <1>2, <1>4, <1>5, <1>6, <1>7 DEF AdmInv

LEMMA AbortAllDropsWaiter ==
  ASSUME AdmInv, CallsTyped, SignalsKept, AbortAllRequests
  PROVE  AdmInv'
<1>1. req' = FreeAll({} \cup Dropped) /\ queued' = Nobody /\ active' = active
  BY DEF AbortAllRequests
<1> QED
  BY <1>1, WaiterDropped

\* It moves one request on within the part of its life the slot is held for, or
\* not: the slot, the waiter and the other requests stay.
LEMMA OneMoves ==
  ASSUME AdmInv, CallsTyped, SignalsKept, NEW r \in Requests, NEW s \in Stages,
         active = r, s \in {"held", "running", "settled"},
         req' = [req EXCEPT ![r].at = s],
         s = "running" => (req[r].oldKey => call[r].aborted),
         s = "held" => (req[r].oldKey => call[r].aborted),
         UNCHANGED admVars
  PROVE  AdmInv'
<1>1. /\ req'[r].at = s /\ req'[r].oldKey = req[r].oldKey
      /\ \A x \in Requests \ {r} : req'[x] = req[x]
  BY DEF AdmInv, AdmTypes
<1>2. AdmTypes'
  BY DEF AdmInv, AdmTypes, CallsTyped, admVars
<1>3. FreeIsFresh'
  BY <1>1 DEF AdmInv, FreeIsFresh
<1>4. OldKeyStopsWorking'
  <2>1. \A x \in Requests \ {r} : req'[x].oldKey /\ req'[x].at \in {"queued", "held", "running"}
                                   => call'[x].aborted
    BY <1>1 DEF AdmInv, OldKeyStopsWorking, SignalsKept
  <2>2. req'[r].oldKey /\ req'[r].at \in {"queued", "held", "running"} => call'[r].aborted
    BY <1>1 DEF SignalsKept
  <2> QED
    BY <2>1, <2>2 DEF OldKeyStopsWorking
<1>5. SlotHeldUntilSettled'
  BY <1>1 DEF AdmInv, SlotHeldUntilSettled, admVars
<1>6. NoStrandedWaiter'
  <2>1. req[r].at # "queued" /\ queued # r
    BY DEF AdmInv, SlotHeldUntilSettled, NoStrandedWaiter
  <2> QED
    BY <1>1, <2>1 DEF AdmInv, NoStrandedWaiter, admVars
<1> QED
  BY <1>2, <1>3, <1>4, <1>5, <1>6 DEF AdmInv

LEMMA ReleaseKeepsInv ==
  ASSUME AdmInv, CallsTyped, NEW r \in Requests, Release(r)
  PROVE  AdmInv'
<1> DEFINE promoted == queued # Nobody /\ Admits /\ IdleNow /\ ~call[queued].aborted
<1>1. /\ active = r /\ queued' = Nobody
      /\ active' = IF promoted THEN queued ELSE Nobody
      /\ req' = [x \in Requests |->
                    IF x = r THEN NoReq
                    ELSE IF x = queued
                         THEN IF promoted THEN [req[x] EXCEPT !.at = "held"] ELSE NoReq
                         ELSE req[x]]
  BY DEF Release
<1>2. queued # r
  BY <1>1 DEF AdmInv, SlotHeldUntilSettled, NoStrandedWaiter
<1>3. \A x \in Callers : x # r => call'[x] = call[x]
  BY DEF Release, RenewSignal, AdmInv, AdmTypes
<1>4. /\ req'[r] = NoReq
      /\ \A x \in Requests \ {r, queued} : req'[x] = req[x]
      /\ promoted => /\ queued \in Requests /\ req'[queued].at = "held"
                     /\ req'[queued].oldKey = req[queued].oldKey
      /\ ~promoted /\ queued # Nobody => req'[queued] = NoReq
  BY <1>1, <1>2 DEF AdmInv, AdmTypes
<1>5. promoted => ~req[queued].oldKey
  BY <1>4 DEF AdmInv, AdmTypes, NoStrandedWaiter, OldKeyStopsWorking
<1> HIDE DEF promoted
<1>6. \A x \in Requests : req'[x] \in [at : Stages, oldKey : BOOLEAN]
  BY <1>1 DEF AdmInv, AdmTypes, NoReq, Stages
<1>7. AdmTypes'
  BY <1>1, <1>4, <1>6 DEF AdmInv, AdmTypes, CallsTyped
<1>8. FreeIsFresh' /\ OldKeyStopsWorking'
  BY <1>1, <1>3, <1>4, <1>5 DEF AdmInv, AdmTypes, FreeIsFresh, OldKeyStopsWorking, NoReq
<1>9. SlotHeldUntilSettled'
  <2>1. \A x \in Requests \ {r, queued} : req'[x].at \notin {"held", "running", "settled"}
    BY <1>1, <1>4 DEF AdmInv, SlotHeldUntilSettled
  <2> QED
    BY <1>1, <1>2, <1>4, <2>1 DEF AdmInv, AdmTypes, SlotHeldUntilSettled, NoReq
<1>10. NoStrandedWaiter'
  <2>1. \A x \in Requests \ {r, queued} : req'[x].at # "queued"
    BY <1>4 DEF AdmInv, NoStrandedWaiter
  <2> QED
    BY <1>1, <1>4, <2>1 DEF AdmInv, AdmTypes, NoStrandedWaiter, NoReq
<1> QED
  BY <1>7, <1>8, <1>9, <1>10 DEF AdmInv

-----------------------------------------------------------------------------
(* Every step is a step of the gate, and keeps the admission in order. *)

LEMMA InitAdmInv == Init => AdmInv
BY DEF Init, GateInit, AdmInv, AdmTypes, FreeIsFresh, SlotHeldUntilSettled, NoStrandedWaiter,
       OldKeyStopsWorking, NoReq, NoCall, Stages, CallRecords

\* A step of the gate that leaves the admission alone, whatever it does else.
LEMMA GateAlone ==
  ASSUME AdmInv, CallsTyped, UNCHANGED <<admVars, req>>,
         \/ \E ended \in SUBSET Callers : StopModel(ended)
         \/ KillSettles \/ LoadBegins \/ LoadEnds
         \/ \E t \in Turns :
               \/ Prepare(t) \/ Finish(t) \/ TeardownBound(t) \/ Resume(t)
               \/ EndInApp(t) \/ StopTurn(t)
               \/ \E ended \in SUBSET Requests : EnterInApp(t, ended)
         \/ \E r \in Requests : EnterExternal(r) \/ Park(r) \/ Unpark(r) \/ EndExternal(r)
         \/ \E S \in SUBSET Requests : AbortExternal(S)
  PROVE  AdmInv'
<1>1. SignalsKept
  BY GateKeepsSignals DEF AdmInv, AdmTypes
<1> QED
  BY <1>1, AdmissionUntouched

\* Nothing moves at the gate.
LEMMA StillSignals ==
  ASSUME AdmInv, UNCHANGED gateVars
  PROVE  CallsTyped /\ SignalsKept
BY DEF AdmInv, AdmTypes, CallsTyped, SignalsKept, gateVars

LEMMA AbortSetsTyped == AdmInv => AbortedReqs \in SUBSET Requests
BY DEF AdmInv, AdmTypes, AbortedReqs

LEMMA RuntimeSteps ==
  ASSUME AdmInv, CallsTyped,
         \/ UserStopsModel \/ CrashStopsModel \/ RuntimeMoves
         \/ \E t \in Turns : TurnEnters(t) \/ TurnMoves(t)
  PROVE  GateNext /\ AdmInv'
<1>0. call \in [Callers -> CallRecords] /\ AbortedReqs \in SUBSET Requests
  BY AbortSetsTyped DEF AdmInv, AdmTypes
<1>1. CASE UserStopsModel
  <2>1. PICK ended \in SUBSET Callers : StopModel(ended) /\ AbortAllRequests
    BY <1>0, <1>1 DEF UserStopsModel
  <2>2. SignalsKept
    BY <1>0, <2>1, GateKeepsSignals
  <2> QED
    BY <2>1, <2>2, AbortAllDropsWaiter DEF GateNext
<1>2. CASE CrashStopsModel
  <2>1. \E ended \in SUBSET Callers : StopModel(ended)
    BY <1>2 DEF CrashStopsModel
  <2> QED
    BY <1>2, <2>1, GateAlone DEF CrashStopsModel, GateNext
<1>3. CASE RuntimeMoves
  BY <1>3, GateAlone DEF RuntimeMoves, GateNext
<1>4. ASSUME NEW t \in Turns, TurnEnters(t) PROVE GateNext /\ AdmInv'
  <2>1. PICK ended \in SUBSET Requests : EnterInApp(t, ended)
    BY <1>0, <1>4 DEF TurnEnters
  <2>2. SignalsKept
    BY <1>0, <2>1, GateKeepsSignals
  <2>3. AbortAllRequests \/ UNCHANGED <<admVars, req>>
    BY <1>4 DEF TurnEnters
  <2> QED
    BY <2>1, <2>2, <2>3, AbortAllDropsWaiter, AdmissionUntouched DEF GateNext
<1>5. ASSUME NEW t \in Turns, TurnMoves(t) PROVE GateNext /\ AdmInv'
  BY <1>5, GateAlone DEF TurnMoves, GateNext
<1> QED
  BY <1>1, <1>2, <1>3, <1>4, <1>5

LEMMA RequestSteps ==
  ASSUME AdmInv, CallsTyped, NEW r \in Requests, Request(r)
  PROVE  [GateNext]_gateVars /\ AdmInv'
<1>0. call \in [Callers -> CallRecords] /\ AbortedReqs \in SUBSET Requests
  BY AbortSetsTyped DEF AdmInv, AdmTypes
<1>1. CASE Arrive(r)
  <2>1. /\ RenewSignal(r) /\ req[r].at = "free" /\ UNCHANGED admVars
        /\ req' = [req EXCEPT ![r].at = "body"]
    BY <1>1 DEF Arrive
  <2>2. req'[r].at = "body" /\ ~req'[r].oldKey /\ \A x \in Requests \ {r} : req'[x] = req[x]
    BY <2>1 DEF AdmInv, AdmTypes, FreeIsFresh
  <2>3. \A x \in Requests \ {r} : call'[x] = call[x]
    BY <1>0, <2>1 DEF RenewSignal
  <2>4. AdmTypes'
    BY <2>1 DEF AdmInv, AdmTypes, CallsTyped, admVars, Stages
  <2>5. FreeIsFresh' /\ OldKeyStopsWorking'
    BY <2>2, <2>3 DEF AdmInv, FreeIsFresh, OldKeyStopsWorking
  <2>6. SlotHeldUntilSettled' /\ NoStrandedWaiter'
    BY <2>1, <2>2 DEF AdmInv, SlotHeldUntilSettled, NoStrandedWaiter, admVars
  <2> QED
    BY <2>1, <2>4, <2>5, <2>6 DEF AdmInv, GateNext
<1>2. CASE Admit(r)
  <2> DEFINE refused == req[r].oldKey \/ model # "up" \/ ~Admits
             takes == ~refused /\ active = Nobody /\ IdleNow
             waits == ~refused /\ active # Nobody /\ queued = Nobody
  <2>1. /\ req[r].at = "body" /\ UNCHANGED gateVars
        /\ active' = IF takes THEN r ELSE active
        /\ queued' = IF waits THEN r ELSE queued
        /\ req' = [req EXCEPT ![r] = IF takes THEN [@ EXCEPT !.at = "held"]
                                     ELSE IF waits THEN [@ EXCEPT !.at = "queued"]
                                     ELSE NoReq]
    BY <1>2 DEF Admit
  <2>2. CallsTyped /\ SignalsKept /\ \A x \in Requests : call'[x] = call[x]
    BY <2>1, StillSignals DEF gateVars
  <2>3. \A x \in Requests \ {r} : req'[x] = req[x]
    BY <2>1 DEF AdmInv, AdmTypes
  <2>4. active # r /\ queued # r
    BY <2>1 DEF AdmInv, SlotHeldUntilSettled, NoStrandedWaiter
  <2>5. \/ takes /\ ~waits /\ ~req[r].oldKey /\ req'[r].at = "held" /\ ~req'[r].oldKey
        \/ waits /\ ~takes /\ ~req[r].oldKey /\ req'[r].at = "queued" /\ ~req'[r].oldKey
        \/ ~takes /\ ~waits /\ req'[r].at = "free" /\ ~req'[r].oldKey
    BY <2>1, NoReqFields DEF AdmInv, AdmTypes
  <2>6. AdmTypes'
    BY <2>1, <2>2 DEF AdmInv, AdmTypes, CallsTyped, NoReq, Stages
  <2>7. takes => active = Nobody
    OBVIOUS
  <2>8. waits => queued = Nobody /\ active # Nobody
    OBVIOUS
  <2> HIDE DEF takes, waits, refused
  <2>9. FreeIsFresh' /\ OldKeyStopsWorking'
    BY <2>2, <2>3, <2>5 DEF AdmInv, FreeIsFresh, OldKeyStopsWorking
  <2>10. SlotHeldUntilSettled'
    BY <2>1, <2>3, <2>4, <2>5, <2>7 DEF AdmInv, SlotHeldUntilSettled
  <2>11. NoStrandedWaiter'
    BY <2>1, <2>3, <2>4, <2>5, <2>7, <2>8 DEF AdmInv, NoStrandedWaiter
  <2> QED
    BY <2>1, <2>6, <2>9, <2>10, <2>11 DEF AdmInv
<1>3. ASSUME Release(r) PROVE [GateNext]_gateVars /\ AdmInv'
  <2>1. RenewSignal(r)
    BY <1>3 DEF Release
  <2> QED
    BY <1>3, <2>1, ReleaseKeepsInv DEF GateNext
<1>4. CASE Continue(r)
  <2>0. active = r /\ (req[r].oldKey => call[r].aborted)
    BY <1>4 DEF Continue, AdmInv, SlotHeldUntilSettled, OldKeyStopsWorking
  <2>1. CASE Release(r)
    BY <1>3, <2>1
  <2>2. CASE /\ req' = [req EXCEPT ![r].at = "settled"]
             /\ UNCHANGED <<gateVars, admVars, serverVars, worldVars>>
    <3>1. CallsTyped /\ SignalsKept
      BY <2>2, StillSignals
    <3>2. "settled" \in Stages
      BY DEF Stages
    <3> QED
      BY <2>0, <2>2, <3>1, <3>2, OneMoves
  <2>3. CASE EnterExternal(r) /\ req' = [req EXCEPT ![r].at = "running"] /\ UNCHANGED admVars
    <3>1. SignalsKept
      BY <1>0, <2>3, GateKeepsSignals
    <3>2. "running" \in Stages
      BY DEF Stages
    <3>3. AdmInv'
      BY <2>0, <2>3, <3>1, <3>2, OneMoves
    <3> QED
      BY <2>3, <3>3 DEF GateNext
  <2> QED
    BY <1>4, <2>1, <2>2, <2>3 DEF Continue
<1>5. CASE Backpressure(r)
  BY <1>5, GateAlone DEF Backpressure, GateNext
<1>6. CASE EndStream(r)
  <2>1. EndExternal(r) /\ req' = [req EXCEPT ![r].at = "settled"] /\ UNCHANGED admVars
        /\ active = r
    BY <1>6 DEF EndStream, AdmInv, SlotHeldUntilSettled
  <2>2. SignalsKept
    BY <1>0, <2>1, GateKeepsSignals
  <2>3. "settled" \in Stages
    BY DEF Stages
  <2>4. AdmInv'
    BY <2>1, <2>2, <2>3, OneMoves
  <2> QED
    BY <2>1, <2>4 DEF GateNext
<1>7. CASE Answer(r)
  BY <1>3, <1>7 DEF Answer
<1>8. ASSUME req[r].at \in {"body", "queued"},
             queued' = IF queued = r THEN Nobody ELSE queued,
             req' = [req EXCEPT ![r] = NoReq],
             UNCHANGED <<gateVars, active>>
      PROVE  AdmInv'
  <2>1. CallsTyped /\ \A x \in Requests : call'[x] = call[x]
    BY <1>8, StillSignals DEF gateVars
  <2>2. /\ req'[r].at = "free" /\ ~req'[r].oldKey /\ active # r
        /\ \A x \in Requests \ {r} : req'[x] = req[x]
    BY <1>8, NoReqFields DEF AdmInv, AdmTypes, SlotHeldUntilSettled
  <2>3. AdmTypes'
    BY <1>8, <2>1 DEF AdmInv, AdmTypes, CallsTyped, NoReq, Stages
  <2>4. FreeIsFresh' /\ OldKeyStopsWorking'
    BY <2>1, <2>2 DEF AdmInv, FreeIsFresh, OldKeyStopsWorking
  <2>5. SlotHeldUntilSettled' /\ NoStrandedWaiter'
    BY <1>8, <2>2 DEF AdmInv, SlotHeldUntilSettled, NoStrandedWaiter
  <2> QED
    BY <2>3, <2>4, <2>5 DEF AdmInv
<1>9. CASE QueueTimeout(r)
  BY <1>8, <1>9 DEF QueueTimeout
<1>10. CASE ClientGone(r)
  <2>1. CASE req[r].at = "body" /\ req' = [req EXCEPT ![r] = NoReq] /\ UNCHANGED <<gateVars, admVars>>
    <3>1. queued # r
      BY <2>1 DEF AdmInv, NoStrandedWaiter
    <3> QED
      BY <1>8, <2>1, <3>1 DEF admVars
  <2>2. CASE /\ req[r].at = "queued" /\ queued = r /\ queued' = Nobody
             /\ req' = [req EXCEPT ![r] = NoReq] /\ UNCHANGED <<gateVars, active>>
    BY <1>8, <2>2
  <2>3. CASE AbortExternal({r}) /\ UNCHANGED <<admVars, req>>
    BY <2>3, GateAlone DEF GateNext
  <2> QED
    BY <1>10, <2>1, <2>2, <2>3 DEF ClientGone
<1> QED
  BY <1>1, <1>2, <1>4, <1>5, <1>6, <1>7, <1>9, <1>10 DEF Request

LEMMA RotationStep ==
  ASSUME AdmInv, CallsTyped, RotateKey
  PROVE  GateNext /\ AdmInv'
<1>0. call \in [Callers -> CallRecords] /\ AbortedReqs \in SUBSET Requests
  BY AbortSetsTyped DEF AdmInv, AdmTypes
<1>1. /\ AbortExternal(AbortedReqs) /\ queued' = Nobody /\ active' = active
      /\ req' = [r \in Requests |-> IF r \in Live \ Dropped THEN [req[r] EXCEPT !.oldKey = TRUE]
                                                           ELSE NoReq]
  BY DEF RotateKey
<1>2. SignalsKept /\ \A r \in AbortedReqs : call'[r].aborted
  BY <1>0, <1>1, GateKeepsSignals, AbortsReach
<1>3. \A r \in Requests :
         \/ req'[r].at = "free" /\ ~req'[r].oldKey /\ active # r
         \/ req'[r].at = req[r].at /\ req[r].at # "free" /\ r # queued
  <2>1. ASSUME NEW r \in Requests, r \in Live \ Dropped
        PROVE  req'[r].at = req[r].at /\ req[r].at # "free" /\ r # queued
    BY <1>1, <2>1 DEF AdmInv, AdmTypes, Live, Dropped
  <2>2. ASSUME NEW r \in Requests, r \notin Live \ Dropped
        PROVE  req'[r].at = "free" /\ ~req'[r].oldKey /\ active # r
    BY <1>1, <2>2, NoReqFields DEF AdmInv, SlotHeldUntilSettled, NoStrandedWaiter, Live, Dropped
  <2> QED
    BY <2>1, <2>2
<1>4. AdmTypes'
  BY <1>1 DEF AdmInv, AdmTypes, CallsTyped, NoReq, Stages
<1>5. FreeIsFresh'
  BY <1>3 DEF FreeIsFresh
<1>6. SlotHeldUntilSettled'
  BY <1>1, <1>3 DEF AdmInv, SlotHeldUntilSettled
<1>7. NoStrandedWaiter'
  BY <1>1, <1>3 DEF AdmInv, NoStrandedWaiter
<1>8. OldKeyStopsWorking'
  <2>1. ASSUME NEW r \in Requests, req'[r].at \in {"queued", "held", "running"}
        PROVE  r \in AbortedReqs
    BY <1>3, <2>1 DEF AdmInv, SlotHeldUntilSettled, NoStrandedWaiter, AbortedReqs
  <2> QED
    BY <1>2, <2>1 DEF OldKeyStopsWorking
<1> QED
  BY <1>0, <1>1, <1>4, <1>5, <1>6, <1>7, <1>8 DEF AdmInv, GateNext

\* The server's operations abort everybody, destroy the sockets, or do neither.
LEMMA ServerSteps ==
  ASSUME AdmInv, CallsTyped, Server
  PROVE  [GateNext]_gateVars /\ AdmInv'
<1>0. call \in [Callers -> CallRecords] /\ AbortedReqs \in SUBSET Requests
  BY AbortSetsTyped DEF AdmInv, AdmTypes
<1>1. CASE UNCHANGED <<gateVars, admVars, req>>
  BY <1>1, StillSignals, AdmissionUntouched
<1>2. CASE BeginStop
  <2>1. SignalsKept
    BY <1>0, <1>2, GateKeepsSignals DEF BeginStop
  <2> QED
    BY <1>0, <1>2, <2>1, AbortAllDropsWaiter DEF BeginStop, GateNext
<1>3. CASE /\ AbortExternal({r \in Live : req[r].at \in {"held", "running"}})
           /\ queued' = Nobody /\ active' = active
           /\ req' = FreeAll({r \in Live : req[r].at = "body"} \cup Dropped)
  <2>1. {r \in Live : req[r].at \in {"held", "running"}} \in SUBSET Requests
        /\ {r \in Live : req[r].at = "body"} \in SUBSET Requests
    BY DEF Live
  <2>2. SignalsKept
    BY <1>0, <1>3, <2>1, GateKeepsSignals
  <2>3. AdmInv'
    BY <1>3, <2>1, <2>2, WaiterDropped
  <2> QED
    BY <1>3, <2>1, <2>3 DEF GateNext
<1> QED
  BY <1>1, <1>2, <1>3 DEF Server, RunOp, Bind4, Bind6, CloseAll, Closed

LEMMA SeamSteps ==
  ASSUME AdmInv, ToggleSetting \/ ChangePort \/ BeginLock \/ LockSettles \/ Unlock
  PROVE  UNCHANGED gateVars /\ AdmInv'
<1>1. UNCHANGED <<gateVars, admVars, req>>
  BY DEF ToggleSetting, ChangePort, BeginLock, LockSettles, Unlock, Seam
<1> QED
  BY <1>1, StillSignals, AdmissionUntouched

LEMMA LocalApiStep ==
  AdmInv /\ CallsTyped /\ [Next]_vars => [GateNext]_gateVars /\ AdmInv'
<1> SUFFICES ASSUME AdmInv, CallsTyped, [Next]_vars PROVE [GateNext]_gateVars /\ AdmInv'
  OBVIOUS
<1>1. CASE UNCHANGED vars
  <2>1. UNCHANGED <<gateVars, admVars, req>>
    BY <1>1 DEF vars
  <2> QED
    BY <2>1, StillSignals, AdmissionUntouched
<1> QED
  BY <1>1, RuntimeSteps, RequestSteps, RotationStep, ServerSteps, SeamSteps DEF Next

\* What a step does at the gate, the gate allows: the signals it aborts are
\* those of requests, or of answers at a stop of the model.
LEMMA StepOfTheGate ==
  AdmInv /\ [Next]_vars => [GateNext]_gateVars
<1> SUFFICES ASSUME AdmInv, Next PROVE [GateNext]_gateVars
  BY DEF vars, gateVars
<1>0. AbortedReqs \in SUBSET Requests
  BY AbortSetsTyped
<1>1. CASE UserStopsModel \/ CrashStopsModel \/ RuntimeMoves
  <2>1. /\ \A ended \in SUBSET (Jobs \cap holding) :
             AbortedReqs \cup (Chats \cap holding) \cup ended \in SUBSET Callers
        /\ {} \in SUBSET Callers
    BY <1>0
  <2> QED
    BY <1>1, <2>1 DEF UserStopsModel, CrashStopsModel, RuntimeMoves, GateNext
<1>2. ASSUME NEW t \in Turns, TurnEnters(t) \/ TurnMoves(t) PROVE [GateNext]_gateVars
  <2>1. (IF hook THEN AbortedReqs ELSE {}) \in SUBSET Requests
    BY <1>0
  <2> QED
    BY <1>2, <2>1 DEF TurnEnters, TurnMoves, GateNext
<1>3. ASSUME NEW r \in Requests, Request(r) PROVE [GateNext]_gateVars
  <2>1. {r} \in SUBSET Requests
    OBVIOUS
  <2> QED
    BY <1>3, <2>1 DEF Request, Arrive, Admit, Continue, Release, Backpressure, EndStream,
          Answer, QueueTimeout, ClientGone, GateNext
<1>4. CASE RotateKey
  BY <1>0, <1>4 DEF RotateKey, GateNext
<1>5. CASE Server
  <2>1. {r \in Live : req[r].at \in {"held", "running"}} \in SUBSET Requests
    BY DEF Live
  <2> QED
    BY <1>0, <1>5, <2>1 DEF Server, RunOp, BeginStop, Bind4, Bind6, CloseAll, Closed, GateNext
<1>6. CASE ToggleSetting \/ ChangePort \/ BeginLock \/ LockSettles \/ Unlock
  BY <1>6, SeamSteps DEF gateVars
<1> QED
  BY <1>1, <1>2, <1>3, <1>4, <1>5, <1>6 DEF Next

-----------------------------------------------------------------------------
(* The listener. *)

Operations == {"run", "halt", "lock"}

ServerTypes == /\ ops \in Seq(Operations)
               /\ phase \in {"idle", "bind4", "bind6", "grace", "closing"}

\* The last operation in the queue is the one the setting and the workspace ask
\* for now: every seam that changes them queues one behind the others.
LastIsWanted == ops # <<>> => (ops[Len(ops)] = "run" <=> enabled /\ ws = "open")

\* What the first operation of the queue has done of itself.
PhaseOfFirst ==
    /\ phase # "idle" => ops # <<>>
    /\ phase \in {"bind4", "bind6"} => Head(ops) = "run"
    /\ phase = "bind4" => ~listening
    /\ phase = "bind6" => listening
    /\ phase \in {"grace", "closing"} => (moving <=> Head(ops) = "run")
    /\ phase = "closing" => ~listening
    /\ phase = "idle" /\ listening => hook

\* A start that is the last operation binds the port of the setting, its latch
\* down: whoever moves the one or raises the other queues behind it.
BindsAsSet == phase \in {"bind4", "bind6"} /\ (moved \/ stopping) => Len(ops) > 1

ServerInv == ServerTypes /\ LastIsWanted /\ PhaseOfFirst /\ BindsAsSet /\ ListenerFollowsTheSetting

\* An operation queued last stays behind the first.
LEMMA QueuedLast ==
  ASSUME NEW q \in Seq(Operations), NEW op \in Operations
  PROVE  /\ Append(q, op) \in Seq(Operations) /\ Append(q, op) # <<>>
         /\ Len(Append(q, op)) = Len(q) + 1 /\ Append(q, op)[Len(Append(q, op))] = op
         /\ q # <<>> => Head(Append(q, op)) = Head(q) /\ Len(Append(q, op)) > 1
<1>1. /\ Append(q, op) \in Seq(Operations) /\ Append(q, op) # <<>>
      /\ Len(Append(q, op)) = Len(q) + 1 /\ Append(q, op)[Len(Append(q, op))] = op
  OBVIOUS
<1>2. ASSUME q # <<>>
      PROVE  Head(Append(q, op)) = Head(q) /\ Len(Append(q, op)) > 1
  <2>1. Len(q) \in Nat /\ Len(q) > 0
    BY <1>2
  <2>2. 1 \in 1 .. Len(q)
    BY <2>1
  <2>3. Append(q, op)[1] = q[1]
    BY <2>2
  <2>4. Head(Append(q, op)) = Append(q, op)[1] /\ Head(q) = q[1]
    BY <1>1, <1>2
  <2> QED
    BY <1>1, <2>1, <2>3, <2>4
<1> QED
  BY <1>1, <1>2

\* A settled operation leaves the last one last, or was it.
LEMMA FirstSettled ==
  ASSUME NEW q \in Seq(Operations), q # <<>>
  PROVE  /\ Tail(q) \in Seq(Operations) /\ Head(q) \in Operations
         /\ Tail(q) # <<>> => Tail(q)[Len(Tail(q))] = q[Len(q)]
         /\ Tail(q) = <<>> => q[Len(q)] = Head(q) /\ Len(q) = 1
<1>1. Len(q) \in Nat /\ Len(q) > 0 /\ Tail(q) \in Seq(Operations) /\ Len(Tail(q)) = Len(q) - 1
  OBVIOUS
<1>2. ASSUME Tail(q) = <<>>
      PROVE  Len(q) = 1
  <2>1. \A t \in Seq(Operations) : t = <<>> => Len(t) = 0
    OBVIOUS
  <2>2. \A n \in Nat : 0 = n - 1 => n = 1
    OBVIOUS
  <2>3. Len(Tail(q)) = 0
    BY <1>1, <1>2, <2>1, Zenon
  <2> QED
    BY <1>1, <2>2, <2>3, Zenon
<1>3. Tail(q) # <<>> => Len(Tail(q)) \in 1 .. Len(Tail(q))
  BY <1>1
<1>4. \A i \in 1 .. Len(Tail(q)) : Tail(q)[i] = q[i + 1]
  BY <1>1
<1> QED
  BY <1>1, <1>2, <1>3, <1>4

\* At the start nothing is queued and nothing listens.
LEMMA ServerInit == Init => ServerInv
BY DEF Init, ServerInv, ServerTypes, LastIsWanted, PhaseOfFirst, BindsAsSet,
       ListenerFollowsTheSetting, Operations

\* Requests, answers, the model and the access key leave the server alone.
LEMMA ServerAlone ==
  ASSUME ServerInv, UNCHANGED <<serverVars, worldVars>>
  PROVE  ServerInv'
BY DEF ServerInv, ServerTypes, LastIsWanted, PhaseOfFirst, BindsAsSet, ListenerFollowsTheSetting,
       serverVars, worldVars

\* A seam queues what is wanted from then on.
LEMMA SeamQueues ==
  ASSUME ServerInv, ToggleSetting \/ ChangePort \/ BeginLock \/ LockSettles \/ Unlock
  PROVE  ServerInv'
<1>1. ASSUME NEW op \in Operations, Enqueue(op), Seam, op = "run" <=> enabled' /\ ws' = "open"
      PROVE  ServerInv'
  <2>1. /\ ops \in Seq(Operations) /\ ops' = Append(ops, op)
        /\ UNCHANGED <<phase, moving, listening, hook>>
    BY <1>1 DEF Enqueue, Seam, ServerInv, ServerTypes
  <2>2. /\ ops' \in Seq(Operations) /\ ops' # <<>> /\ ops'[Len(ops')] = op
        /\ ops # <<>> => Head(ops') = Head(ops) /\ Len(ops') > 1
    BY <2>1, QueuedLast
  <2>3. ServerTypes' /\ LastIsWanted'
    BY <1>1, <2>1, <2>2 DEF ServerInv, ServerTypes, LastIsWanted
  <2>4. PhaseOfFirst' /\ BindsAsSet'
    BY <2>1, <2>2 DEF ServerInv, PhaseOfFirst, BindsAsSet
  <2>5. ListenerFollowsTheSetting'
    BY <2>2 DEF ListenerFollowsTheSetting
  <2> QED
    BY <2>3, <2>4, <2>5 DEF ServerInv
<1>2. CASE ToggleSetting
  BY <1>1, <1>2 DEF ToggleSetting, Wanted, Operations
<1>3. CASE ChangePort
  BY <1>1, <1>3 DEF ChangePort, Wanted, Operations, worldVars
<1>4. CASE BeginLock
  BY <1>1, <1>4 DEF BeginLock, Operations
<1>5. CASE LockSettles /\ ws' = "open"
  BY <1>1, <1>5 DEF LockSettles, Wanted, Operations
<1>6. CASE LockSettles /\ ws' = "locked"
  BY <1>6 DEF LockSettles, Seam, ServerInv, ServerTypes, LastIsWanted, PhaseOfFirst, BindsAsSet,
     ListenerFollowsTheSetting
<1>7. CASE Unlock
  BY <1>1, <1>7 DEF Unlock, Wanted, Operations
<1>8. LockSettles => ws' \in {"open", "locked"}
  BY DEF LockSettles
<1> QED
  BY <1>2, <1>3, <1>4, <1>5, <1>6, <1>7, <1>8

\* An operation of the server brings the listener where it was asked to.
LEMMA ServerMoves ==
  ASSUME ServerInv, Server
  PROVE  ServerInv'
<1> USE DEF ServerInv, ServerTypes, LastIsWanted, PhaseOfFirst, BindsAsSet
<1>1. ASSUME ops # <<>>, OpDone, UNCHANGED <<enabled, ws>>, listening' => hook',
             Len(ops) = 1 =>
               IF Head(ops) = "run" THEN /\ listening' => ~moved' /\ ~stopping'
                                         /\ listening' \/ failed'
               ELSE ~listening'
      PROVE  ServerInv'
  <2>1. /\ ops' = Tail(ops) /\ phase' = "idle"
        /\ ops' \in Seq(Operations)
        /\ ops' # <<>> => ops'[Len(ops')] = ops[Len(ops)]
        /\ ops' = <<>> => ops[Len(ops)] = Head(ops) /\ Len(ops) = 1
    BY <1>1, FirstSettled DEF OpDone
  <2>2. ServerTypes' /\ LastIsWanted' /\ PhaseOfFirst' /\ BindsAsSet'
    BY <1>1, <2>1
  <2>3. ListenerFollowsTheSetting'
    BY <1>1, <2>1 DEF ListenerFollowsTheSetting
  <2> QED
    BY <2>2, <2>3
<1>2. ASSUME ops # <<>>, UNCHANGED <<ops, enabled, ws>>, phase' # "idle",
             phase' \in {"idle", "bind4", "bind6", "grace", "closing"},
             PhaseOfFirst', BindsAsSet'
      PROVE  ServerInv'
  BY <1>2 DEF ListenerFollowsTheSetting
<1>3. CASE RunOp
  <2>1. CASE /\ Head(ops) = "run" /\ listening /\ ~moved /\ stopping' = FALSE /\ OpDone
             /\ UNCHANGED <<listening, hook, moved, enabled, ws>>
    BY <1>1, <1>3, <2>1 DEF RunOp
  <2>2. CASE /\ Head(ops) = "run" /\ ~listening /\ StartBinding
             /\ UNCHANGED <<ops, listening, hook, worldVars>>
    BY <1>2, <1>3, <2>2 DEF RunOp, StartBinding, worldVars
  <2>3. CASE BeginStop /\ moving' = (Head(ops) = "run")
    BY <1>2, <1>3, <2>3 DEF RunOp, BeginStop, worldVars
  <2> QED
    BY <1>3, <2>1, <2>2, <2>3 DEF RunOp
<1>4. CASE Bind4
  <2>1. CASE listening' = TRUE /\ phase' = "bind6" /\ UNCHANGED ops
    BY <1>2, <1>4, <2>1 DEF Bind4
  <2>2. CASE failed' = TRUE /\ OpDone /\ UNCHANGED listening
    BY <1>1, <1>4, <2>2 DEF Bind4
  <2> QED
    BY <1>4, <2>1, <2>2 DEF Bind4
<1>5. CASE Bind6
  <2>1. CASE hook' = TRUE /\ OpDone /\ UNCHANGED listening
    BY <1>1, <1>5, <2>1 DEF Bind6
  <2>2. CASE listening' = FALSE /\ failed' = TRUE /\ OpDone
    BY <1>1, <1>5, <2>2 DEF Bind6
  <2> QED
    BY <1>5, <2>1, <2>2 DEF Bind6
<1>6. CASE CloseAll
  BY <1>2, <1>6 DEF CloseAll, worldVars
<1>7. CASE Closed
  <2>1. CASE moving
    BY <1>2, <1>7, <2>1 DEF Closed, StartBinding
  <2>2. CASE ~moving
    BY <1>1, <1>7, <2>2 DEF Closed
  <2> QED
    BY <2>1, <2>2
<1> QED
  BY <1>3, <1>4, <1>5, <1>6, <1>7 DEF Server

\* Every step keeps the server in order.
LEMMA ServerNext == ServerInv /\ [Next]_vars => ServerInv'
<1> SUFFICES ASSUME ServerInv, [Next]_vars PROVE ServerInv'
  OBVIOUS
<1>1. CASE UserStopsModel \/ CrashStopsModel \/ RuntimeMoves
  BY <1>1, ServerAlone DEF UserStopsModel, CrashStopsModel, RuntimeMoves
<1>2. ASSUME NEW t \in Turns, TurnEnters(t) \/ TurnMoves(t) PROVE ServerInv'
  BY <1>2, ServerAlone DEF TurnEnters, TurnMoves
<1>3. ASSUME NEW r \in Requests, Request(r) PROVE ServerInv'
  BY <1>3, ServerAlone DEF Request, Arrive, Admit, Continue, Release, Backpressure, EndStream,
     Answer, QueueTimeout, ClientGone
<1>4. CASE RotateKey
  BY <1>4, ServerAlone DEF RotateKey
<1>5. CASE UNCHANGED vars
  BY <1>5, ServerAlone DEF vars
<1> QED
  BY <1>1, <1>2, <1>3, <1>4, <1>5, ServerMoves, SeamQueues DEF Next

-----------------------------------------------------------------------------
(* Flags. *)

FlagTypes == /\ ws \in {"open", "locking", "locked"}
             /\ moving \in BOOLEAN /\ listening \in BOOLEAN /\ hook \in BOOLEAN
             /\ stopping \in BOOLEAN /\ failed \in BOOLEAN /\ moved \in BOOLEAN
             /\ enabled \in BOOLEAN /\ lockWaits \in BOOLEAN

\* Every step sets a flag or leaves it alone.
LEMMA FlagsNext == FlagTypes /\ [Next]_vars => FlagTypes'
<1> SUFFICES ASSUME FlagTypes, [Next]_vars PROVE FlagTypes'
  OBVIOUS
<1> USE DEF FlagTypes, serverVars, worldVars
<1>1. CASE UNCHANGED <<serverVars, worldVars>>
  BY <1>1
<1>2. CASE UserStopsModel \/ CrashStopsModel \/ RuntimeMoves \/ RotateKey
  BY <1>2, <1>1 DEF UserStopsModel, CrashStopsModel, RuntimeMoves, RotateKey
<1>3. ASSUME NEW t \in Turns, TurnEnters(t) \/ TurnMoves(t) PROVE FlagTypes'
  BY <1>3, <1>1 DEF TurnEnters, TurnMoves
<1>4. ASSUME NEW r \in Requests, Request(r) PROVE FlagTypes'
  BY <1>4, <1>1 DEF Request, Arrive, Admit, Continue, Release, Backpressure, EndStream, Answer,
     QueueTimeout, ClientGone
<1>5. CASE RunOp
  BY <1>5 DEF RunOp, OpDone, StartBinding, BeginStop
<1>6. CASE Bind4 \/ Bind6
  BY <1>6 DEF Bind4, Bind6, OpDone
<1>7. CASE CloseAll \/ Closed
  BY <1>7 DEF CloseAll, Closed, OpDone, StartBinding
<1>8. CASE ToggleSetting \/ ChangePort \/ BeginLock \/ LockSettles \/ Unlock
  BY <1>8 DEF ToggleSetting, ChangePort, BeginLock, LockSettles, Unlock, Enqueue, Seam
<1>9. CASE UNCHANGED vars
  BY <1>9, <1>1 DEF vars
<1> QED
  BY <1>2, <1>3, <1>4, <1>5, <1>6, <1>7, <1>8, <1>9 DEF Next, Server

-----------------------------------------------------------------------------
(* The invariant, and what follows from it. *)

\* The local API is a client the gate allows, and its admission stays in order.
THEOREM LocalApiUsesTheGate == Spec => [](GateInv /\ AdmInv)
<1>1. Init => GateInv /\ AdmInv
  BY GateInitInv, InitAdmInv DEF Init
<1>2. (GateInv /\ AdmInv) /\ [Next]_vars => (GateInv /\ AdmInv)'
  <2> SUFFICES ASSUME GateInv, AdmInv, [Next]_vars PROVE GateInv' /\ AdmInv'
    OBVIOUS
  <2>1. GateInv'
    BY StepOfTheGate, GateStep
  <2>2. CallsTyped
    BY <2>1, CallTypeKept DEF GateInv
  <2> QED
    BY <2>1, <2>2, LocalApiStep
<1> QED
  BY <1>1, <1>2, PTL DEF Spec

\* The composition implements the gate on its own: what the gate promises its
\* callers it promises the local API.
THEOREM LocalApiImplementsGate == Spec => GateSpec
<1>1. Init => GateInit
  BY DEF Init
<1>2. (GateInv /\ AdmInv) /\ [Next]_vars => [GateNext]_gateVars
  BY StepOfTheGate
<1> QED
  BY <1>1, <1>2, LocalApiUsesTheGate, PTL DEF Spec, GateSpec

\* The lanes count the streams of the present runtime (gatedChatStream, with
\* resetGenerationGate and its epoch), with the local API among the callers.
THEOREM LanesCountLiveStreams == Spec => []LaneCountsLiveStreams
<1>1. GateInv => LaneCountsLiveStreams
  BY GateInvMeans
<1> QED
  BY <1>1, LocalApiUsesTheGate, PTL

\* No answer streams beside an outside request before it has waited the
\* teardown bound (EXTERNAL_TEARDOWN_TIMEOUT_MS).
THEOREM AnswersWaitTheirTurn == Spec => []InAppWaitsItsTurn
<1>1. GateInv => InAppWaitsItsTurn
  BY GateInvMeans
<1> QED
  BY <1>1, LocalApiUsesTheGate, PTL

\* The slot is held until the stream of its holder has settled (releaseRecord
\* is called in the finally of runCompletion and nowhere before).
THEOREM SlotIsHeld == Spec => []SlotHeldUntilSettled
<1>1. AdmInv => SlotHeldUntilSettled
  BY DEF AdmInv
<1> QED
  BY <1>1, LocalApiUsesTheGate, PTL

\* A waiter waits behind a holder, and is the request its record names
\* (tryAdmit, abortAll, the queue's timer and the release).
THEOREM NobodyIsStranded == Spec => []NoStrandedWaiter
<1>1. AdmInv => NoStrandedWaiter
  BY DEF AdmInv
<1> QED
  BY <1>1, LocalApiUsesTheGate, PTL

\* A replaced access key ends what came in with the old one
\* (localApiRegenerateToken, and the second check after the body).
THEOREM OldKeysStopWorking == Spec => []OldKeyStopsWorking
<1>1. AdmInv => OldKeyStopsWorking
  BY DEF AdmInv
<1> QED
  BY <1>1, LocalApiUsesTheGate, PTL

\* Once the server's operations have settled the listener is where the setting
\* and the workspace want it (applySettings, doStart and doStop behind the queue
\* of LocalApiServer, and the seams of lifecycle.ts).
THEOREM ListenerFollows == Spec => []ListenerFollowsTheSetting
<1>1. ServerInv => ListenerFollowsTheSetting
  BY DEF ServerInv
<1> QED
  BY <1>1, ServerInit, ServerNext, PTL DEF Spec

\* Every variable of the local API and of the gate under it keeps its type.
THEOREM LocalApiTypes == Spec => []TypeOK
<1>1. Init => FlagTypes
  BY DEF Init, FlagTypes
<1>2. GateInv /\ AdmInv /\ ServerInv /\ FlagTypes => TypeOK
  BY DEF GateInv, AdmInv, AdmTypes, ServerInv, ServerTypes, Operations, FlagTypes, TypeOK
<1> QED
  BY <1>1, <1>2, FlagsNext, ServerInit, ServerNext, LocalApiUsesTheGate, PTL DEF Spec
=============================================================================
