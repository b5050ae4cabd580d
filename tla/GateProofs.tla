----------------------------- MODULE GateProofs -----------------------------
(***************************************************************************)
(* What the generation gate guarantees for any number of callers: its lane *)
(* counts are the streams of the present runtime, its external lane is one *)
(* slot, and no answer streams beside an outside request before it has     *)
(* waited the teardown bound.                                              *)
(*                                                                         *)
(* The last is not inductive.  An answer that was woken will stream later, *)
(* so it must already have nobody beside it (NobodyBeside); and an outside *)
(* request is refused because the answer is counted, which is why the      *)
(* counts come first.                                                      *)
(***************************************************************************)
EXTENDS GenerationGate, FiniteSetTheorems, TLAPS

\* An in-app caller inside the gate has resolved the runtime.
EnteredByHolders == \A t \in Turns : InGate(t) => t \in holding

\* The answers that stream, or will when they run next, on their own.
GoesOn(t) == \/ call[t].at = "pulling"
             \/ call[t].at = "woken" /\ ~call[t].aborted
NobodyBeside ==
    \A t \in Turns, r \in Requests :
        t \in Counted("inApp") /\ GoesOn(t) /\ r \in Counted("external") => call[t].late

GateInv == /\ GateTypeOK /\ EnteredByHolders
           /\ LaneCountsLiveStreams /\ OneExternalStream /\ NobodyBeside

USE CallersAssumption DEF Turns, Callers, Lanes, Places, LaneOf, InGate

CallRecords == [at : Places, fresh : BOOLEAN, aborted : BOOLEAN, late : BOOLEAN]
Streams(x) == call[x].at # "out" /\ call[x].fresh

\* What a step does to a caller it neither counts nor uncounts.
StaysInPlace(x) ==
    /\ Streams(x)' = Streams(x)
    /\ InGate(x)' = InGate(x)
    /\ x \in Turns /\ GoesOn(x)'
           => (GoesOn(x) /\ call'[x].late = call[x].late) \/ call'[x].late

-----------------------------------------------------------------------------
(* Types. *)

LEMMA NoCallType == NoCall \in CallRecords
BY DEF NoCall, CallRecords

LEMMA HelperTypes ==
  ASSUME NEW c \in [Callers -> CallRecords], NEW S
  PROVE  /\ Aborted(c, S) \in [Callers -> CallRecords]
         /\ Stopped(c, S) \in [Callers -> CallRecords]
         /\ Flushed(c) \in [Callers -> CallRecords]
         /\ \A x \in Callers : Left(c, x) \in [Callers -> CallRecords]
<1>1. \A y \in Callers : c[y] \in CallRecords
  OBVIOUS
<1>2. Aborted(c, S) \in [Callers -> CallRecords]
  BY <1>1 DEF Aborted, CallRecords
<1>3. Stopped(c, S) \in [Callers -> CallRecords]
  <2>1. \A y \in Callers : (IF c[y].at = "waiting" THEN "woken" ELSE c[y].at) \in Places
    BY <1>1 DEF CallRecords
  <2> QED
    BY <1>1, <2>1 DEF Stopped, CallRecords
<1>4. Flushed(c) \in [Callers -> CallRecords]
  BY <1>1 DEF Flushed, CallRecords
<1>5. ASSUME NEW x \in Callers PROVE Left(c, x) \in [Callers -> CallRecords]
  BY <1>1 DEF Left, CallRecords
<1> QED
  BY <1>2, <1>3, <1>4, <1>5

-----------------------------------------------------------------------------
(* The sets the lanes count. *)

LEMMA CountedFinite ==
  ASSUME NEW l \in Lanes
  PROVE  IsFiniteSet(Counted(l)) /\ Cardinality(Counted(l)) \in Nat
<1>1. IsFiniteSet(Callers)
  <2>1. IsFiniteSet(Chats \cup Jobs)
    BY FS_Union
  <2> QED
    BY <2>1, FS_Union
<1>2. Counted(l) \in SUBSET Callers
  BY DEF Counted
<1> QED
  BY <1>1, <1>2, FS_Subset, FS_CardinalityType

\* A lane's count follows its set when the step adds, removes or keeps its
\* members one by one.
LEMMA CountsKeep ==
  ASSUME LaneCountsLiveStreams, lane' = lane,
         \A x \in Callers : Streams(x)' = Streams(x)
  PROVE  /\ LaneCountsLiveStreams'
         /\ \A l \in Lanes : Counted(l)' = Counted(l)
<1>1. \A l \in Lanes : Counted(l)' = Counted(l)
  BY DEF Counted, Streams
<1> QED
  BY <1>1 DEF LaneCountsLiveStreams

LEMMA CountsGrow ==
  ASSUME GateTypeOK, LaneCountsLiveStreams, NEW x \in Callers, ~Streams(x), Streams(x)',
         lane' = [lane EXCEPT ![LaneOf(x)] = @ + 1],
         \A y \in Callers \ {x} : Streams(y)' = Streams(y)
  PROVE  /\ LaneCountsLiveStreams'
         /\ Counted(LaneOf(x))' = Counted(LaneOf(x)) \cup {x}
         /\ \A l \in Lanes \ {LaneOf(x)} : Counted(l)' = Counted(l)
<1>1. Counted(LaneOf(x))' = Counted(LaneOf(x)) \cup {x}
  BY DEF Counted, Streams
<1>2. \A l \in Lanes \ {LaneOf(x)} : Counted(l)' = Counted(l)
  BY DEF Counted, Streams
<1>3. x \notin Counted(LaneOf(x))
  BY DEF Counted, Streams
<1>4. Cardinality(Counted(LaneOf(x))') = Cardinality(Counted(LaneOf(x))) + 1
  BY <1>1, <1>3, CountedFinite, FS_AddElement
<1>5. ASSUME NEW l \in Lanes PROVE lane'[l] = Cardinality(Counted(l)')
  BY <1>2, <1>4 DEF LaneCountsLiveStreams, GateTypeOK
<1> QED
  BY <1>1, <1>2, <1>5 DEF LaneCountsLiveStreams

LEMMA CountsShrink ==
  ASSUME GateTypeOK, LaneCountsLiveStreams, NEW x \in Callers, Streams(x), ~Streams(x)',
         lane' = [lane EXCEPT ![LaneOf(x)] = @ - 1],
         \A y \in Callers \ {x} : Streams(y)' = Streams(y)
  PROVE  /\ LaneCountsLiveStreams'
         /\ lane' \in [Lanes -> Nat]
         /\ Counted(LaneOf(x))' = Counted(LaneOf(x)) \ {x}
         /\ \A l \in Lanes \ {LaneOf(x)} : Counted(l)' = Counted(l)
<1>1. Counted(LaneOf(x))' = Counted(LaneOf(x)) \ {x}
  BY DEF Counted, Streams
<1>2. \A l \in Lanes \ {LaneOf(x)} : Counted(l)' = Counted(l)
  BY DEF Counted, Streams
<1>3. x \in Counted(LaneOf(x))
  BY DEF Counted, Streams
<1>4. Cardinality(Counted(LaneOf(x))') = Cardinality(Counted(LaneOf(x))) - 1
  BY <1>1, <1>3, CountedFinite, FS_RemoveElement
<1>5. Cardinality(Counted(LaneOf(x))') \in Nat
  BY <1>1, CountedFinite, FS_RemoveElement, FS_CardinalityType
<1>6. ASSUME NEW l \in Lanes PROVE lane'[l] = Cardinality(Counted(l)') /\ lane'[l] \in Nat
  BY <1>2, <1>4, <1>5 DEF LaneCountsLiveStreams, GateTypeOK
<1>7. lane' \in [Lanes -> Nat]
  BY <1>6 DEF GateTypeOK
<1> QED
  BY <1>1, <1>2, <1>6, <1>7 DEF LaneCountsLiveStreams

-----------------------------------------------------------------------------
(* Leaving the gate and resetting it. *)

\* What LeaveGate leaves of the others: an answer that waited may be woken, and
\* only when no external stream is left.
LEMMA LeaveEffect ==
  ASSUME GateInv, NEW x \in Callers, InGate(x), LeaveGate(x)
  PROVE  /\ LaneCountsLiveStreams' /\ OneExternalStream'
         /\ lane' \in [Lanes -> Nat] /\ call' \in [Callers -> CallRecords]
         /\ \A l \in Lanes : Counted(l)' = Counted(l) \ {x}
         /\ \A y \in Callers \ {x} :
               /\ call'[y].fresh = call[y].fresh
               /\ call'[y].aborted = call[y].aborted
               /\ call'[y].late = call[y].late
               /\ \/ call'[y].at = call[y].at
                  \/ /\ call[y].at = "waiting" /\ call'[y].at = "woken"
                     /\ Counted("external")' = {}
         /\ call'[x].at = "out"
<1>0. call \in [Callers -> CallRecords] /\ lane \in [Lanes -> Nat]
  BY DEF GateInv, GateTypeOK, CallRecords
<1> DEFINE flush == call[x].fresh /\ LaneOf(x) = "external" /\ lane["external"] = 1
<1>1. call' \in [Callers -> CallRecords]
  BY <1>0, HelperTypes DEF LeaveGate
<1>2. \A y \in Callers \ {x} :
         /\ call'[y].fresh = call[y].fresh
         /\ call'[y].aborted = call[y].aborted
         /\ call'[y].late = call[y].late
         /\ \/ call'[y].at = call[y].at
            \/ call[y].at = "waiting" /\ call'[y].at = "woken" /\ flush
  BY <1>0 DEF LeaveGate, Left, Flushed, CallRecords
<1>3. call'[x].at = "out"
  BY <1>0 DEF LeaveGate, Left, Flushed, CallRecords
<1>4. ~Streams(x)' /\ \A y \in Callers \ {x} : Streams(y)' = Streams(y)
  BY <1>2, <1>3 DEF Streams
<1>5. /\ LaneCountsLiveStreams' /\ lane' \in [Lanes -> Nat]
      /\ \A l \in Lanes : Counted(l)' = Counted(l) \ {x}
  <2>1. CASE call[x].fresh
    <3>1. Streams(x) /\ lane' = [lane EXCEPT ![LaneOf(x)] = @ - 1]
      BY <2>1 DEF LeaveGate, Streams
    <3>2. \A l \in Lanes \ {LaneOf(x)} : x \notin Counted(l)
      BY DEF Counted
    <3>3. /\ LaneCountsLiveStreams' /\ lane' \in [Lanes -> Nat]
          /\ Counted(LaneOf(x))' = Counted(LaneOf(x)) \ {x}
          /\ \A l \in Lanes \ {LaneOf(x)} : Counted(l)' = Counted(l)
      <4> HIDE DEF Counted
      <4> QED
        BY <1>4, <3>1, CountsShrink DEF GateInv
    <3> HIDE DEF Counted, LaneOf
    <3>4. ASSUME NEW l \in Lanes PROVE Counted(l)' = Counted(l) \ {x}
      BY <3>2, <3>3
    <3> QED
      BY <3>3, <3>4
  <2>2. CASE ~call[x].fresh
    <3>1. ~Streams(x) /\ lane' = lane
      BY <2>2 DEF LeaveGate, Streams
    <3>2. \A l \in Lanes : x \notin Counted(l)
      BY <2>2 DEF Counted
    <3> QED
      <4>1. \A y \in Callers : Streams(y)' = Streams(y)
        BY <1>4, <3>1 DEF Streams
      <4>2. LaneCountsLiveStreams' /\ \A l \in Lanes : Counted(l)' = Counted(l)
        BY <3>1, <4>1, CountsKeep DEF GateInv
      <4>3. ASSUME NEW l \in Lanes PROVE Counted(l)' = Counted(l) \ {x}
        BY <3>2, <4>2
      <4> QED
        BY <1>0, <3>1, <4>2, <4>3
  <2> QED
    BY <2>1, <2>2
<1>6. OneExternalStream'
  BY <1>0, <1>5 DEF OneExternalStream, GateInv, LeaveGate
<1>7. flush => Counted("external")' = {}
  <2> SUFFICES ASSUME flush PROVE Counted("external")' = {}
    OBVIOUS
  <2>1. lane'["external"] = 0
    BY <1>0 DEF LeaveGate
  <2>2. Cardinality(Counted("external")') = 0
    BY <1>5, <2>1 DEF LaneCountsLiveStreams
  <2>3. IsFiniteSet(Counted("external")')
    BY <1>5, CountedFinite, FS_RemoveElement
  <2> QED
    BY <2>2, <2>3, FS_EmptySet
<1> QED
  BY <1>1, <1>2, <1>3, <1>5, <1>6, <1>7

\* After a reset no lane counts anything.
LEMMA ResetEffect ==
  ASSUME GateTypeOK, ResetGate
  PROVE  /\ lane' \in [Lanes -> Nat] /\ call' \in [Callers -> CallRecords]
         /\ LaneCountsLiveStreams' /\ OneExternalStream'
         /\ \A l \in Lanes : Counted(l)' = {}
         /\ \A x \in Callers : call'[x].at = "out" <=> call[x].at = "out"
<1>0. call \in [Callers -> CallRecords]
  BY DEF GateTypeOK, CallRecords
<1>1. \A x \in Callers : /\ call'[x] \in CallRecords
                         /\ ~call'[x].fresh
                         /\ call'[x].at = "out" <=> call[x].at = "out"
  BY ZenonT(40), <1>0 DEF ResetGate, Flushed, CallRecords
<1>2. \A l \in Lanes : Counted(l)' = {}
  BY <1>1 DEF Counted
<1>3. lane' = [l \in Lanes |-> 0]
  BY DEF ResetGate
<1>4. call' \in [Callers -> CallRecords]
  BY <1>0, <1>1 DEF ResetGate, Flushed
<1>5. LaneCountsLiveStreams'
  BY <1>2, <1>3, FS_EmptySet DEF LaneCountsLiveStreams
<1> QED
  BY <1>1, <1>2, <1>3, <1>4, <1>5 DEF OneExternalStream

-----------------------------------------------------------------------------
(* The invariant. *)

LEMMA GateInitInv == GateInit => GateInv
<1> SUFFICES ASSUME GateInit PROVE GateInv
  OBVIOUS
<1>1. GateTypeOK
  BY DEF GateInit, GateTypeOK, NoCall
<1>2. \A l \in Lanes : Counted(l) = {}
  BY DEF GateInit, Counted, NoCall
<1>3. LaneCountsLiveStreams
  BY <1>2, FS_EmptySet DEF LaneCountsLiveStreams, GateInit
<1>4. EnteredByHolders
  BY DEF GateInit, EnteredByHolders, NoCall
<1>5. OneExternalStream
  BY DEF GateInit, OneExternalStream
<1>6. NobodyBeside
  BY <1>2 DEF NobodyBeside
<1> QED
  BY <1>1, <1>3, <1>4, <1>5, <1>6 DEF GateInv

\* A step that adds no external stream, and lets no answer go on that did not
\* already or that has not waited its bound out.
LEMMA BesideKept ==
  ASSUME NobodyBeside,
         Counted("external")' \subseteq Counted("external"),
         \A t \in Turns :
             (t \in Counted("inApp") /\ GoesOn(t))' =>
                 \/ /\ t \in Counted("inApp") /\ GoesOn(t)
                    /\ call'[t].late = call[t].late
                 \/ call'[t].late
                 \/ Counted("external")' = {}
  PROVE  NobodyBeside'
BY DEF NobodyBeside

\* A step that ends a call: of the others it can only wake those that wait.
LEMMA LeaveKeepsInv ==
  ASSUME GateInv, NEW x \in Callers, InGate(x), LeaveGate(x),
         UNCHANGED <<model, holding>>
  PROVE  GateInv'
<1>1. /\ LaneCountsLiveStreams' /\ OneExternalStream'
      /\ lane' \in [Lanes -> Nat] /\ call' \in [Callers -> CallRecords]
      /\ \A l \in Lanes : Counted(l)' = Counted(l) \ {x}
      /\ \A y \in Callers \ {x} :
            /\ call'[y].fresh = call[y].fresh
            /\ call'[y].aborted = call[y].aborted
            /\ call'[y].late = call[y].late
            /\ \/ call'[y].at = call[y].at
               \/ /\ call[y].at = "waiting" /\ call'[y].at = "woken"
                  /\ Counted("external")' = {}
      /\ call'[x].at = "out"
  <2> HIDE DEF Turns, Callers, Lanes, Places, LaneOf, InGate
  <2> QED
    BY LeaveEffect
<1>2. GateTypeOK'
  BY <1>1 DEF GateInv, GateTypeOK, CallRecords
<1>3. EnteredByHolders'
  BY <1>1 DEF GateInv, EnteredByHolders
<1>4. NobodyBeside'
  <2>1. ASSUME NEW t \in Turns, (t \in Counted("inApp") /\ GoesOn(t))'
        PROVE  \/ /\ t \in Counted("inApp") /\ GoesOn(t)
                  /\ call'[t].late = call[t].late
               \/ Counted("external")' = {}
    BY <1>1, <2>1 DEF GoesOn
  <2>2. Counted("external")' \subseteq Counted("external")
    BY <1>1
  <2> QED
    BY <2>1, <2>2, BesideKept DEF GateInv
<1> QED
  BY <1>1, <1>2, <1>3, <1>4 DEF GateInv

LEMMA ResetKeepsInv ==
  ASSUME GateInv, ResetGate, UNCHANGED holding,
         model' \in {"none", "loading", "up", "dying"}
  PROVE  GateInv'
<1>1. /\ lane' \in [Lanes -> Nat] /\ call' \in [Callers -> CallRecords]
      /\ LaneCountsLiveStreams' /\ OneExternalStream'
      /\ \A l \in Lanes : Counted(l)' = {}
      /\ \A x \in Callers : call'[x].at = "out" <=> call[x].at = "out"
  BY ResetEffect DEF GateInv
<1>2. GateTypeOK'
  BY <1>1 DEF GateInv, GateTypeOK, CallRecords
<1>3. EnteredByHolders'
  BY <1>1 DEF GateInv, EnteredByHolders
<1>4. NobodyBeside'
  BY <1>1 DEF NobodyBeside
<1> QED
  BY SMTT(30), <1>1, <1>2, <1>3, <1>4 DEF GateInv

\* A step that leaves everybody in place, or wakes an answer whose wait is
\* over because it was aborted or because it is late.
LEMMA InPlaceKeepsInv ==
  ASSUME GateInv, UNCHANGED lane, call' \in [Callers -> CallRecords],
         model' \in {"none", "loading", "up", "dying"},
         holding' \in SUBSET Turns,
         \A t \in Turns : InGate(t) => t \in holding',
         \A x \in Callers : StaysInPlace(x)
  PROVE  GateInv'
<1>1. LaneCountsLiveStreams' /\ \A l \in Lanes : Counted(l)' = Counted(l)
  BY SMTT(30), CountsKeep DEF GateInv, StaysInPlace
<1>2. GateTypeOK'
  BY DEF GateInv, GateTypeOK, CallRecords
<1>3. EnteredByHolders'
  BY DEF EnteredByHolders, StaysInPlace
<1>4. OneExternalStream'
  BY DEF GateInv, OneExternalStream
<1>5. NobodyBeside'
  <2>1. ASSUME NEW t \in Turns, (t \in Counted("inApp") /\ GoesOn(t))'
        PROVE  \/ /\ t \in Counted("inApp") /\ GoesOn(t)
                  /\ call'[t].late = call[t].late
               \/ call'[t].late
    BY <1>1, <2>1 DEF StaysInPlace
  <2> QED
    BY <1>1, <2>1, BesideKept DEF GateInv
<1> QED
  BY <1>1, <1>2, <1>3, <1>4, <1>5 DEF GateInv

LEMMA GateStep == GateInv /\ [GateNext]_gateVars => GateInv'
<1> SUFFICES ASSUME GateInv, [GateNext]_gateVars PROVE GateInv'
  OBVIOUS
<1>0. /\ call \in [Callers -> CallRecords] /\ lane \in [Lanes -> Nat]
      /\ holding \subseteq Turns
      /\ model \in {"none", "loading", "up", "dying"}
      /\ \A t \in Turns : InGate(t) => t \in holding
      /\ \A x \in Callers : call[x] \in CallRecords
  BY DEF GateInv, GateTypeOK, EnteredByHolders, CallRecords
<1>1. ASSUME NEW ended \in SUBSET Callers, StopModel(ended) PROVE GateInv'
  <2>1. call' = Stopped(call, ended) /\ UNCHANGED <<lane, holding>> /\ model' = "dying"
    BY <1>1 DEF StopModel
  <2>2. call' \in [Callers -> CallRecords]
    BY <1>0, <2>1, HelperTypes
  <2>3. \A x \in Callers : StaysInPlace(x)
    BY ZenonT(40), <1>0, <2>1 DEF Stopped, StaysInPlace, Streams, GoesOn, CallRecords
  <2> QED
    BY <1>0, <2>1, <2>2, <2>3, InPlaceKeepsInv
<1>2. ASSUME KillSettles \/ LoadBegins PROVE GateInv'
  BY <1>2, ResetKeepsInv DEF KillSettles, LoadBegins
<1>3. ASSUME LoadEnds PROVE GateInv'
  <2>1. model' \in {"none", "loading", "up", "dying"} /\ UNCHANGED <<lane, call, holding>>
    BY <1>3 DEF LoadEnds
  <2> QED
    BY <1>0, <2>1, InPlaceKeepsInv DEF StaysInPlace, Streams, GoesOn
<1>4. ASSUME NEW t \in Turns, Prepare(t) \/ Finish(t) PROVE GateInv'
  <2>1. call' = [call EXCEPT ![t] = NoCall] /\ UNCHANGED <<model, lane>> /\ ~InGate(t)
    BY <1>0, <1>4 DEF Prepare, Finish
  <2>2. call' \in [Callers -> CallRecords]
    BY <1>0, <2>1, NoCallType
  <2>3. holding' \in SUBSET Turns /\ \A u \in Turns \ {t} : u \in holding => u \in holding'
    BY <1>0, <1>4 DEF Prepare, Finish
  <2>4. \A x \in Callers : StaysInPlace(x)
    BY <1>0, <2>1 DEF NoCall, StaysInPlace, Streams, GoesOn, CallRecords
  <2> QED
    BY <1>0, <2>1, <2>2, <2>3, <2>4, InPlaceKeepsInv
<1>5. ASSUME NEW t \in Turns, TeardownBound(t) PROVE GateInv'
  <2>1. call' = [call EXCEPT ![t] = [@ EXCEPT !.at = "woken", !.late = TRUE]]
        /\ UNCHANGED <<model, lane, holding>> /\ call[t].at = "waiting"
    BY <1>5 DEF TeardownBound
  <2>2. call' \in [Callers -> CallRecords]
    BY ZenonT(40), <1>0, <2>1 DEF CallRecords
  <2>3. \A x \in Callers : StaysInPlace(x)
    BY ZenonT(40), <1>0, <2>1 DEF StaysInPlace, Streams, GoesOn, CallRecords
  <2> QED
    BY <1>0, <2>1, <2>2, <2>3, InPlaceKeepsInv
<1>6. ASSUME NEW t \in Turns, Resume(t) PROVE GateInv'
  <2>1. CASE call[t].aborted
    BY <1>6, <2>1, LeaveKeepsInv DEF Resume
  <2>2. CASE ~call[t].aborted
    <3>1. call' = [call EXCEPT ![t].at = "pulling"] /\ UNCHANGED <<model, lane, holding>>
          /\ call[t].at = "woken"
      BY <1>6, <2>2 DEF Resume
    <3>2. call' \in [Callers -> CallRecords]
      BY <1>0, <3>1 DEF CallRecords
    <3>3. \A x \in Callers : StaysInPlace(x)
      BY <1>0, <2>2, <3>1 DEF StaysInPlace, Streams, GoesOn, CallRecords
    <3> QED
      BY <1>0, <3>1, <3>2, <3>3, InPlaceKeepsInv
  <2> QED
    BY <2>1, <2>2
<1>7. ASSUME NEW t \in Turns, EndInApp(t) PROVE GateInv'
  BY <1>7, LeaveKeepsInv DEF EndInApp
<1>8. ASSUME NEW t \in Turns, StopTurn(t) PROVE GateInv'
  <2>1. call' = Stopped(call, {t}) /\ UNCHANGED <<model, lane, holding>>
    BY <1>8 DEF StopTurn
  <2>2. call' \in [Callers -> CallRecords]
    BY <1>0, <2>1, HelperTypes
  <2>3. \A x \in Callers : StaysInPlace(x)
    BY ZenonT(40), <1>0, <2>1 DEF Stopped, StaysInPlace, Streams, GoesOn, CallRecords
  <2> QED
    BY <1>0, <2>1, <2>2, <2>3, InPlaceKeepsInv
<1>9. ASSUME NEW t \in Turns, NEW ended \in SUBSET Requests, EnterInApp(t, ended)
      PROVE GateInv'
  <2>1. /\ t \in holding /\ ~InGate(t) /\ UNCHANGED <<model, holding>>
        /\ lane' = [lane EXCEPT !["inApp"] = @ + 1]
    BY <1>9 DEF EnterInApp
  <2>2. \A x \in Callers :
           /\ call'[x] \in CallRecords
           /\ x # t => /\ call'[x].at = call[x].at
                       /\ call'[x].fresh = call[x].fresh
                       /\ call'[x].late = call[x].late
           /\ x \in Turns /\ x # t => call'[x].aborted = call[x].aborted
    <3>1. \E entered \in [Callers -> CallRecords] :
             /\ \A x \in Callers : x # t => entered[x] = call[x]
             /\ call' = Aborted(entered, ended)
      <4> DEFINE place == IF lane["external"] > 0 THEN "waiting" ELSE "pulling"
                 entered == [call EXCEPT ![t] = [@ EXCEPT !.at = place, !.fresh = TRUE]]
      <4>1. call[t] \in CallRecords /\ place \in Places
        BY <1>0
      <4>2. [call[t] EXCEPT !.at = place, !.fresh = TRUE] \in CallRecords
        BY <4>1 DEF CallRecords
      <4>3. entered \in [Callers -> CallRecords]
        BY <1>0, <4>2
      <4>4. call' = Aborted(entered, ended)
        BY <1>9 DEF EnterInApp
      <4> QED
        BY <4>3, <4>4
    <3>2. PICK entered \in [Callers -> CallRecords] :
             /\ \A x \in Callers : x # t => entered[x] = call[x]
             /\ call' = Aborted(entered, ended)
      BY <3>1
    <3>3. TAKE x \in Callers
    <3>4. entered[x] \in CallRecords
      OBVIOUS
    <3>5. call'[x] = IF x \in ended THEN [entered[x] EXCEPT !.aborted = TRUE] ELSE entered[x]
      BY <3>2 DEF Aborted
    <3>6. x \in Turns => x \notin ended
      BY CallersAssumption
    <3> QED
      BY ZenonT(40), <3>2, <3>4, <3>5, <3>6 DEF CallRecords
  <2>3. /\ call'[t].at = IF lane["external"] > 0 THEN "waiting" ELSE "pulling"
        /\ call'[t].fresh
    BY <1>0, <1>9 DEF EnterInApp, Aborted, CallRecords
  <2>4. call' \in [Callers -> CallRecords]
    BY <2>2, <1>9 DEF EnterInApp, Aborted
  <2>5. /\ LaneCountsLiveStreams'
        /\ Counted("inApp")' = Counted("inApp") \cup {t}
        /\ Counted("external")' = Counted("external")
    <3>1. ~Streams(t) /\ Streams(t)'
      BY <2>1, <2>3 DEF Streams
    <3>2. \A y \in Callers \ {t} : Streams(y)' = Streams(y)
      BY <2>2 DEF Streams
    <3>3. LaneOf(t) = "inApp"
      OBVIOUS
    <3> QED
      BY <2>1, <3>1, <3>2, <3>3, CountsGrow DEF GateInv
  <2>6. GateTypeOK' /\ EnteredByHolders' /\ OneExternalStream'
    BY <1>0, <2>1, <2>2, <2>4 DEF GateInv, GateTypeOK, EnteredByHolders, OneExternalStream,
                                  CallRecords
  <2>7. NobodyBeside'
    <3>1. lane["external"] = 0 => Counted("external") = {}
      BY CountedFinite, FS_EmptySet DEF GateInv, LaneCountsLiveStreams
    <3>2. GoesOn(t)' => Counted("external")' = {}
      BY <1>0, <2>3, <2>5, <3>1 DEF GoesOn
    <3>3. ASSUME NEW u \in Turns, (u \in Counted("inApp") /\ GoesOn(u))'
          PROVE  \/ /\ u \in Counted("inApp") /\ GoesOn(u)
                    /\ call'[u].late = call[u].late
                 \/ Counted("external")' = {}
      <4>1. CASE u = t
        BY <3>2, <3>3, <4>1
      <4>2. CASE u # t
        BY <2>2, <2>5, <3>3, <4>2 DEF GoesOn
      <4> QED
        BY <4>1, <4>2
    <3> QED
      BY <2>5, <3>3, BesideKept DEF GateInv
  <2> QED
    BY <2>5, <2>6, <2>7 DEF GateInv
<1>10. ASSUME NEW r \in Requests, EnterExternal(r) PROVE GateInv'
  <2>1. /\ ~InGate(r) /\ lane["inApp"] = 0 /\ lane["external"] = 0
        /\ lane' = [lane EXCEPT !["external"] = @ + 1]
        /\ call' = [call EXCEPT ![r] = [@ EXCEPT !.at = "pulling", !.fresh = TRUE]]
        /\ UNCHANGED <<model, holding>>
    BY <1>0, <1>10 DEF EnterExternal, Refused
  <2>2. call' \in [Callers -> CallRecords]
    BY ZenonT(40), <1>0, <2>1 DEF CallRecords
  <2>3. LaneCountsLiveStreams' /\ Counted("inApp")' = Counted("inApp")
    <3>1. ~Streams(r) /\ Streams(r)'
      BY <1>0, <2>1 DEF Streams, CallRecords
    <3>2. \A y \in Callers \ {r} : Streams(y)' = Streams(y)
      BY <1>0, <2>1 DEF Streams
    <3>3. LaneOf(r) = "external"
      OBVIOUS
    <3> QED
      BY <2>1, <3>1, <3>2, <3>3, CountsGrow DEF GateInv
  <2>4. Counted("inApp") = {}
    BY <2>1, CountedFinite, FS_EmptySet DEF GateInv, LaneCountsLiveStreams
  <2>5. NobodyBeside'
    BY <2>3, <2>4 DEF NobodyBeside
  <2>6. GateTypeOK' /\ EnteredByHolders' /\ OneExternalStream'
    BY <1>0, <2>1, <2>2 DEF GateTypeOK, EnteredByHolders, OneExternalStream, CallRecords
  <2> QED
    BY <2>3, <2>5, <2>6 DEF GateInv
<1>11. ASSUME NEW r \in Requests, Park(r) \/ Unpark(r) \/ RenewSignal(r) PROVE GateInv'
  <2>1. UNCHANGED <<model, lane, holding>>
    BY <1>11 DEF Park, Unpark, RenewSignal
  <2>2. /\ call' \in [Callers -> CallRecords]
        /\ \A x \in Callers : StaysInPlace(x)
    <3>1. CASE Park(r)
      BY <1>0, <3>1 DEF Park, StaysInPlace, Streams, GoesOn, CallRecords
    <3>2. CASE Unpark(r)
      BY <1>0, <3>2 DEF Unpark, StaysInPlace, Streams, GoesOn, CallRecords
    <3>3. CASE RenewSignal(r)
      BY <1>0, <3>3, NoCallType DEF RenewSignal, NoCall, StaysInPlace, Streams, GoesOn, CallRecords
    <3> QED
      BY <1>11, <3>1, <3>2, <3>3
  <2> QED
    BY <1>0, <2>1, <2>2, InPlaceKeepsInv
<1>12. ASSUME NEW r \in Requests, EndExternal(r) PROVE GateInv'
  BY <1>12, LeaveKeepsInv DEF EndExternal
<1>13. ASSUME NEW S \in SUBSET Requests, AbortExternal(S) PROVE GateInv'
  <2>1. call' = Aborted(call, S) /\ UNCHANGED <<model, lane, holding>>
    BY <1>13 DEF AbortExternal
  <2>2. call' \in [Callers -> CallRecords]
    BY <1>0, <2>1, HelperTypes
  <2>3. \A x \in Callers : StaysInPlace(x)
    BY <1>0, <2>1 DEF Aborted, StaysInPlace, Streams, GoesOn, CallRecords
  <2> QED
    BY <1>0, <2>1, <2>2, <2>3, InPlaceKeepsInv
<1>14. CASE UNCHANGED gateVars
  BY <1>14 DEF gateVars, GateInv, GateTypeOK, EnteredByHolders, LaneCountsLiveStreams,
              OneExternalStream, NobodyBeside, Counted, GoesOn
<1> QED
  BY <1>1, <1>2, <1>3, <1>4, <1>5, <1>6, <1>7, <1>8, <1>9, <1>10, <1>11, <1>12, <1>13, <1>14
     DEF GateNext

LEMMA GateInvMeans == GateInv => LaneCountsLiveStreams /\ OneExternalStream /\ InAppWaitsItsTurn
BY DEF GateInv, NobodyBeside, InAppWaitsItsTurn, GoesOn

\* Whatever the callers of the two lanes do, and whatever the hooks abort, the
\* gate keeps its counts, its single external slot and the answers' priority.
THEOREM GateKeepsLanes == GateSpec => []GateInv
<1>1. GateInit => GateInv
  BY GateInitInv
<1>2. GateInv /\ [GateNext]_gateVars => GateInv'
  BY GateStep
<1> QED
  BY <1>1, <1>2, PTL DEF GateSpec
=============================================================================
