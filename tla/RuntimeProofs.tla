--------------------------- MODULE RuntimeProofs ---------------------------
(***************************************************************************)
(* What the queue of RuntimeManager guarantees for every number of models, *)
(* calls and sessions and every setting of the ladder: no llama-server is  *)
(* left to nobody, there are never two, the last settled call decides      *)
(* which model runs, "starting" is shown exactly while a start is due,     *)
(* nothing serves behind the lock screen or after the stop of a quit, no   *)
(* start crosses a lock, no crash loops, and a dead model is not shown     *)
(* as a healthy one.                                                       *)
(*                                                                         *)
(* None of these is inductive.  They rest on the conjuncts of Inductive:   *)
(* the operation that waits is the head of the queue and owns the one      *)
(* starting instance (HeadInCharge), later calls own nothing yet           *)
(* (Untouched), and a committed or a failed instance is settled            *)
(* (Reachable).  Lasting adds what the crash handlers owe: a restart has   *)
(* paid with a latch (RestartsPaid), and a dead runtime that looks healthy *)
(* has a pending call that ends it (DeadIsDue).                            *)
(***************************************************************************)
EXTENDS RuntimeManager, FiniteSetTheorems, TLAPS

Walking == {"rung", "server", "label", "warm", "health", "failing"}

\* The operation that waits is the head of the queue, and it holds the one
\* starting instance; while it stops or starts, no runtime is committed.
HeadInCharge ==
    /\ pc # "idle" => settled < issued
    /\ (starting # None) <=> (pc \in Walking)
    /\ starting # None => starting = Head
    /\ pc \in Walking \union {"stopping", "hook"} => current = None
    /\ pc \in Walking \union {"hook"} => kind[Head] \in StartKinds
    /\ pc = "probe" => current # None /\ kind[Head] = "giveUp"

\* A call whose turn has not come has no child process and cannot be cancelled.
Untouched ==
    \A o \in Ops : (o > settled /\ o # starting) => process[o] = "none" /\ o \notin cancelled

\* Past its health check a server is up or down, not on its way up, and a
\* cancelled one is down: stop() found and killed it.
Settled(i) == process[i] \notin {"gate", "loading"} /\ (i \in cancelled => process[i] # "ready")
Reachable ==
    /\ pc \in {"rung", "failing"} => ~Live(starting)
    /\ pc \in {"label", "warm", "health"} => Settled(starting)
    /\ current # None => Settled(current)

\* The committed runtime is one of a call that settled.
CommittedIsOld == current <= settled

\* The window belongs to the newest pending start.
WindowPending == claim # None => claim \in Pending /\ kind[claim] \in StartKinds
WindowNewest  == \A o \in Pending : kind[o] \in StartKinds => o <= claim
WindowOwned   == WindowPending /\ WindowNewest

\* The stop a lock or a quit waits for is the last word: no start was queued
\* after it, and once it settled nothing runs.
Down == current = None /\ starting = None
FinalStop(p) ==
    /\ p <= issued /\ kind[p] = "stop"
    /\ \A o \in Ops : (p < o /\ o <= issued) => kind[o] \notin StartKinds
    /\ p <= settled => Down
LockAwaits   == lockOp # None => ws = "locking" /\ FinalStop(lockOp)
LockedIsDown == ws = "locked" => Down /\ \A o \in Pending : kind[o] \notin StartKinds
LockHolds == LockAwaits /\ LockedIsDown
QuitHolds == quitOp # None => shut /\ FinalStop(quitOp)

InCharge == HeadInCharge /\ Untouched /\ Reachable /\ CommittedIsOld /\ NoOrphan
Inductive ==
    TypeOK /\ InCharge /\ WindowOwned /\ LastWordCounts /\ LockHolds /\ QuitHolds

\* A pending start belongs to this session, and so does the running model.
SessionHolds ==
    /\ \A o \in Pending : kind[o] \in StartKinds => asked[o] = epoch
    /\ current # None => asked[current] = epoch

\* A rung of the card is climbed only while the card is trusted, and a
\* speculative one only while the model is; a server that loads is not up yet.
OnTrustedRung(i) ==
    /\ rung[i] \in GpuRungs => ~gpuDisabled
    /\ rung[i] = "mtp" => model[i] \in MtpModels \ noMtp
ServersTrusted == \A i \in Ops : Live(i) => OnTrustedRung(i)
WalkTrusted ==
    /\ pc = "rung" /\ rung[starting] \in GpuRungs => ~gpuDisabled
    /\ pc = "rung" /\ rung[starting] = "mtp" => model[starting] \in MtpModels
LoadTrusted == pc = "server" => OnTrustedRung(starting) /\ process[starting] # "ready"
RungsTrusted == ServersTrusted /\ WalkTrusted /\ LoadTrusted

\* Every crash restart has spent the latch of its handler (that of the graphics
\* card unless its write failed), and only speculative models crash as such.
RestartsPaid ==
    \A o \in 1 .. issued :
        /\ kind[o] = "gpuRestart" => gpuDisabled \/ flagLost
        /\ kind[o] = "mtpRestart" => model[o] \in MtpModels \cap noMtp
        /\ kind[o] = "cpuRestart" => model[o] \in restarted
RestartsHold == RungsTrusted /\ RestartsPaid /\ NoCrashLoop

\* A crash handler is busy only while its call is pending, and the only
\* pending report of a second crash is the one its handler waits for.
Awaits(b, kinds) == b # None => b \in Pending /\ kind[b] \in kinds
CardAwaits == Awaits(gpuBusy, {"gpuRestart"}) /\ Awaits(mtpBusy, {"mtpRestart"})
CpuAwaits  == Awaits(cpuBusy, {"cpuRestart", "giveUp"})
OneReport  == \A o \in Pending : kind[o] = "giveUp" => cpuBusy = o
HandlersWait == CardAwaits /\ CpuAwaits /\ OneReport

\* A pending report about another model than the running one is about to be
\* dropped, unless the running one ends before its turn.
Ending == StartKinds \union {"stop"}
LateReports ==
    \A o \in Pending : kind[o] = "giveUp" /\ current # None /\ model[current] # model[o] =>
        shut \/ (HandingOver /\ o = Head) \/ \E p \in Pending : kind[p] \in Ending

\* A committed runtime has its label, and a probe is of one that settled.
Labelled ==
    /\ pc \in {"warm", "health"} => backend[starting] # "none"
    /\ current # None => backend[current] # "none"
    /\ probing <= settled

\* A dead runtime that is shown as healthy, or would be when its probe ends,
\* has a pending call that ends it, unless a lock or a quit does.
EndsIt(o) == kind[o] \in Ending \/ (kind[o] = "giveUp" /\ model[o] = model[current])
ShownDead == current # None /\ ~Answers(current) /\ (healthy \/ (probing = current /\ answered))
DeadIsDue == ShownDead => ws # "open" \/ shut \/ \E o \in Pending : EndsIt(o)
CrashesHold == HandlersWait /\ LateReports /\ Labelled /\ DeadIsDue

Lasting == SessionHolds /\ RestartsHold /\ CrashesHold
-----------------------------------------------------------------------------
USE BoundsAssumption DEF Ops, Epochs, None, queueVars, opVars, managerVars, ladderVars, latchVars,
                         busyVars, callerVars, ladderOnly, settleLeaves, stopLeaves, restOfCrash,
                         CrashKinds, StartKinds

(* Types. *)

LEMMA TypeInit == Init => TypeOK
<1> SUFFICES ASSUME Init PROVE TypeOK
  OBVIOUS
<1>1. (CHOOSE m \in Models : TRUE) \in Models
  OBVIOUS
<1>2. QueueTypes
  BY <1>1 DEF Init, QueueTypes, Kinds
<1>3. OperationTypes /\ InstanceTypes
  BY DEF Init, OperationTypes, InstanceTypes, Waits, Rungs, Backends, Processes
<1>4. LatchTypes /\ CallerTypes
  BY DEF Init, LatchTypes, CallerTypes
<1>5. FlagTypes
  BY DEF Init, FlagTypes
<1> QED
  BY <1>2, <1>3, <1>4, <1>5 DEF TypeOK

LEMMA KilledType ==
  ASSUME InstanceTypes, NEW i \in Ops
  PROVE  Killed(i) \in [Ops -> Processes]
BY DEF InstanceTypes, Killed, Processes

LEMMA StopType ==
  ASSUME InstanceTypes, NEW i \in Ops, StopInstance(i)
  PROVE  cancelled' \subseteq Ops /\ process' \in [Ops -> Processes]
BY KilledType DEF InstanceTypes, StopInstance

\* What a crash does to the queue: nothing, a restart, or a stop of the model.
LEMMA CrashEffect ==
  ASSUME NEW i \in Ops, ServerCrashes(i)
  PROVE  /\ Dies(i) /\ UNCHANGED restOfCrash
         /\ \/ UNCHANGED <<queueVars, claim>>
            \/ MayRestart /\ \E k \in CrashKinds : CrashRestart(k, i)
            \/ Enqueue("giveUp", model[i]) /\ UNCHANGED <<asked, claim>>
<1>1. CASE CrashIgnored(i)
  BY <1>1 DEF CrashIgnored
<1>2. CASE CrashOnGpu(i)
  BY <1>2 DEF CrashOnGpu
<1>3. CASE CrashOnMtp(i)
  BY <1>3 DEF CrashOnMtp
<1>4. CASE CrashOnCpu(i)
  BY <1>4 DEF CrashOnCpu, MayRestart
<1> QED
  BY <1>1, <1>2, <1>3, <1>4 DEF ServerCrashes

LEMMA EnqueueType ==
  ASSUME QueueTypes, NEW k \in Kinds, NEW m \in Models, Enqueue(k, m),
         asked' \in [Ops -> Epochs]
  PROVE  QueueTypes'
BY DEF QueueTypes, Enqueue

LEMMA TypeStep ==
  ASSUME TypeOK, HeadInCharge, Next
  PROVE  TypeOK'
<1>a. /\ pc # "idle" => settled < issued /\ Head \in Ops
      /\ pc \in Walking => starting \in Ops
      /\ pc = "probe" => current \in Ops
  BY DEF TypeOK, QueueTypes, OperationTypes, HeadInCharge, Head
<1> USE DEF TypeOK, QueueTypes, OperationTypes, InstanceTypes, LatchTypes, CallerTypes, FlagTypes, Kinds, Waits,
            Rungs, Backends, Processes, Head, Walking
<1>1. CASE Callers
  <2>1. CASE \E m \in Models : RequestStart(m)
    BY <2>1, <1>a DEF RequestStart
  <2>2. CASE \E r \in requests : StartAdmitted(r)
    BY <2>2, <1>a DEF StartAdmitted, EnqueueStart, Enqueue
  <2>3. CASE \E r \in requests : RequestEnds(r)
    BY <2>3, <1>a DEF RequestEnds
  <2>4. CASE RestartModel
    BY <2>4, <1>a DEF RestartModel, EnqueueStart, Enqueue
  <2>5. CASE StopModel
    <3>1. QueueTypes'
      BY <2>5, <1>a DEF StopModel, EnqueueStop, Enqueue, CancelStart, StopInstance, Killed
    <3>2. OperationTypes'
      BY <2>5, <1>a DEF StopModel, EnqueueStop, Enqueue, CancelStart, StopInstance, Killed
    <3>3. InstanceTypes'
      BY <2>5, StopType DEF StopModel, EnqueueStop, CancelStart
    <3>4. LatchTypes'
      BY <2>5, <1>a DEF StopModel, EnqueueStop, Enqueue, CancelStart, StopInstance, Killed
    <3>5. CallerTypes'
      BY <2>5, <1>a DEF StopModel, EnqueueStop, Enqueue, CancelStart, StopInstance, Killed
    <3>6. FlagTypes'
      BY <2>5, <1>a DEF StopModel, EnqueueStop, Enqueue, CancelStart, StopInstance, Killed
    <3> QED
      BY <3>1, <3>2, <3>3, <3>4, <3>5, <3>6
  <2>6. CASE BeginLock
    BY <2>6, <1>a DEF BeginLock
  <2>7. CASE LockTeardown
    <3>1. QueueTypes'
      BY <2>7, <1>a DEF LockTeardown, EnqueueStop, Enqueue, CancelStart, StopInstance,
         Killed
    <3>2. OperationTypes'
      BY <2>7, <1>a DEF LockTeardown, EnqueueStop, Enqueue, CancelStart, StopInstance,
         Killed
    <3>3. InstanceTypes'
      BY <2>7, StopType DEF LockTeardown, EnqueueStop, CancelStart
    <3>4. LatchTypes'
      BY <2>7, <1>a DEF LockTeardown, EnqueueStop, Enqueue, CancelStart, StopInstance,
         Killed
    <3>5. CallerTypes'
      BY <2>7, <1>a DEF LockTeardown, EnqueueStop, Enqueue, CancelStart, StopInstance,
         Killed
    <3>6. FlagTypes'
      BY <2>7, <1>a DEF LockTeardown, EnqueueStop, Enqueue, CancelStart, StopInstance,
         Killed
    <3> QED
      BY <3>1, <3>2, <3>3, <3>4, <3>5, <3>6
  <2>8. CASE FinishLock
    BY <2>8, <1>a DEF FinishLock
  <2>9. CASE Unlock
    BY <2>9, <1>a DEF Unlock
  <2>10. CASE Shutdown
    BY <2>10, <1>a DEF Shutdown
  <2>11. CASE QuitStop
    <3>1. QueueTypes'
      BY <2>11, <1>a DEF QuitStop, EnqueueStop, Enqueue, CancelStart, StopInstance, Killed
    <3>2. OperationTypes'
      BY <2>11, <1>a DEF QuitStop, EnqueueStop, Enqueue, CancelStart, StopInstance, Killed
    <3>3. InstanceTypes'
      BY <2>11, StopType DEF QuitStop, EnqueueStop, CancelStart
    <3>4. LatchTypes'
      BY <2>11, <1>a DEF QuitStop, EnqueueStop, Enqueue, CancelStart, StopInstance, Killed
    <3>5. CallerTypes'
      BY <2>11, <1>a DEF QuitStop, EnqueueStop, Enqueue, CancelStart, StopInstance, Killed
    <3>6. FlagTypes'
      BY <2>11, <1>a DEF QuitStop, EnqueueStop, Enqueue, CancelStart, StopInstance, Killed
    <3> QED
      BY <3>1, <3>2, <3>3, <3>4, <3>5, <3>6
  <2>12. CASE BeginProbe
    BY <2>12, <1>a DEF BeginProbe, Answers
  <2>13. CASE EndProbe
    <3>1. QueueTypes'
      BY <2>13, <1>a DEF EndProbe, ProbeCounts, Answers
    <3>2. OperationTypes'
      BY <2>13, <1>a DEF EndProbe, ProbeCounts, Answers
    <3>3. InstanceTypes'
      BY <2>13, <1>a DEF EndProbe, ProbeCounts, Answers
    <3>4. LatchTypes'
      BY <2>13, <1>a DEF EndProbe, ProbeCounts, Answers
    <3>5. CallerTypes'
      BY <2>13, <1>a DEF EndProbe, ProbeCounts, Answers
    <3>6. FlagTypes'
      BY <2>13, <1>a DEF EndProbe, ProbeCounts, Answers
    <3> QED
      BY <3>1, <3>2, <3>3, <3>4, <3>5, <3>6
  <2> QED
    BY <1>1, <2>1, <2>2, <2>3, <2>4, <2>5, <2>6, <2>7, <2>8, <2>9, <2>10, <2>11, <2>12,
       <2>13 DEF Callers
<1>2. CASE Operation
  <2>1. CASE RefuseStart
    BY <2>1, <1>a DEF RefuseStart, HeadIs, Settle, WindowAfter
  <2>2. CASE BeginStart
    <3>1. QueueTypes'
      BY <2>2, <1>a DEF BeginStart, HeadIs, DoStop, StopInstance, Killed
    <3>2. OperationTypes'
      BY <2>2, <1>a DEF BeginStart, HeadIs, DoStop, StopInstance, Killed
    <3>3. InstanceTypes'
      BY <2>2, StopType DEF BeginStart, DoStop
    <3>4. LatchTypes'
      BY <2>2, <1>a DEF BeginStart, HeadIs, DoStop, StopInstance, Killed
    <3>5. CallerTypes'
      BY <2>2, <1>a DEF BeginStart, HeadIs, DoStop, StopInstance, Killed
    <3>6. FlagTypes'
      BY <2>2, <1>a DEF BeginStart, HeadIs, DoStop, StopInstance, Killed
    <3> QED
      BY <3>1, <3>2, <3>3, <3>4, <3>5, <3>6
  <2>3. CASE BeginStop
    <3>1. QueueTypes'
      BY <2>3, <1>a DEF BeginStop, HeadIs, NothingRuns, DoStop, StopInstance, Killed
    <3>2. OperationTypes'
      BY <2>3, <1>a DEF BeginStop, HeadIs, NothingRuns, DoStop, StopInstance, Killed
    <3>3. InstanceTypes'
      BY <2>3, StopType DEF BeginStop, NothingRuns, DoStop
    <3>4. LatchTypes'
      BY <2>3, <1>a DEF BeginStop, HeadIs, NothingRuns, DoStop, StopInstance, Killed
    <3>5. CallerTypes'
      BY <2>3, <1>a DEF BeginStop, HeadIs, NothingRuns, DoStop, StopInstance, Killed
    <3>6. FlagTypes'
      BY <2>3, <1>a DEF BeginStop, HeadIs, NothingRuns, DoStop, StopInstance, Killed
    <3> QED
      BY <3>1, <3>2, <3>3, <3>4, <3>5, <3>6
  <2>4. CASE NothingToStop
    <3>1. QueueTypes'
      BY <2>4, <1>a DEF NothingToStop, HeadIs, NothingRuns, Settle, WindowAfter
    <3>2. OperationTypes'
      BY <2>4, <1>a DEF NothingToStop, HeadIs, NothingRuns, Settle, WindowAfter
    <3>3. InstanceTypes'
      BY <2>4, <1>a DEF NothingToStop, HeadIs, NothingRuns, Settle, WindowAfter
    <3>4. LatchTypes'
      BY SMTT(30), <2>4, <1>a DEF NothingToStop, HeadIs, NothingRuns, Settle, WindowAfter
    <3>5. CallerTypes'
      BY <2>4, <1>a DEF NothingToStop, HeadIs, NothingRuns, Settle, WindowAfter
    <3>6. FlagTypes'
      BY <2>4, <1>a DEF NothingToStop, HeadIs, NothingRuns, Settle, WindowAfter
    <3> QED
      BY <3>1, <3>2, <3>3, <3>4, <3>5, <3>6
  <2>5. CASE BeginGiveUp
    <3>1. QueueTypes'
      BY <2>5, <1>a DEF BeginGiveUp, HeadIs, IsModel
    <3>2. OperationTypes'
      BY <2>5, <1>a DEF BeginGiveUp, HeadIs, IsModel
    <3>3. InstanceTypes'
      BY <2>5, <1>a DEF BeginGiveUp, HeadIs, IsModel
    <3>4. LatchTypes'
      BY <2>5, <1>a DEF BeginGiveUp, HeadIs, IsModel
    <3>5. CallerTypes'
      BY <2>5, <1>a DEF BeginGiveUp, HeadIs, IsModel
    <3>6. FlagTypes'
      BY <2>5, <1>a DEF BeginGiveUp, HeadIs, IsModel
    <3> QED
      BY <3>1, <3>2, <3>3, <3>4, <3>5, <3>6
  <2>6. CASE GiveUpSpared
    <3>1. QueueTypes'
      BY <2>6, <1>a DEF GiveUpSpared, Settle, WindowAfter
    <3>2. OperationTypes'
      BY <2>6, <1>a DEF GiveUpSpared, Settle, WindowAfter
    <3>3. InstanceTypes'
      BY <2>6, <1>a DEF GiveUpSpared, Settle, WindowAfter
    <3>4. LatchTypes'
      BY <2>6, <1>a DEF GiveUpSpared, Settle, WindowAfter
    <3>5. CallerTypes'
      BY <2>6, <1>a DEF GiveUpSpared, Settle, WindowAfter
    <3>6. FlagTypes'
      BY <2>6, <1>a DEF GiveUpSpared, Settle, WindowAfter
    <3> QED
      BY <3>1, <3>2, <3>3, <3>4, <3>5, <3>6
  <2>7. CASE GiveUpStops
    <3>1. QueueTypes'
      BY <2>7, <1>a DEF GiveUpStops, DoStop, StopInstance, Killed
    <3>2. OperationTypes'
      BY <2>7, <1>a DEF GiveUpStops, DoStop, StopInstance, Killed
    <3>3. InstanceTypes'
      BY <2>7, <1>a, StopType DEF GiveUpStops, DoStop
    <3>4. LatchTypes'
      BY <2>7, <1>a DEF GiveUpStops, DoStop, StopInstance, Killed
    <3>5. CallerTypes'
      BY <2>7, <1>a DEF GiveUpStops, DoStop, StopInstance, Killed
    <3>6. FlagTypes'
      BY <2>7, <1>a DEF GiveUpStops, DoStop, StopInstance, Killed
    <3> QED
      BY <3>1, <3>2, <3>3, <3>4, <3>5, <3>6
  <2>8. CASE StopSettles
    <3>1. QueueTypes'
      <4>1. CASE kind[Head] \in StartKinds
        BY <2>8, <1>a, <4>1 DEF StopSettles
      <4>2. CASE kind[Head] \notin StartKinds
        BY <2>8, <1>a, <4>2 DEF StopSettles, Settle, WindowAfter
      <4> QED
        BY <4>1, <4>2
    <3>2. OperationTypes'
      BY <2>8, <1>a DEF StopSettles, Gone, Settle, WindowAfter
    <3>3. InstanceTypes'
      BY <2>8, <1>a DEF StopSettles, Gone, Settle, WindowAfter
    <3>4. LatchTypes'
      BY <2>8, <1>a DEF StopSettles, Gone, Settle, WindowAfter
    <3>5. CallerTypes'
      BY <2>8, <1>a DEF StopSettles, Gone, Settle, WindowAfter
    <3>6. FlagTypes'
      BY <2>8, <1>a DEF StopSettles, Gone, Settle, WindowAfter
    <3> QED
      BY <3>1, <3>2, <3>3, <3>4, <3>5, <3>6
  <2>9. CASE StartRefused
    BY <2>9, <1>a DEF StartRefused, Settle, WindowAfter
  <2>10. CASE CreateRuntime
    <3>1. QueueTypes'
      BY ZenonT(40), <2>10, <1>a DEF CreateRuntime, FirstRung
    <3>2. OperationTypes'
      BY <2>10, <1>a DEF CreateRuntime, FirstRung
    <3>3. InstanceTypes'
      BY <2>10, <1>a DEF CreateRuntime, FirstRung
    <3>4. LatchTypes'
      BY <2>10, <1>a DEF CreateRuntime, FirstRung
    <3>5. CallerTypes'
      BY <2>10, <1>a DEF CreateRuntime, FirstRung
    <3>6. FlagTypes'
      BY <2>10, <1>a DEF CreateRuntime, FirstRung
    <3> QED
      BY <3>1, <3>2, <3>3, <3>4, <3>5, <3>6
  <2> QED
    BY <1>2, <2>1, <2>2, <2>3, <2>4, <2>5, <2>6, <2>7, <2>8, <2>9, <2>10 DEF Operation
<1>3. CASE Ladder
  <2>1. CASE WalkCancelled
    BY <2>1, <1>a DEF WalkCancelled
  <2>2. CASE SkipMtp
    BY <2>2, <1>a DEF SkipMtp
  <2>3. CASE TakeRung
    <3>1. QueueTypes'
      BY <2>3, <1>a DEF TakeRung
    <3>2. OperationTypes'
      BY <2>3, <1>a DEF TakeRung
    <3>3. InstanceTypes'
      BY <2>3, <1>a DEF TakeRung
    <3>4. LatchTypes'
      BY <2>3, <1>a DEF TakeRung
    <3>5. CallerTypes'
      BY <2>3, <1>a DEF TakeRung
    <3>6. FlagTypes'
      BY <2>3, <1>a DEF TakeRung
    <3> QED
      BY <3>1, <3>2, <3>3, <3>4, <3>5, <3>6
  <2>4. CASE FallBackToMock
    <3>1. QueueTypes' /\ OperationTypes' /\ CallerTypes'
      BY <2>4, <1>a DEF FallBackToMock
    <3>2. InstanceTypes'
      BY <2>4, <1>a DEF FallBackToMock
    <3>3. LatchTypes'
      BY <2>4, <1>a DEF FallBackToMock
    <3>4. FlagTypes'
      BY <2>4, <1>a DEF FallBackToMock, DisableGpu
    <3> QED
      BY <3>1, <3>2, <3>3, <3>4
  <2>5. CASE Spawn
    <3>1. QueueTypes'
      BY <2>5, <1>a DEF Spawn
    <3>2. OperationTypes'
      BY <2>5, <1>a DEF Spawn
    <3>3. InstanceTypes'
      BY ZenonT(100), <2>5, <1>a DEF Spawn
    <3>4. LatchTypes'
      BY <2>5, <1>a DEF Spawn
    <3>5. CallerTypes'
      BY <2>5, <1>a DEF Spawn
    <3>6. FlagTypes'
      BY <2>5, <1>a DEF Spawn
    <3> QED
      BY <3>1, <3>2, <3>3, <3>4, <3>5, <3>6
  <2>6. CASE LoadFails
    <3>1. QueueTypes'
      BY <2>6, <1>a DEF LoadFails
    <3>2. OperationTypes'
      BY <2>6, <1>a DEF LoadFails
    <3>3. InstanceTypes'
      BY ZenonT(100), <2>6, <1>a DEF LoadFails
    <3>4. LatchTypes'
      BY <2>6, <1>a DEF LoadFails
    <3>5. CallerTypes'
      BY <2>6, <1>a DEF LoadFails
    <3>6. FlagTypes'
      BY <2>6, <1>a DEF LoadFails
    <3> QED
      BY <3>1, <3>2, <3>3, <3>4, <3>5, <3>6
  <2>7. CASE BindRetry
    BY <2>7, <1>a DEF BindRetry
  <2>8. CASE HealthTimeout
    BY <2>8, <1>a DEF HealthTimeout, Killed
  <2>9. CASE RungFails
    <3>1. QueueTypes'
      BY <2>9, <1>a DEF RungFails, NextRung
    <3>2. OperationTypes'
      BY <2>9, <1>a DEF RungFails, NextRung
    <3>3. InstanceTypes'
      BY <2>9, <1>a DEF RungFails, NextRung
    <3>4. LatchTypes'
      <4>a. pc = "server"
        BY <2>9 DEF RungFails
      <4>1. model[starting] \in Models
        BY <4>a, <1>a
      <4>2. noMtp' = noMtp \/ noMtp' = noMtp \union {model[starting]}
        BY <2>9 DEF RungFails
      <4> QED
        BY <2>9, <4>1, <4>2 DEF RungFails
    <3>5. CallerTypes'
      BY <2>9, <1>a DEF RungFails, NextRung
    <3>6. FlagTypes'
      <4>1. held' \in BOOLEAN
        BY <2>9 DEF RungFails, FailureBlames
      <4>2. cpuFault' \in BOOLEAN
        BY <2>9 DEF RungFails, FailureBlames
      <4> QED
        BY <2>9, <4>1, <4>2 DEF RungFails
    <3> QED
      BY <3>1, <3>2, <3>3, <3>4, <3>5, <3>6
  <2>10. CASE ServerUp
    <3>1. QueueTypes'
      BY <2>10, <1>a DEF ServerUp, Killed, Cancelled
    <3>2. OperationTypes'
      BY <2>10, <1>a DEF ServerUp, Killed, Cancelled
    <3>3. InstanceTypes'
      BY ZenonT(40), <2>10, <1>a DEF ServerUp, Killed, Cancelled
    <3>4. LatchTypes'
      BY <2>10, <1>a DEF ServerUp, Killed, Cancelled
    <3>5. CallerTypes'
      BY <2>10, <1>a DEF ServerUp, Killed, Cancelled
    <3>6. FlagTypes'
      BY <2>10, <1>a DEF ServerUp, DisableGpu, Killed, Cancelled
    <3> QED
      BY <3>1, <3>2, <3>3, <3>4, <3>5, <3>6
  <2>11. CASE UpWhileDying
    BY <2>11, <1>a DEF UpWhileDying
  <2>12. CASE Label
    BY <2>12, <1>a DEF Label
  <2>13. CASE WarmUpEnds
    BY <2>13, <1>a DEF WarmUpEnds, Cancelled
  <2>14. CASE Commit
    BY <2>14, <1>a DEF Commit, Settle, Answers, WindowAfter
  <2>15. CASE StartFails
    BY <2>15, <1>a DEF StartFails, Gone, Settle, WindowAfter
  <2>16. CASE \E i \in Ops : ProcessDies(i)
    BY <2>16, <1>a DEF ProcessDies
  <2>17. CASE \E i \in Ops : GraceExpires(i)
    BY <2>17, <1>a DEF GraceExpires
  <2> QED
    BY <1>3, <2>1, <2>2, <2>3, <2>4, <2>5, <2>6, <2>7, <2>8, <2>9, <2>10, <2>11, <2>12,
       <2>13, <2>14, <2>15, <2>16, <2>17 DEF Ladder
<1>4. CASE \E i \in Ops : ServerCrashes(i)
  <2> PICK i \in Ops : ServerCrashes(i)
    BY <1>4
  <2>1. /\ Dies(i) /\ UNCHANGED restOfCrash
        /\ \/ UNCHANGED <<queueVars, claim>>
           \/ MayRestart /\ \E k \in CrashKinds : CrashRestart(k, i)
           \/ Enqueue("giveUp", model[i]) /\ UNCHANGED <<asked, claim>>
    BY CrashEffect
  <2>2. QueueTypes'
    <3>1. CASE UNCHANGED <<queueVars, claim>>
      BY <3>1
    <3>2. CASE MayRestart /\ \E k \in CrashKinds : CrashRestart(k, i)
      <4>1. asked' \in [Ops -> Epochs]
        BY <3>2 DEF CrashRestart, EnqueueStart
      <4> QED
        BY <3>2, <4>1, EnqueueType DEF CrashRestart, EnqueueStart
    <3>3. CASE Enqueue("giveUp", model[i]) /\ UNCHANGED <<asked, claim>>
      BY <3>3, EnqueueType
    <3> QED
      BY <2>1, <3>1, <3>2, <3>3
  <2>3. OperationTypes'
    <3>1. claim' \in Ops \union {None}
      <4>1. CASE UNCHANGED claim
        BY <4>1
      <4>2. CASE MayRestart /\ \E k \in CrashKinds : CrashRestart(k, i)
        <5>1. issued + 1 \in Ops /\ claim' = issued + 1
          BY <4>2 DEF CrashRestart, EnqueueStart, Enqueue
        <5> QED
          BY <5>1
      <4> QED
        BY <2>1, <4>1, <4>2
    <3>2. UNCHANGED <<pc, victim, current, starting, probing>>
      BY <2>1
    <3> QED
      BY <3>1, <3>2
  <2>4. InstanceTypes' /\ CallerTypes'
    BY <2>1 DEF Dies
  <2>5. LatchTypes'
    <3>1. CASE CrashIgnored(i)
      BY <3>1 DEF CrashIgnored
    <3>2. CASE CrashOnGpu(i)
      <4>1. gpuBusy' \in Ops \union {None}
        BY SMTT(30), <3>2 DEF CrashOnGpu, CrashRestart, EnqueueStart, Enqueue
      <4> QED
        BY <3>2, <4>1 DEF CrashOnGpu
    <3>3. CASE CrashOnMtp(i)
      <4>1. mtpBusy' \in Ops \union {None}
        BY SMTT(30), <3>3 DEF CrashOnMtp, CrashRestart, EnqueueStart, Enqueue
      <4> QED
        BY <3>3, <4>1 DEF CrashOnMtp
    <3>4. CASE CrashOnCpu(i)
      <4>1. cpuBusy' \in Ops \union {None}
        BY SMTT(30), <3>4 DEF CrashOnCpu, CrashRestart, EnqueueStart, Enqueue
      <4> QED
        BY <3>4, <4>1 DEF CrashOnCpu
    <3> QED
      BY <3>1, <3>2, <3>3, <3>4 DEF ServerCrashes
  <2>6. FlagTypes'
    <3>1. CASE CrashIgnored(i)
      BY Zenon, <3>1 DEF CrashIgnored
    <3>2. CASE CrashOnGpu(i)
      BY ZenonT(30), <3>2 DEF CrashOnGpu, DisableGpu
    <3>3. CASE CrashOnMtp(i)
      BY Zenon, <3>3 DEF CrashOnMtp
    <3>4. CASE CrashOnCpu(i)
      BY Zenon, <3>4 DEF CrashOnCpu
    <3> QED
      BY <3>1, <3>2, <3>3, <3>4 DEF ServerCrashes
  <2> QED
    BY <2>2, <2>3, <2>4, <2>5, <2>6
<1> QED
  BY <1>1, <1>2, <1>3, <1>4 DEF Next

(* The head of the queue and its instance. *)

LEMMA ChargeInit == Init => InCharge
BY DEF Init, InCharge, HeadInCharge, Untouched, Reachable, CommittedIsOld, NoOrphan, Live, Settled,
       Walking

LEMMA ChargeStep ==
  ASSUME QueueTypes, OperationTypes, InstanceTypes, InCharge, Next
  PROVE  InCharge'
<1> USE DEF QueueTypes, OperationTypes, InstanceTypes, InCharge, HeadInCharge, Untouched, Reachable,
            CommittedIsOld, NoOrphan, Live, Settled, Walking, StartKinds, Head
<1>1. CASE Callers
  <2>1. CASE \E m \in Models : RequestStart(m)
    BY <2>1 DEF RequestStart
  <2>2. CASE \E r \in requests : StartAdmitted(r)
    BY <2>2 DEF StartAdmitted, EnqueueStart, Enqueue
  <2>3. CASE \E r \in requests : RequestEnds(r)
    BY <2>3 DEF RequestEnds
  <2>4. CASE RestartModel
    BY <2>4 DEF RestartModel, EnqueueStart, Enqueue
  <2>5. CASE StopModel
    BY SMTT(30), <2>5 DEF StopModel, EnqueueStop, Enqueue, CancelStart, StopInstance, Killed
  <2>6. CASE BeginLock
    BY <2>6 DEF BeginLock
  <2>7. CASE LockTeardown
    BY SMTT(30), <2>7 DEF LockTeardown, EnqueueStop, Enqueue, CancelStart, StopInstance, Killed
  <2>8. CASE FinishLock
    BY <2>8 DEF FinishLock
  <2>9. CASE Unlock
    BY <2>9 DEF Unlock
  <2>10. CASE Shutdown
    BY <2>10 DEF Shutdown
  <2>11. CASE QuitStop
    BY <2>11 DEF QuitStop, EnqueueStop, Enqueue, CancelStart, StopInstance, Killed
  <2>12. CASE BeginProbe
    BY <2>12 DEF BeginProbe
  <2>13. CASE EndProbe
    BY <2>13 DEF EndProbe, ProbeCounts
  <2> QED
    BY <1>1, <2>1, <2>2, <2>3, <2>4, <2>5, <2>6, <2>7, <2>8, <2>9, <2>10, <2>11, <2>12,
       <2>13 DEF Callers
<1>2. CASE Operation
  <2>1. CASE RefuseStart
    BY <2>1 DEF RefuseStart, HeadIs, Settle
  <2>2. CASE BeginStart
    <3>1. HeadInCharge'
      BY <2>2 DEF BeginStart, HeadIs, DoStop, StopInstance, Killed
    <3>2. Untouched'
      BY SMTT(30), <2>2 DEF BeginStart, HeadIs, DoStop, StopInstance, Killed
    <3>3. Reachable'
      BY <2>2 DEF BeginStart, HeadIs, DoStop, StopInstance, Killed
    <3>4. CommittedIsOld'
      BY <2>2 DEF BeginStart, HeadIs, DoStop, StopInstance, Killed
    <3>5. NoOrphan'
      BY SMTT(30), <2>2 DEF BeginStart, HeadIs, DoStop, StopInstance, Killed
    <3> QED
      BY <3>1, <3>2, <3>3, <3>4, <3>5
  <2>3. CASE BeginStop
    BY <2>3 DEF BeginStop, HeadIs, NothingRuns, DoStop, StopInstance, Killed
  <2>4. CASE NothingToStop
    BY <2>4 DEF NothingToStop, HeadIs, NothingRuns, Settle
  <2>5. CASE BeginGiveUp
    BY <2>5 DEF BeginGiveUp, HeadIs, IsModel
  <2>6. CASE GiveUpSpared
    BY <2>6 DEF GiveUpSpared, Settle
  <2>7. CASE GiveUpStops
    BY <2>7 DEF GiveUpStops, DoStop, StopInstance, Killed
  <2>8. CASE StopSettles
    BY <2>8 DEF StopSettles, Gone, Settle
  <2>9. CASE StartRefused
    BY <2>9 DEF StartRefused, Settle
  <2>10. CASE CreateRuntime
    BY <2>10 DEF CreateRuntime
  <2> QED
    BY <1>2, <2>1, <2>2, <2>3, <2>4, <2>5, <2>6, <2>7, <2>8, <2>9, <2>10 DEF Operation
<1>3. CASE Ladder
  <2>1. CASE WalkCancelled
    BY <2>1 DEF WalkCancelled
  <2>2. CASE SkipMtp
    BY <2>2 DEF SkipMtp
  <2>3. CASE TakeRung
    BY <2>3 DEF TakeRung
  <2>4. CASE FallBackToMock
    BY <2>4 DEF FallBackToMock
  <2>5. CASE Spawn
    BY <2>5 DEF Spawn
  <2>6. CASE LoadFails
    BY <2>6 DEF LoadFails
  <2>7. CASE BindRetry
    BY <2>7 DEF BindRetry
  <2>8. CASE HealthTimeout
    BY <2>8 DEF HealthTimeout, Killed
  <2>9. CASE RungFails
    BY <2>9 DEF RungFails
  <2>10. CASE ServerUp
    BY <2>10 DEF ServerUp, Killed, Cancelled
  <2>11. CASE UpWhileDying
    BY <2>11 DEF UpWhileDying
  <2>12. CASE Label
    BY <2>12 DEF Label
  <2>13. CASE WarmUpEnds
    BY <2>13 DEF WarmUpEnds, Cancelled
  <2>14. CASE Commit
    BY <2>14 DEF Commit, Settle
  <2>15. CASE StartFails
    BY <2>15 DEF StartFails, Gone, Settle
  <2>16. CASE \E i \in Ops : ProcessDies(i)
    BY <2>16 DEF ProcessDies
  <2>17. CASE \E i \in Ops : GraceExpires(i)
    BY <2>17 DEF GraceExpires
  <2> QED
    BY <1>3, <2>1, <2>2, <2>3, <2>4, <2>5, <2>6, <2>7, <2>8, <2>9, <2>10, <2>11, <2>12,
       <2>13, <2>14, <2>15, <2>16, <2>17 DEF Ladder
<1>4. CASE \E i \in Ops : ServerCrashes(i)
  <2> PICK i \in Ops : ServerCrashes(i)
    BY <1>4
  <2>1. /\ Dies(i) /\ UNCHANGED restOfCrash
        /\ \/ UNCHANGED <<queueVars, claim>>
           \/ MayRestart /\ \E k \in CrashKinds : CrashRestart(k, i)
           \/ Enqueue("giveUp", model[i]) /\ UNCHANGED <<asked, claim>>
    BY CrashEffect
  <2>2. CASE UNCHANGED <<queueVars, claim>>
    BY <2>1, <2>2 DEF Dies
  <2>3. CASE MayRestart /\ \E k \in CrashKinds : CrashRestart(k, i)
    BY <2>1, <2>3 DEF Dies, CrashRestart, EnqueueStart, Enqueue
  <2>4. CASE Enqueue("giveUp", model[i]) /\ UNCHANGED <<asked, claim>>
    BY <2>1, <2>4 DEF Dies, Enqueue
  <2> QED
    BY <2>1, <2>2, <2>3, <2>4
<1> QED
  BY <1>1, <1>2, <1>3, <1>4 DEF Next

(* The "starting" window. *)

LEMMA WindowStep ==
  ASSUME QueueTypes, OperationTypes, HeadInCharge, WindowOwned, Next
  PROVE  WindowOwned'
<1> USE DEF QueueTypes, OperationTypes, HeadInCharge, WindowOwned, WindowPending,
            WindowNewest, Walking, StartKinds, Head, Pending
<1>1. CASE Callers
  <2>1. CASE \E m \in Models : RequestStart(m)
    BY <2>1 DEF RequestStart
  <2>2. CASE \E r \in requests : StartAdmitted(r)
    BY <2>2 DEF StartAdmitted, EnqueueStart, Enqueue
  <2>3. CASE \E r \in requests : RequestEnds(r)
    BY <2>3 DEF RequestEnds
  <2>4. CASE RestartModel
    BY <2>4 DEF RestartModel, EnqueueStart, Enqueue
  <2>5. CASE StopModel
    BY <2>5 DEF StopModel, EnqueueStop, Enqueue, CancelStart, StopInstance, Killed
  <2>6. CASE BeginLock
    BY <2>6 DEF BeginLock
  <2>7. CASE LockTeardown
    BY <2>7 DEF LockTeardown, EnqueueStop, Enqueue, CancelStart, StopInstance, Killed
  <2>8. CASE FinishLock
    BY <2>8 DEF FinishLock
  <2>9. CASE Unlock
    BY <2>9 DEF Unlock
  <2>10. CASE Shutdown
    BY <2>10 DEF Shutdown
  <2>11. CASE QuitStop
    BY <2>11 DEF QuitStop, EnqueueStop, Enqueue, CancelStart, StopInstance, Killed
  <2>12. CASE BeginProbe
    BY <2>12 DEF BeginProbe
  <2>13. CASE EndProbe
    BY <2>13 DEF EndProbe, ProbeCounts
  <2> QED
    BY <1>1, <2>1, <2>2, <2>3, <2>4, <2>5, <2>6, <2>7, <2>8, <2>9, <2>10, <2>11, <2>12,
       <2>13 DEF Callers
<1>2. CASE Operation
  <2>1. CASE RefuseStart
    BY <2>1 DEF RefuseStart, HeadIs, Settle, WindowAfter
  <2>2. CASE BeginStart
    BY <2>2 DEF BeginStart, HeadIs, DoStop, StopInstance, Killed
  <2>3. CASE BeginStop
    BY <2>3 DEF BeginStop, HeadIs, NothingRuns, DoStop, StopInstance, Killed
  <2>4. CASE NothingToStop
    BY <2>4 DEF NothingToStop, HeadIs, NothingRuns, Settle, WindowAfter
  <2>5. CASE BeginGiveUp
    BY <2>5 DEF BeginGiveUp, HeadIs, IsModel
  <2>6. CASE GiveUpSpared
    BY <2>6 DEF GiveUpSpared, Settle, WindowAfter
  <2>7. CASE GiveUpStops
    BY <2>7 DEF GiveUpStops, DoStop, StopInstance, Killed
  <2>8. CASE StopSettles
    <3>1. CASE kind[Head] \in StartKinds
      BY <2>8, <3>1 DEF StopSettles
    <3>2. CASE kind[Head] \notin StartKinds
      BY SMTT(30), <2>8, <3>2 DEF StopSettles, Settle, WindowAfter
    <3> QED
      BY <3>1, <3>2
  <2>9. CASE StartRefused
    BY <2>9 DEF StartRefused, Settle, WindowAfter
  <2>10. CASE CreateRuntime
    BY <2>10 DEF CreateRuntime
  <2> QED
    BY <1>2, <2>1, <2>2, <2>3, <2>4, <2>5, <2>6, <2>7, <2>8, <2>9, <2>10 DEF Operation
<1>3. CASE Ladder
  <2>1. CASE WalkCancelled
    BY <2>1 DEF WalkCancelled
  <2>2. CASE SkipMtp
    BY <2>2 DEF SkipMtp
  <2>3. CASE TakeRung
    BY <2>3 DEF TakeRung
  <2>4. CASE FallBackToMock
    BY <2>4 DEF FallBackToMock
  <2>5. CASE Spawn
    BY <2>5 DEF Spawn
  <2>6. CASE LoadFails
    BY <2>6 DEF LoadFails
  <2>7. CASE BindRetry
    BY <2>7 DEF BindRetry
  <2>8. CASE HealthTimeout
    BY <2>8 DEF HealthTimeout, Killed
  <2>9. CASE RungFails
    BY <2>9 DEF RungFails
  <2>10. CASE ServerUp
    BY <2>10 DEF ServerUp, Killed, Cancelled
  <2>11. CASE UpWhileDying
    BY <2>11 DEF UpWhileDying
  <2>12. CASE Label
    BY <2>12 DEF Label
  <2>13. CASE WarmUpEnds
    BY <2>13 DEF WarmUpEnds, Cancelled
  <2>14. CASE Commit
    BY <2>14 DEF Commit, Settle, WindowAfter
  <2>15. CASE StartFails
    BY <2>15 DEF StartFails, Gone, Settle, WindowAfter
  <2>16. CASE \E i \in Ops : ProcessDies(i)
    BY <2>16 DEF ProcessDies
  <2>17. CASE \E i \in Ops : GraceExpires(i)
    BY <2>17 DEF GraceExpires
  <2> QED
    BY <1>3, <2>1, <2>2, <2>3, <2>4, <2>5, <2>6, <2>7, <2>8, <2>9, <2>10, <2>11, <2>12,
       <2>13, <2>14, <2>15, <2>16, <2>17 DEF Ladder
<1>4. CASE \E i \in Ops : ServerCrashes(i)
  <2> PICK i \in Ops : ServerCrashes(i)
    BY <1>4
  <2>1. /\ Dies(i) /\ UNCHANGED restOfCrash
        /\ \/ UNCHANGED <<queueVars, claim>>
           \/ MayRestart /\ \E k \in CrashKinds : CrashRestart(k, i)
           \/ Enqueue("giveUp", model[i]) /\ UNCHANGED <<asked, claim>>
    BY CrashEffect
  <2>2. CASE UNCHANGED <<queueVars, claim>>
    BY <2>1, <2>2 DEF Dies
  <2>3. CASE MayRestart /\ \E k \in CrashKinds : CrashRestart(k, i)
    BY <2>1, <2>3 DEF Dies, CrashRestart, EnqueueStart, Enqueue
  <2>4. CASE Enqueue("giveUp", model[i]) /\ UNCHANGED <<asked, claim>>
    BY <2>1, <2>4 DEF Dies, Enqueue
  <2> QED
    BY <2>1, <2>2, <2>3, <2>4
<1> QED
  BY <1>1, <1>2, <1>3, <1>4 DEF Next

(* The last settled call. *)

LEMMA LastWordStep ==
  ASSUME QueueTypes, OperationTypes, HeadInCharge, CommittedIsOld, LastWordCounts, Next
  PROVE  LastWordCounts'
<1> USE DEF QueueTypes, OperationTypes, HeadInCharge, CommittedIsOld, LastWordCounts, Walking,
            StartKinds, Head
<1>1. CASE Callers
  <2>1. CASE \E m \in Models : RequestStart(m)
    BY <2>1 DEF RequestStart
  <2>2. CASE \E r \in requests : StartAdmitted(r)
    BY <2>2 DEF StartAdmitted, EnqueueStart, Enqueue
  <2>3. CASE \E r \in requests : RequestEnds(r)
    BY <2>3 DEF RequestEnds
  <2>4. CASE RestartModel
    BY <2>4 DEF RestartModel, EnqueueStart, Enqueue
  <2>5. CASE StopModel
    BY <2>5 DEF StopModel, EnqueueStop, Enqueue, CancelStart, StopInstance, Killed
  <2>6. CASE BeginLock
    BY <2>6 DEF BeginLock
  <2>7. CASE LockTeardown
    BY <2>7 DEF LockTeardown, EnqueueStop, Enqueue, CancelStart, StopInstance, Killed
  <2>8. CASE FinishLock
    BY <2>8 DEF FinishLock
  <2>9. CASE Unlock
    BY <2>9 DEF Unlock
  <2>10. CASE Shutdown
    BY <2>10 DEF Shutdown
  <2>11. CASE QuitStop
    BY <2>11 DEF QuitStop, EnqueueStop, Enqueue, CancelStart, StopInstance, Killed
  <2>12. CASE BeginProbe
    BY <2>12 DEF BeginProbe
  <2>13. CASE EndProbe
    BY <2>13 DEF EndProbe, ProbeCounts
  <2> QED
    BY <1>1, <2>1, <2>2, <2>3, <2>4, <2>5, <2>6, <2>7, <2>8, <2>9, <2>10, <2>11, <2>12,
       <2>13 DEF Callers
<1>2. CASE Operation
  <2>1. CASE RefuseStart
    BY <2>1 DEF RefuseStart, HeadIs, Settle, Latched
  <2>2. CASE BeginStart
    BY <2>2 DEF BeginStart, HeadIs, DoStop, StopInstance, Killed
  <2>3. CASE BeginStop
    BY <2>3 DEF BeginStop, HeadIs, NothingRuns, DoStop, StopInstance, Killed
  <2>4. CASE NothingToStop
    <3>1. LastWordCounts'
      <4>1. CASE HeadIs({"stop"}) /\ NothingRuns
        BY <2>4, <4>1 DEF NothingToStop, NothingRuns
      <4>2. CASE HeadIs({"giveUp"})
        <5>1. kind[Head] = "giveUp" /\ settled' = Head /\ UNCHANGED <<kind, current, shut>>
          BY <2>4, <4>2 DEF NothingToStop, HeadIs, Settle
        <5>2. \A o \in Ops : o <= settled' => o <= settled \/ o = Head
          BY <5>1
        <5> QED
          BY <5>1, <5>2, Zenon
      <4> QED
        BY <2>4, <4>1, <4>2 DEF NothingToStop
    <3> QED
      BY <3>1
  <2>5. CASE BeginGiveUp
    BY <2>5 DEF BeginGiveUp, HeadIs, IsModel
  <2>6. CASE GiveUpSpared
    BY SMTT(30), <2>6 DEF GiveUpSpared, Settle
  <2>7. CASE GiveUpStops
    BY <2>7 DEF GiveUpStops, DoStop, StopInstance, Killed
  <2>8. CASE StopSettles
    BY <2>8 DEF StopSettles, Gone, Settle
  <2>9. CASE StartRefused
    BY <2>9 DEF StartRefused, Settle
  <2>10. CASE CreateRuntime
    BY <2>10 DEF CreateRuntime
  <2> QED
    BY <1>2, <2>1, <2>2, <2>3, <2>4, <2>5, <2>6, <2>7, <2>8, <2>9, <2>10 DEF Operation
<1>3. CASE Ladder
  <2>1. CASE WalkCancelled
    BY <2>1 DEF WalkCancelled
  <2>2. CASE SkipMtp
    BY <2>2 DEF SkipMtp
  <2>3. CASE TakeRung
    BY <2>3 DEF TakeRung
  <2>4. CASE FallBackToMock
    BY <2>4 DEF FallBackToMock
  <2>5. CASE Spawn
    BY <2>5 DEF Spawn
  <2>6. CASE LoadFails
    BY <2>6 DEF LoadFails
  <2>7. CASE BindRetry
    BY <2>7 DEF BindRetry
  <2>8. CASE HealthTimeout
    BY <2>8 DEF HealthTimeout, Killed
  <2>9. CASE RungFails
    BY <2>9 DEF RungFails
  <2>10. CASE ServerUp
    BY <2>10 DEF ServerUp, Killed, Cancelled
  <2>11. CASE UpWhileDying
    BY <2>11 DEF UpWhileDying
  <2>12. CASE Label
    BY <2>12 DEF Label
  <2>13. CASE WarmUpEnds
    BY <2>13 DEF WarmUpEnds, Cancelled
  <2>14. CASE Commit
    BY <2>14 DEF Commit, Settle
  <2>15. CASE StartFails
    BY <2>15 DEF StartFails, Gone, Settle
  <2>16. CASE \E i \in Ops : ProcessDies(i)
    BY <2>16 DEF ProcessDies
  <2>17. CASE \E i \in Ops : GraceExpires(i)
    BY <2>17 DEF GraceExpires
  <2> QED
    BY <1>3, <2>1, <2>2, <2>3, <2>4, <2>5, <2>6, <2>7, <2>8, <2>9, <2>10, <2>11, <2>12,
       <2>13, <2>14, <2>15, <2>16, <2>17 DEF Ladder
<1>4. CASE \E i \in Ops : ServerCrashes(i)
  <2> PICK i \in Ops : ServerCrashes(i)
    BY <1>4
  <2>1. /\ Dies(i) /\ UNCHANGED restOfCrash
        /\ \/ UNCHANGED <<queueVars, claim>>
           \/ MayRestart /\ \E k \in CrashKinds : CrashRestart(k, i)
           \/ Enqueue("giveUp", model[i]) /\ UNCHANGED <<asked, claim>>
    BY CrashEffect
  <2>2. CASE UNCHANGED <<queueVars, claim>>
    BY <2>1, <2>2 DEF Dies
  <2>3. CASE MayRestart /\ \E k \in CrashKinds : CrashRestart(k, i)
    BY <2>1, <2>3 DEF Dies, CrashRestart, EnqueueStart, Enqueue
  <2>4. CASE Enqueue("giveUp", model[i]) /\ UNCHANGED <<asked, claim>>
    BY <2>1, <2>4 DEF Dies, Enqueue
  <2> QED
    BY <2>1, <2>2, <2>3, <2>4
<1> QED
  BY <1>1, <1>2, <1>3, <1>4 DEF Next

(* The lock and the quit. *)

LEMMA TeardownStep ==
  ASSUME QueueTypes, OperationTypes, CallerTypes, HeadInCharge, LockHolds, QuitHolds, Next
  PROVE  LockHolds' /\ QuitHolds'
<1> USE DEF QueueTypes, OperationTypes, CallerTypes, HeadInCharge, LockHolds, LockAwaits, LockedIsDown,
            QuitHolds, FinalStop, Down,
            Walking, StartKinds, Head, Pending
<1>1. CASE Callers
  <2>1. CASE \E m \in Models : RequestStart(m)
    BY <2>1 DEF RequestStart
  <2>2. CASE \E r \in requests : StartAdmitted(r)
    BY <2>2 DEF StartAdmitted, EnqueueStart, Enqueue, Admits
  <2>3. CASE \E r \in requests : RequestEnds(r)
    BY <2>3 DEF RequestEnds
  <2>4. CASE RestartModel
    BY <2>4 DEF RestartModel, EnqueueStart, Enqueue, Admits
  <2>5. CASE StopModel
    BY <2>5 DEF StopModel, EnqueueStop, Enqueue, CancelStart, StopInstance, Killed
  <2>6. CASE BeginLock
    BY <2>6 DEF BeginLock
  <2>7. CASE LockTeardown
    BY <2>7 DEF LockTeardown, EnqueueStop, Enqueue, CancelStart, StopInstance, Killed
  <2>8. CASE FinishLock
    BY <2>8 DEF FinishLock
  <2>9. CASE Unlock
    BY <2>9 DEF Unlock
  <2>10. CASE Shutdown
    BY <2>10 DEF Shutdown
  <2>11. CASE QuitStop
    BY <2>11 DEF QuitStop, EnqueueStop, Enqueue, CancelStart, StopInstance, Killed
  <2>12. CASE BeginProbe
    BY <2>12 DEF BeginProbe
  <2>13. CASE EndProbe
    BY <2>13 DEF EndProbe, ProbeCounts
  <2> QED
    BY <1>1, <2>1, <2>2, <2>3, <2>4, <2>5, <2>6, <2>7, <2>8, <2>9, <2>10, <2>11, <2>12,
       <2>13 DEF Callers
<1>2. CASE Operation
  <2>1. CASE RefuseStart
    BY <2>1 DEF RefuseStart, HeadIs, Settle
  <2>2. CASE BeginStart
    BY <2>2 DEF BeginStart, HeadIs, DoStop, StopInstance, Killed
  <2>3. CASE BeginStop
    BY <2>3 DEF BeginStop, HeadIs, NothingRuns, DoStop, StopInstance, Killed
  <2>4. CASE NothingToStop
    <3>1. LockAwaits'
      BY SMTT(30), <2>4 DEF NothingToStop, HeadIs, NothingRuns, Settle
    <3>2. LockedIsDown'
      BY <2>4 DEF NothingToStop, HeadIs, NothingRuns, Settle
    <3>3. QuitHolds'
      BY SMTT(30), <2>4 DEF NothingToStop, HeadIs, NothingRuns, Settle
    <3> QED
      BY <3>1, <3>2, <3>3
  <2>5. CASE BeginGiveUp
    BY <2>5 DEF BeginGiveUp, HeadIs, IsModel
  <2>6. CASE GiveUpSpared
    BY SMTT(30), <2>6 DEF GiveUpSpared, Settle
  <2>7. CASE GiveUpStops
    BY <2>7 DEF GiveUpStops, DoStop, StopInstance, Killed
  <2>8. CASE StopSettles
    BY SMTT(30), <2>8 DEF StopSettles, Gone, Settle
  <2>9. CASE StartRefused
    BY <2>9 DEF StartRefused, Settle
  <2>10. CASE CreateRuntime
    BY <2>10 DEF CreateRuntime
  <2> QED
    BY <1>2, <2>1, <2>2, <2>3, <2>4, <2>5, <2>6, <2>7, <2>8, <2>9, <2>10 DEF Operation
<1>3. CASE Ladder
  <2>1. CASE WalkCancelled
    BY <2>1 DEF WalkCancelled
  <2>2. CASE SkipMtp
    BY <2>2 DEF SkipMtp
  <2>3. CASE TakeRung
    BY <2>3 DEF TakeRung
  <2>4. CASE FallBackToMock
    BY <2>4 DEF FallBackToMock
  <2>5. CASE Spawn
    BY <2>5 DEF Spawn
  <2>6. CASE LoadFails
    BY <2>6 DEF LoadFails
  <2>7. CASE BindRetry
    BY <2>7 DEF BindRetry
  <2>8. CASE HealthTimeout
    BY <2>8 DEF HealthTimeout, Killed
  <2>9. CASE RungFails
    BY <2>9 DEF RungFails
  <2>10. CASE ServerUp
    BY <2>10 DEF ServerUp, Killed, Cancelled
  <2>11. CASE UpWhileDying
    BY <2>11 DEF UpWhileDying
  <2>12. CASE Label
    BY <2>12 DEF Label
  <2>13. CASE WarmUpEnds
    BY <2>13 DEF WarmUpEnds, Cancelled
  <2>14. CASE Commit
    BY <2>14 DEF Commit, Settle
  <2>15. CASE StartFails
    BY <2>15 DEF StartFails, Gone, Settle
  <2>16. CASE \E i \in Ops : ProcessDies(i)
    BY <2>16 DEF ProcessDies
  <2>17. CASE \E i \in Ops : GraceExpires(i)
    BY <2>17 DEF GraceExpires
  <2> QED
    BY <1>3, <2>1, <2>2, <2>3, <2>4, <2>5, <2>6, <2>7, <2>8, <2>9, <2>10, <2>11, <2>12,
       <2>13, <2>14, <2>15, <2>16, <2>17 DEF Ladder
<1>4. CASE \E i \in Ops : ServerCrashes(i)
  <2> PICK i \in Ops : ServerCrashes(i)
    BY <1>4
  <2>1. /\ Dies(i) /\ UNCHANGED restOfCrash
        /\ \/ UNCHANGED <<queueVars, claim>>
           \/ MayRestart /\ \E k \in CrashKinds : CrashRestart(k, i)
           \/ Enqueue("giveUp", model[i]) /\ UNCHANGED <<asked, claim>>
    BY CrashEffect
  <2>2. CASE UNCHANGED <<queueVars, claim>>
    BY <2>1, <2>2 DEF Dies
  <2>3. CASE MayRestart /\ \E k \in CrashKinds : CrashRestart(k, i)
    BY <2>1, <2>3 DEF Dies, MayRestart, Admits, CrashRestart, EnqueueStart, Enqueue
  <2>4. CASE Enqueue("giveUp", model[i]) /\ UNCHANGED <<asked, claim>>
    BY <2>1, <2>4 DEF Dies, Enqueue
  <2> QED
    BY <2>1, <2>2, <2>3, <2>4
<1> QED
  BY <1>1, <1>2, <1>3, <1>4 DEF Next
(* The sessions. *)

LEMMA SessionStep ==
  ASSUME QueueTypes, OperationTypes, CallerTypes, HeadInCharge, CommittedIsOld, LockHolds,
         SessionHolds, Next
  PROVE  SessionHolds'
<1> USE DEF QueueTypes, OperationTypes, CallerTypes, HeadInCharge, CommittedIsOld,
            SessionHolds, Walking, StartKinds, Head, Pending
<1>1. CASE Callers
  <2>1. CASE \E m \in Models : RequestStart(m)
    BY <2>1 DEF RequestStart
  <2>2. CASE \E r \in requests : StartAdmitted(r)
    BY <2>2 DEF StartAdmitted, EnqueueStart, Enqueue, Admits, SameSession
  <2>3. CASE \E r \in requests : RequestEnds(r)
    BY <2>3 DEF RequestEnds
  <2>4. CASE RestartModel
    BY <2>4 DEF RestartModel, EnqueueStart, Enqueue, Admits
  <2>5. CASE StopModel
    BY <2>5 DEF StopModel, EnqueueStop, Enqueue, CancelStart, StopInstance, Killed
  <2>6. CASE BeginLock
    BY <2>6 DEF BeginLock
  <2>7. CASE LockTeardown
    BY <2>7 DEF LockTeardown, EnqueueStop, Enqueue, CancelStart, StopInstance, Killed
  <2>8. CASE FinishLock
    BY <2>8 DEF FinishLock
  <2>9. CASE Unlock
    BY <2>9 DEF Unlock, LockHolds, LockedIsDown, Down
  <2>10. CASE Shutdown
    BY <2>10 DEF Shutdown
  <2>11. CASE QuitStop
    BY <2>11 DEF QuitStop, EnqueueStop, Enqueue, CancelStart, StopInstance, Killed
  <2>12. CASE BeginProbe
    BY <2>12 DEF BeginProbe
  <2>13. CASE EndProbe
    BY <2>13 DEF EndProbe, ProbeCounts
  <2> QED
    BY <1>1, <2>1, <2>2, <2>3, <2>4, <2>5, <2>6, <2>7, <2>8, <2>9, <2>10, <2>11, <2>12,
       <2>13 DEF Callers
<1>2. CASE Operation
  <2>1. CASE RefuseStart
    BY <2>1 DEF RefuseStart, HeadIs, Settle, Latched
  <2>2. CASE BeginStart
    BY <2>2 DEF BeginStart, HeadIs, DoStop, StopInstance, Killed
  <2>3. CASE BeginStop
    BY <2>3 DEF BeginStop, HeadIs, NothingRuns, DoStop, StopInstance, Killed
  <2>4. CASE NothingToStop
    BY <2>4 DEF NothingToStop, HeadIs, NothingRuns, Settle
  <2>5. CASE BeginGiveUp
    BY <2>5 DEF BeginGiveUp, HeadIs, IsModel
  <2>6. CASE GiveUpSpared
    BY <2>6 DEF GiveUpSpared, Settle
  <2>7. CASE GiveUpStops
    BY <2>7 DEF GiveUpStops, DoStop, StopInstance, Killed
  <2>8. CASE StopSettles
    BY <2>8 DEF StopSettles, Gone, Settle
  <2>9. CASE StartRefused
    BY <2>9 DEF StartRefused, Settle
  <2>10. CASE CreateRuntime
    BY <2>10 DEF CreateRuntime
  <2> QED
    BY <1>2, <2>1, <2>2, <2>3, <2>4, <2>5, <2>6, <2>7, <2>8, <2>9, <2>10 DEF Operation
<1>3. CASE Ladder
  <2>1. CASE WalkCancelled
    BY <2>1 DEF WalkCancelled
  <2>2. CASE SkipMtp
    BY <2>2 DEF SkipMtp
  <2>3. CASE TakeRung
    BY <2>3 DEF TakeRung
  <2>4. CASE FallBackToMock
    BY <2>4 DEF FallBackToMock
  <2>5. CASE Spawn
    BY <2>5 DEF Spawn
  <2>6. CASE LoadFails
    BY <2>6 DEF LoadFails
  <2>7. CASE BindRetry
    BY <2>7 DEF BindRetry
  <2>8. CASE HealthTimeout
    BY <2>8 DEF HealthTimeout, Killed
  <2>9. CASE RungFails
    BY <2>9 DEF RungFails
  <2>10. CASE ServerUp
    BY <2>10 DEF ServerUp, Killed, Cancelled
  <2>11. CASE UpWhileDying
    BY <2>11 DEF UpWhileDying
  <2>12. CASE Label
    BY <2>12 DEF Label
  <2>13. CASE WarmUpEnds
    BY <2>13 DEF WarmUpEnds, Cancelled
  <2>14. CASE Commit
    BY <2>14 DEF Commit, Settle
  <2>15. CASE StartFails
    BY <2>15 DEF StartFails, Gone, Settle
  <2>16. CASE \E i \in Ops : ProcessDies(i)
    BY <2>16 DEF ProcessDies
  <2>17. CASE \E i \in Ops : GraceExpires(i)
    BY <2>17 DEF GraceExpires
  <2> QED
    BY <1>3, <2>1, <2>2, <2>3, <2>4, <2>5, <2>6, <2>7, <2>8, <2>9, <2>10, <2>11, <2>12,
       <2>13, <2>14, <2>15, <2>16, <2>17 DEF Ladder
<1>4. CASE \E i \in Ops : ServerCrashes(i)
  <2> PICK i \in Ops : ServerCrashes(i)
    BY <1>4
  <2>1. /\ Dies(i) /\ UNCHANGED restOfCrash
        /\ \/ UNCHANGED <<queueVars, claim>>
           \/ MayRestart /\ \E k \in CrashKinds : CrashRestart(k, i)
           \/ Enqueue("giveUp", model[i]) /\ UNCHANGED <<asked, claim>>
    BY CrashEffect
  <2>2. CASE UNCHANGED <<queueVars, claim>>
    BY <2>1, <2>2 DEF Dies
  <2>3. CASE MayRestart /\ \E k \in CrashKinds : CrashRestart(k, i)
    BY <2>1, <2>3 DEF Dies, CrashRestart, EnqueueStart, Enqueue
  <2>4. CASE Enqueue("giveUp", model[i]) /\ UNCHANGED <<asked, claim>>
    BY <2>1, <2>4 DEF Dies, Enqueue
  <2> QED
    BY <2>1, <2>2, <2>3, <2>4
<1> QED
  BY <1>1, <1>2, <1>3, <1>4 DEF Next

(* The rungs and the restarts. *)

LEMMA RungStep ==
  ASSUME TypeOK, HeadInCharge, Untouched, Reachable, NoOrphan, RungsTrusted, Next
  PROVE  RungsTrusted'
<1> USE DEF TypeOK, QueueTypes, OperationTypes, InstanceTypes, HeadInCharge, Untouched,
            Reachable, NoOrphan, RungsTrusted, ServersTrusted, WalkTrusted, LoadTrusted,
            OnTrustedRung, Live, Settled, Walking, StartKinds, GpuRungs, Rungs, Processes,
            Head
<1>1. CASE Callers
  <2>1. CASE \E m \in Models : RequestStart(m)
    BY <2>1 DEF RequestStart
  <2>2. CASE \E r \in requests : StartAdmitted(r)
    BY <2>2 DEF StartAdmitted, EnqueueStart, Enqueue, Admits
  <2>3. CASE \E r \in requests : RequestEnds(r)
    BY <2>3 DEF RequestEnds
  <2>4. CASE RestartModel
    BY <2>4 DEF RestartModel, EnqueueStart, Enqueue, Admits
  <2>5. CASE StopModel
    BY <2>5 DEF StopModel, EnqueueStop, Enqueue, CancelStart, StopInstance, Killed
  <2>6. CASE BeginLock
    BY <2>6 DEF BeginLock
  <2>7. CASE LockTeardown
    BY <2>7 DEF LockTeardown, EnqueueStop, Enqueue, CancelStart, StopInstance, Killed
  <2>8. CASE FinishLock
    BY <2>8 DEF FinishLock
  <2>9. CASE Unlock
    BY <2>9 DEF Unlock
  <2>10. CASE Shutdown
    BY <2>10 DEF Shutdown
  <2>11. CASE QuitStop
    BY <2>11 DEF QuitStop, EnqueueStop, Enqueue, CancelStart, StopInstance, Killed
  <2>12. CASE BeginProbe
    BY <2>12 DEF BeginProbe
  <2>13. CASE EndProbe
    BY <2>13 DEF EndProbe, ProbeCounts
  <2> QED
    BY <1>1, <2>1, <2>2, <2>3, <2>4, <2>5, <2>6, <2>7, <2>8, <2>9, <2>10, <2>11, <2>12,
       <2>13 DEF Callers
<1>2. CASE Operation
  <2>1. CASE RefuseStart
    BY <2>1 DEF RefuseStart, HeadIs, Settle, Latched
  <2>2. CASE BeginStart
    <3>1. ServersTrusted'
      BY SMTT(30), <2>2 DEF BeginStart, HeadIs, DoStop, StopInstance, Killed
    <3>2. WalkTrusted'
      BY SMTT(30), <2>2 DEF BeginStart, HeadIs, DoStop, StopInstance, Killed
    <3>3. LoadTrusted'
      BY SMTT(30), <2>2 DEF BeginStart, HeadIs, DoStop, StopInstance, Killed
    <3> QED
      BY <3>1, <3>2, <3>3
  <2>3. CASE BeginStop
    BY <2>3 DEF BeginStop, HeadIs, NothingRuns, DoStop, StopInstance, Killed
  <2>4. CASE NothingToStop
    BY <2>4 DEF NothingToStop, HeadIs, NothingRuns, Settle
  <2>5. CASE BeginGiveUp
    BY <2>5 DEF BeginGiveUp, HeadIs, IsModel
  <2>6. CASE GiveUpSpared
    BY <2>6 DEF GiveUpSpared, Settle
  <2>7. CASE GiveUpStops
    BY <2>7 DEF GiveUpStops, DoStop, StopInstance, Killed
  <2>8. CASE StopSettles
    BY <2>8 DEF StopSettles, Gone, Settle
  <2>9. CASE StartRefused
    BY <2>9 DEF StartRefused, Settle
  <2>10. CASE CreateRuntime
    <3>1. /\ pc' = "rung" /\ starting' = Head /\ rung' = [rung EXCEPT ![Head] = FirstRung(model[Head])]
          /\ UNCHANGED <<process, model, gpuDisabled, noMtp>>
      BY <2>10 DEF CreateRuntime
    <3>2. ~Live(Head) /\ Head \in Ops /\ pc = "hook"
      BY <2>10 DEF CreateRuntime
    <3>3. /\ FirstRung(model[Head]) \in GpuRungs => ~gpuDisabled
          /\ FirstRung(model[Head]) = "mtp" => model[Head] \in MtpModels
      BY DEF FirstRung
    <3>4. ServersTrusted'
      BY <3>1, <3>2
    <3>5. WalkTrusted'
      BY <3>1, <3>2, <3>3
    <3> QED
      BY <3>1, <3>4, <3>5
  <2> QED
    BY <1>2, <2>1, <2>2, <2>3, <2>4, <2>5, <2>6, <2>7, <2>8, <2>9, <2>10 DEF Operation
<1>3. CASE Ladder
  <2>1. CASE WalkCancelled
    BY <2>1 DEF WalkCancelled
  <2>2. CASE SkipMtp
    BY <2>2 DEF SkipMtp, OnRung
  <2>3. CASE TakeRung
    BY <2>3 DEF TakeRung, OnRung, Cancelled
  <2>4. CASE FallBackToMock
    BY <2>4 DEF FallBackToMock, OnRung
  <2>5. CASE Spawn
    <3>1. ServersTrusted'
      <4>1. /\ UNCHANGED <<rung, model, gpuDisabled, noMtp>> /\ process[starting] = "gate"
            /\ \E p \in {"loading", "dead"} : process' = [process EXCEPT ![starting] = p]
        BY <2>5 DEF Spawn
      <4> QED
        BY <4>1
    <3>2. WalkTrusted'
      BY <2>5 DEF Spawn
    <3>3. LoadTrusted'
      BY <2>5 DEF Spawn
    <3> QED
      BY <3>1, <3>2, <3>3
  <2>6. CASE LoadFails
    <3>1. ServersTrusted'
      <4>1. /\ UNCHANGED <<rung, model, gpuDisabled, noMtp>>
            /\ \E p \in {"dead", "lostBind"} : process' = [process EXCEPT ![starting] = p]
        BY <2>6 DEF LoadFails
      <4> QED
        BY <4>1
    <3>2. WalkTrusted'
      BY <2>6 DEF LoadFails
    <3>3. LoadTrusted'
      BY <2>6 DEF LoadFails
    <3> QED
      BY <3>1, <3>2, <3>3
  <2>7. CASE BindRetry
    BY <2>7 DEF BindRetry
  <2>8. CASE HealthTimeout
    BY <2>8 DEF HealthTimeout, Killed
  <2>9. CASE RungFails
    <3>1. /\ pc = "server" /\ ~Live(starting) /\ starting \in Ops /\ process' = process /\ model' = model
          /\ starting' = starting /\ gpuDisabled' = gpuDisabled /\ pc' \in {"rung", "failing"}
      BY <2>9 DEF RungFails
    <3>2. /\ \A j \in Ops : j # starting => ~Live(j)
      BY <3>1
    <3>3. rung' = rung \/ rung' = [rung EXCEPT ![starting] = NextRung(rung[starting])]
      BY <2>9 DEF RungFails
    <3>4. ServersTrusted'
      BY <3>1, <3>2
    <3>5. WalkTrusted'
      BY <3>1, <3>3 DEF NextRung
    <3> QED
      BY <3>1, <3>4, <3>5
  <2>10. CASE ServerUp
    <3>1. ServersTrusted'
      BY <2>10 DEF ServerUp, Killed, Cancelled
    <3>2. WalkTrusted'
      BY <2>10 DEF ServerUp, Killed, Cancelled
    <3>3. LoadTrusted'
      BY <2>10 DEF ServerUp, Killed, Cancelled
    <3> QED
      BY <3>1, <3>2, <3>3
  <2>11. CASE UpWhileDying
    BY <2>11 DEF UpWhileDying
  <2>12. CASE Label
    BY <2>12 DEF Label
  <2>13. CASE WarmUpEnds
    BY <2>13 DEF WarmUpEnds, Cancelled
  <2>14. CASE Commit
    BY <2>14 DEF Commit, Settle
  <2>15. CASE StartFails
    BY <2>15 DEF StartFails, Gone, Settle
  <2>16. CASE \E i \in Ops : ProcessDies(i)
    BY <2>16 DEF ProcessDies
  <2>17. CASE \E i \in Ops : GraceExpires(i)
    BY <2>17 DEF GraceExpires
  <2> QED
    BY <1>3, <2>1, <2>2, <2>3, <2>4, <2>5, <2>6, <2>7, <2>8, <2>9, <2>10, <2>11, <2>12,
       <2>13, <2>14, <2>15, <2>16, <2>17 DEF Ladder
<1>4. CASE \E i \in Ops : ServerCrashes(i)
  <2> PICK i \in Ops : ServerCrashes(i)
    BY <1>4
  <2>1. /\ process[i] = "ready" /\ process' = [process EXCEPT ![i] = "dead"]
        /\ UNCHANGED <<pc, current, starting, rung, cancelled>>
        /\ model' = model \/ model' = [model EXCEPT ![issued + 1] = model[i]]
    BY CrashEffect DEF Dies, CrashRestart, EnqueueStart, Enqueue
  <2>2. \A j \in Ops : ~Live(j)'
    BY <2>1
  <2>3. pc \notin {"rung", "server"}
    BY <2>1
  <2> QED
    BY <2>1, <2>2, <2>3
<1> QED
  BY <1>1, <1>2, <1>3, <1>4 DEF Next

(* The crash restarts. *)

\* Only a crash asks for a restart, and nothing gives a latch back.
NoMoreRestarts ==
    /\ issued <= issued'
    /\ \A o \in 1 .. issued : kind'[o] = kind[o] /\ model'[o] = model[o]
    /\ \A o \in (1 .. issued') \ (1 .. issued) : kind'[o] \notin CrashKinds
LatchesStay ==
    /\ gpuDisabled => gpuDisabled'
    /\ flagLost => flagLost'
    /\ noMtp \subseteq noMtp' /\ restarted \subseteq restarted'

LEMMA CalmStep ==
  ASSUME TypeOK, Next, ~\E i \in Ops : ServerCrashes(i)
  PROVE  NoMoreRestarts /\ LatchesStay
<1> USE DEF TypeOK, QueueTypes, LatchTypes, FlagTypes, NoMoreRestarts, LatchesStay
<1>1. CASE Callers
  <2>1. CASE \E m \in Models : RequestStart(m)
    BY <2>1 DEF RequestStart
  <2>2. CASE \E r \in requests : StartAdmitted(r)
    BY <2>2 DEF StartAdmitted, EnqueueStart, Enqueue, Admits
  <2>3. CASE \E r \in requests : RequestEnds(r)
    BY <2>3 DEF RequestEnds
  <2>4. CASE RestartModel
    BY <2>4 DEF RestartModel, EnqueueStart, Enqueue, Admits
  <2>5. CASE StopModel
    BY <2>5 DEF StopModel, EnqueueStop, Enqueue, CancelStart, StopInstance, Killed
  <2>6. CASE BeginLock
    BY <2>6 DEF BeginLock
  <2>7. CASE LockTeardown
    BY <2>7 DEF LockTeardown, EnqueueStop, Enqueue, CancelStart, StopInstance, Killed
  <2>8. CASE FinishLock
    BY <2>8 DEF FinishLock
  <2>9. CASE Unlock
    BY <2>9 DEF Unlock
  <2>10. CASE Shutdown
    BY <2>10 DEF Shutdown
  <2>11. CASE QuitStop
    BY <2>11 DEF QuitStop, EnqueueStop, Enqueue, CancelStart, StopInstance, Killed
  <2>12. CASE BeginProbe
    BY <2>12 DEF BeginProbe
  <2>13. CASE EndProbe
    BY <2>13 DEF EndProbe, ProbeCounts
  <2> QED
    BY <1>1, <2>1, <2>2, <2>3, <2>4, <2>5, <2>6, <2>7, <2>8, <2>9, <2>10, <2>11, <2>12,
       <2>13 DEF Callers
<1>2. CASE Operation
  <2>1. CASE RefuseStart
    BY <2>1 DEF RefuseStart, HeadIs, Settle, Latched
  <2>2. CASE BeginStart
    BY <2>2 DEF BeginStart, HeadIs, DoStop, StopInstance, Killed
  <2>3. CASE BeginStop
    BY <2>3 DEF BeginStop, HeadIs, NothingRuns, DoStop, StopInstance, Killed
  <2>4. CASE NothingToStop
    BY <2>4 DEF NothingToStop, HeadIs, NothingRuns, Settle
  <2>5. CASE BeginGiveUp
    BY <2>5 DEF BeginGiveUp, HeadIs, IsModel
  <2>6. CASE GiveUpSpared
    BY <2>6 DEF GiveUpSpared, Settle
  <2>7. CASE GiveUpStops
    BY <2>7 DEF GiveUpStops, DoStop, StopInstance, Killed
  <2>8. CASE StopSettles
    BY <2>8 DEF StopSettles, Gone, Settle
  <2>9. CASE StartRefused
    BY <2>9 DEF StartRefused, Settle
  <2>10. CASE CreateRuntime
    BY <2>10 DEF CreateRuntime
  <2> QED
    BY <1>2, <2>1, <2>2, <2>3, <2>4, <2>5, <2>6, <2>7, <2>8, <2>9, <2>10 DEF Operation
<1>3. CASE Ladder
  <2>1. CASE WalkCancelled
    BY <2>1 DEF WalkCancelled
  <2>2. CASE SkipMtp
    BY <2>2 DEF SkipMtp
  <2>3. CASE TakeRung
    BY <2>3 DEF TakeRung
  <2>4. CASE FallBackToMock
    BY <2>4 DEF FallBackToMock, DisableGpu
  <2>5. CASE Spawn
    BY <2>5 DEF Spawn
  <2>6. CASE LoadFails
    BY <2>6 DEF LoadFails
  <2>7. CASE BindRetry
    BY <2>7 DEF BindRetry
  <2>8. CASE HealthTimeout
    BY <2>8 DEF HealthTimeout, Killed
  <2>9. CASE RungFails
    <3>1. UNCHANGED <<issued, kind, model, gpuDisabled, flagLost, restarted>>
      BY <2>9 DEF RungFails
    <3>2. noMtp \subseteq noMtp'
      BY <2>9 DEF RungFails
    <3> QED
      BY <3>1, <3>2
  <2>10. CASE ServerUp
    BY <2>10 DEF ServerUp, DisableGpu, Killed, Cancelled
  <2>11. CASE UpWhileDying
    BY <2>11 DEF UpWhileDying
  <2>12. CASE Label
    BY <2>12 DEF Label
  <2>13. CASE WarmUpEnds
    BY <2>13 DEF WarmUpEnds, Cancelled
  <2>14. CASE Commit
    BY <2>14 DEF Commit, Settle
  <2>15. CASE StartFails
    BY <2>15 DEF StartFails, Gone, Settle
  <2>16. CASE \E i \in Ops : ProcessDies(i)
    BY <2>16 DEF ProcessDies
  <2>17. CASE \E i \in Ops : GraceExpires(i)
    BY <2>17 DEF GraceExpires
  <2> QED
    BY <1>3, <2>1, <2>2, <2>3, <2>4, <2>5, <2>6, <2>7, <2>8, <2>9, <2>10, <2>11, <2>12,
       <2>13, <2>14, <2>15, <2>16, <2>17 DEF Ladder
<1> QED
  BY <1>1, <1>2, <1>3 DEF Next

\* What a crash adds: nothing, a report, or the first restart its handler makes.
FirstRestart(k, i) ==
    /\ Enqueue(k, model[i])
    /\ \/ k = "gpuRestart" /\ ~gpuDisabled /\ (gpuDisabled' \/ flagLost')
       \/ k = "mtpRestart" /\ model[i] \in MtpModels \ noMtp /\ model[i] \in noMtp'
       \/ k = "cpuRestart" /\ model[i] \notin restarted /\ model[i] \in restarted'

LEMMA CrashStep ==
  ASSUME TypeOK, ServersTrusted, NEW i \in Ops, ServerCrashes(i)
  PROVE  LatchesStay /\ (NoMoreRestarts \/ \E k \in CrashKinds : FirstRestart(k, i))
<1> USE DEF TypeOK, QueueTypes, LatchTypes, FlagTypes, LatchesStay
<1>1. /\ OnTrustedRung(i) /\ model[i] \in Models
  BY CrashEffect DEF Dies, Live, ServersTrusted
<1>2. UNCHANGED queueVars => NoMoreRestarts
  BY DEF NoMoreRestarts
<1>3. CASE CrashIgnored(i)
  BY <1>2, <1>3 DEF CrashIgnored
<1>4. CASE CrashOnGpu(i)
  <2>1. LatchesStay /\ (gpuDisabled' \/ flagLost')
    BY <1>4 DEF CrashOnGpu, DisableGpu
  <2>2. CASE MayRestart
    BY <1>1, <1>4, <2>1, <2>2 DEF CrashOnGpu, CrashRestart, EnqueueStart, FirstRestart,
                                   OnTrustedRung, GpuRungs
  <2>3. CASE ~MayRestart
    BY <1>2, <1>4, <2>1, <2>3 DEF CrashOnGpu
  <2> QED
    BY <2>2, <2>3
<1>5. CASE CrashOnMtp(i)
  <2>1. LatchesStay /\ model[i] \in noMtp'
    BY <1>5 DEF CrashOnMtp
  <2>2. CASE MayRestart /\ mtpBusy = None
    BY <1>1, <1>5, <2>1, <2>2 DEF CrashOnMtp, CrashRestart, EnqueueStart, FirstRestart, OnTrustedRung
  <2>3. CASE ~(MayRestart /\ mtpBusy = None)
    BY <1>2, <1>5, <2>1, <2>3 DEF CrashOnMtp
  <2> QED
    BY <2>2, <2>3
<1>6. CASE CrashOnCpu(i)
  <2>1. LatchesStay /\ model[i] \in restarted'
    BY <1>6 DEF CrashOnCpu
  <2>2. CASE FirstCpuCrash(model[i]) /\ ~shut
    BY <1>1, <1>6, <2>1, <2>2 DEF CrashOnCpu, CrashRestart, EnqueueStart, FirstRestart, FirstCpuCrash
  <2>3. CASE FirstCpuCrash(model[i]) /\ shut
    BY <1>2, <1>6, <2>1, <2>3 DEF CrashOnCpu
  <2>4. CASE ~FirstCpuCrash(model[i])
    <3>1. Enqueue("giveUp", model[i])
      BY <1>6, <2>4 DEF CrashOnCpu
    <3>2. NoMoreRestarts
      BY <3>1 DEF Enqueue, NoMoreRestarts
    <3> QED
      BY <2>1, <3>2
  <2> QED
    BY <2>2, <2>3, <2>4
<1> QED
  BY <1>3, <1>4, <1>5, <1>6 DEF ServerCrashes

LEMMA PaidStep ==
  ASSUME TypeOK, ServersTrusted, RestartsPaid, NoCrashLoop, Next
  PROVE  RestartsPaid' /\ NoCrashLoop'
<1> USE DEF TypeOK, QueueTypes, LatchTypes, FlagTypes
<1>1. CASE NoMoreRestarts /\ LatchesStay
  <2>1. \A o \in 1 .. issued' : kind'[o] \in CrashKinds =>
          o \in 1 .. issued /\ kind'[o] = kind[o] /\ model'[o] = model[o]
    BY <1>1 DEF NoMoreRestarts
  <2>2. RestartsPaid'
    BY <1>1, <2>1 DEF RestartsPaid, LatchesStay
  <2>3. NoCrashLoop'
    BY <1>1, <2>1 DEF NoCrashLoop, LatchesStay
  <2> QED
    BY <2>2, <2>3
<1>2. ASSUME NEW i \in Ops, NEW k \in CrashKinds, FirstRestart(k, i), LatchesStay
      PROVE  RestartsPaid' /\ NoCrashLoop'
  <2>1. /\ issued' = issued + 1 /\ issued' \in Ops
        /\ kind' = [kind EXCEPT ![issued + 1] = k] /\ model' = [model EXCEPT ![issued + 1] = model[i]]
    BY <1>2 DEF FirstRestart, Enqueue
  <2>2. /\ kind'[issued'] = k /\ model'[issued'] = model[i]
        /\ \A o \in 1 .. issued' : o # issued' =>
             o \in 1 .. issued /\ kind'[o] = kind[o] /\ model'[o] = model[o]
    BY <2>1
  <2>3. RestartsPaid'
    BY <1>2, <2>2 DEF RestartsPaid, LatchesStay, FirstRestart
  <2>4. ASSUME NEW o \in 1 .. issued, kind[o] = k, model[o] = model[i],
               k = "gpuRestart" => ~flagLost'
        PROVE  FALSE
    BY <1>2, <2>4 DEF RestartsPaid, LatchesStay, FirstRestart
  <2>5. NoCrashLoop'
    <3> SUFFICES ASSUME NEW o \in 1 .. issued', NEW p \in 1 .. issued',
                        kind'[o] \in CrashKinds, kind'[p] = kind'[o], model'[p] = model'[o],
                        kind'[o] = "gpuRestart" => ~flagLost'
                 PROVE  o = p
      BY DEF NoCrashLoop
    <3>1. CASE o # issued' /\ p # issued'
      BY <1>2, <2>2, <3>1 DEF NoCrashLoop, LatchesStay
    <3>2. CASE o = issued' /\ p # issued'
      BY <2>2, <2>4, <3>2
    <3>3. CASE o # issued' /\ p = issued'
      BY <2>2, <2>4, <3>3
    <3> QED
      BY <3>1, <3>2, <3>3
  <2> QED
    BY <2>3, <2>5
<1>3. CASE \E i \in Ops : ServerCrashes(i)
  BY <1>1, <1>2, <1>3, CrashStep
<1>4. CASE ~\E i \in Ops : ServerCrashes(i)
  BY <1>1, <1>4, CalmStep
<1> QED
  BY <1>3, <1>4

(* What the crash handlers wait for. *)

\* A crash leaves the handlers alone, or one of them waits for the new call.
LEMMA CrashWaits ==
  ASSUME NEW i \in Ops, ServerCrashes(i)
  PROVE  \/ UNCHANGED <<queueVars, busyVars>>
         \/ Enqueue("gpuRestart", model[i]) /\ gpuBusy' = issued + 1 /\ UNCHANGED <<mtpBusy, cpuBusy>>
         \/ Enqueue("mtpRestart", model[i]) /\ mtpBusy' = issued + 1 /\ UNCHANGED <<gpuBusy, cpuBusy>>
         \/ /\ cpuBusy = None /\ cpuBusy' = issued + 1 /\ UNCHANGED <<gpuBusy, mtpBusy>>
            /\ Enqueue("cpuRestart", model[i]) \/ Enqueue("giveUp", model[i])
<1>1. CASE CrashIgnored(i)
  BY <1>1 DEF CrashIgnored
<1>2. CASE CrashOnGpu(i)
  BY <1>2 DEF CrashOnGpu, CrashRestart, EnqueueStart
<1>3. CASE CrashOnMtp(i)
  BY <1>3 DEF CrashOnMtp, CrashRestart, EnqueueStart
<1>4. CASE CrashOnCpu(i)
  BY <1>4 DEF CrashOnCpu, CrashRestart, EnqueueStart
<1> QED
  BY <1>1, <1>2, <1>3, <1>4 DEF ServerCrashes

LEMMA HandlersStep ==
  ASSUME TypeOK, HeadInCharge, HandlersWait, Next
  PROVE  HandlersWait'
<1> USE DEF TypeOK, QueueTypes, OperationTypes, LatchTypes, Awaits, CardAwaits, CpuAwaits,
            OneReport, HandlersWait, HeadInCharge, Walking, StartKinds, Head, Pending
<1>1. CASE Callers
  <2>1. CASE \E m \in Models : RequestStart(m)
    BY <2>1 DEF RequestStart
  <2>2. CASE \E r \in requests : StartAdmitted(r)
    BY <2>2 DEF StartAdmitted, EnqueueStart, Enqueue, Admits
  <2>3. CASE \E r \in requests : RequestEnds(r)
    BY <2>3 DEF RequestEnds
  <2>4. CASE RestartModel
    BY <2>4 DEF RestartModel, EnqueueStart, Enqueue, Admits
  <2>5. CASE StopModel
    BY <2>5 DEF StopModel, EnqueueStop, Enqueue, CancelStart, StopInstance, Killed
  <2>6. CASE BeginLock
    BY <2>6 DEF BeginLock
  <2>7. CASE LockTeardown
    BY <2>7 DEF LockTeardown, EnqueueStop, Enqueue, CancelStart, StopInstance, Killed
  <2>8. CASE FinishLock
    BY <2>8 DEF FinishLock
  <2>9. CASE Unlock
    BY <2>9 DEF Unlock
  <2>10. CASE Shutdown
    BY <2>10 DEF Shutdown
  <2>11. CASE QuitStop
    BY <2>11 DEF QuitStop, EnqueueStop, Enqueue, CancelStart, StopInstance, Killed
  <2>12. CASE BeginProbe
    BY <2>12 DEF BeginProbe
  <2>13. CASE EndProbe
    BY <2>13 DEF EndProbe, ProbeCounts
  <2> QED
    BY <1>1, <2>1, <2>2, <2>3, <2>4, <2>5, <2>6, <2>7, <2>8, <2>9, <2>10, <2>11, <2>12,
       <2>13 DEF Callers
<1>2. CASE Operation
  <2>1. CASE RefuseStart
    BY <2>1 DEF RefuseStart, HeadIs, Settle, Latched
  <2>2. CASE BeginStart
    BY <2>2 DEF BeginStart, HeadIs, DoStop, StopInstance, Killed
  <2>3. CASE BeginStop
    BY <2>3 DEF BeginStop, HeadIs, NothingRuns, DoStop, StopInstance, Killed
  <2>4. CASE NothingToStop
    BY <2>4 DEF NothingToStop, HeadIs, NothingRuns, Settle
  <2>5. CASE BeginGiveUp
    BY <2>5 DEF BeginGiveUp, HeadIs, IsModel
  <2>6. CASE GiveUpSpared
    BY <2>6 DEF GiveUpSpared, Settle
  <2>7. CASE GiveUpStops
    BY <2>7 DEF GiveUpStops, DoStop, StopInstance, Killed
  <2>8. CASE StopSettles
    <3>1. CASE kind[Head] \in StartKinds
      BY <2>8, <3>1 DEF StopSettles
    <3>2. CASE kind[Head] \notin StartKinds
      <4>1. Settle
        BY <2>8, <3>2 DEF StopSettles
      <4>2. CardAwaits'
        BY <4>1 DEF Settle
      <4>3. CpuAwaits' /\ OneReport'
        BY <4>1 DEF Settle
      <4> QED
        BY <4>2, <4>3
    <3> QED
      BY <3>1, <3>2
  <2>9. CASE StartRefused
    BY <2>9 DEF StartRefused, Settle
  <2>10. CASE CreateRuntime
    BY <2>10 DEF CreateRuntime
  <2> QED
    BY <1>2, <2>1, <2>2, <2>3, <2>4, <2>5, <2>6, <2>7, <2>8, <2>9, <2>10 DEF Operation
<1>3. CASE Ladder
  <2>1. CASE WalkCancelled
    BY <2>1 DEF WalkCancelled
  <2>2. CASE SkipMtp
    BY <2>2 DEF SkipMtp
  <2>3. CASE TakeRung
    BY <2>3 DEF TakeRung
  <2>4. CASE FallBackToMock
    BY <2>4 DEF FallBackToMock
  <2>5. CASE Spawn
    BY <2>5 DEF Spawn
  <2>6. CASE LoadFails
    BY <2>6 DEF LoadFails
  <2>7. CASE BindRetry
    BY <2>7 DEF BindRetry
  <2>8. CASE HealthTimeout
    BY <2>8 DEF HealthTimeout, Killed
  <2>9. CASE RungFails
    BY <2>9 DEF RungFails
  <2>10. CASE ServerUp
    BY <2>10 DEF ServerUp, Killed, Cancelled
  <2>11. CASE UpWhileDying
    BY <2>11 DEF UpWhileDying
  <2>12. CASE Label
    BY <2>12 DEF Label
  <2>13. CASE WarmUpEnds
    BY <2>13 DEF WarmUpEnds, Cancelled
  <2>14. CASE Commit
    BY <2>14 DEF Commit, Settle
  <2>15. CASE StartFails
    BY <2>15 DEF StartFails, Gone, Settle
  <2>16. CASE \E i \in Ops : ProcessDies(i)
    BY <2>16 DEF ProcessDies
  <2>17. CASE \E i \in Ops : GraceExpires(i)
    BY <2>17 DEF GraceExpires
  <2> QED
    BY <1>3, <2>1, <2>2, <2>3, <2>4, <2>5, <2>6, <2>7, <2>8, <2>9, <2>10, <2>11, <2>12,
       <2>13, <2>14, <2>15, <2>16, <2>17 DEF Ladder
<1>4. CASE \E i \in Ops : ServerCrashes(i)
  <2> PICK i \in Ops : ServerCrashes(i)
    BY <1>4
  <2>1. CASE UNCHANGED <<queueVars, busyVars>>
    BY <2>1
  <2>2. CASE Enqueue("gpuRestart", model[i]) /\ gpuBusy' = issued + 1 /\ UNCHANGED <<mtpBusy, cpuBusy>>
    BY <2>2 DEF Enqueue
  <2>3. CASE Enqueue("mtpRestart", model[i]) /\ mtpBusy' = issued + 1 /\ UNCHANGED <<gpuBusy, cpuBusy>>
    BY <2>3 DEF Enqueue
  <2>4. CASE /\ cpuBusy = None /\ cpuBusy' = issued + 1 /\ UNCHANGED <<gpuBusy, mtpBusy>>
             /\ Enqueue("cpuRestart", model[i]) \/ Enqueue("giveUp", model[i])
    BY <2>4 DEF Enqueue
  <2> QED
    BY <2>1, <2>2, <2>3, <2>4, CrashWaits
<1> QED
  BY <1>1, <1>2, <1>3, <1>4 DEF Next

LEMMA LabelStep ==
  ASSUME TypeOK, InCharge, Labelled, Next
  PROVE  Labelled'
<1> USE DEF TypeOK, QueueTypes, OperationTypes, LatchTypes, InstanceTypes, Backends,
            InCharge, HeadInCharge, CommittedIsOld, Labelled, Walking, Head
<1>1. CASE Callers
  <2>1. CASE \E m \in Models : RequestStart(m)
    BY <2>1 DEF RequestStart
  <2>2. CASE \E r \in requests : StartAdmitted(r)
    BY <2>2 DEF StartAdmitted, EnqueueStart, Enqueue, Admits
  <2>3. CASE \E r \in requests : RequestEnds(r)
    BY <2>3 DEF RequestEnds
  <2>4. CASE RestartModel
    BY <2>4 DEF RestartModel, EnqueueStart, Enqueue, Admits
  <2>5. CASE StopModel
    BY <2>5 DEF StopModel, EnqueueStop, Enqueue, CancelStart, StopInstance, Killed
  <2>6. CASE BeginLock
    BY <2>6 DEF BeginLock
  <2>7. CASE LockTeardown
    BY <2>7 DEF LockTeardown, EnqueueStop, Enqueue, CancelStart, StopInstance, Killed
  <2>8. CASE FinishLock
    BY <2>8 DEF FinishLock
  <2>9. CASE Unlock
    BY <2>9 DEF Unlock
  <2>10. CASE Shutdown
    BY <2>10 DEF Shutdown
  <2>11. CASE QuitStop
    BY <2>11 DEF QuitStop, EnqueueStop, Enqueue, CancelStart, StopInstance, Killed
  <2>12. CASE BeginProbe
    BY <2>12 DEF BeginProbe
  <2>13. CASE EndProbe
    BY <2>13 DEF EndProbe, ProbeCounts
  <2> QED
    BY <1>1, <2>1, <2>2, <2>3, <2>4, <2>5, <2>6, <2>7, <2>8, <2>9, <2>10, <2>11, <2>12,
       <2>13 DEF Callers
<1>2. CASE Operation
  <2>1. CASE RefuseStart
    BY <2>1 DEF RefuseStart, HeadIs, Settle, Latched
  <2>2. CASE BeginStart
    BY <2>2 DEF BeginStart, HeadIs, DoStop, StopInstance, Killed
  <2>3. CASE BeginStop
    BY <2>3 DEF BeginStop, HeadIs, NothingRuns, DoStop, StopInstance, Killed
  <2>4. CASE NothingToStop
    BY <2>4 DEF NothingToStop, HeadIs, NothingRuns, Settle
  <2>5. CASE BeginGiveUp
    BY <2>5 DEF BeginGiveUp, HeadIs, IsModel
  <2>6. CASE GiveUpSpared
    BY <2>6 DEF GiveUpSpared, Settle
  <2>7. CASE GiveUpStops
    BY <2>7 DEF GiveUpStops, DoStop, StopInstance, Killed
  <2>8. CASE StopSettles
    BY <2>8 DEF StopSettles, Gone, Settle
  <2>9. CASE StartRefused
    BY <2>9 DEF StartRefused, Settle
  <2>10. CASE CreateRuntime
    BY <2>10 DEF CreateRuntime
  <2> QED
    BY <1>2, <2>1, <2>2, <2>3, <2>4, <2>5, <2>6, <2>7, <2>8, <2>9, <2>10 DEF Operation
<1>3. CASE Ladder
  <2>1. CASE WalkCancelled
    BY <2>1 DEF WalkCancelled
  <2>2. CASE SkipMtp
    BY <2>2 DEF SkipMtp
  <2>3. CASE TakeRung
    BY <2>3 DEF TakeRung
  <2>4. CASE FallBackToMock
    BY <2>4 DEF FallBackToMock
  <2>5. CASE Spawn
    BY <2>5 DEF Spawn
  <2>6. CASE LoadFails
    BY <2>6 DEF LoadFails
  <2>7. CASE BindRetry
    BY <2>7 DEF BindRetry
  <2>8. CASE HealthTimeout
    BY <2>8 DEF HealthTimeout, Killed
  <2>9. CASE RungFails
    BY <2>9 DEF RungFails
  <2>10. CASE ServerUp
    BY <2>10 DEF ServerUp, Killed, Cancelled
  <2>11. CASE UpWhileDying
    BY <2>11 DEF UpWhileDying
  <2>12. CASE Label
    BY <2>12 DEF Label
  <2>13. CASE WarmUpEnds
    BY <2>13 DEF WarmUpEnds, Cancelled
  <2>14. CASE Commit
    BY <2>14 DEF Commit, Settle
  <2>15. CASE StartFails
    BY <2>15 DEF StartFails, Gone, Settle
  <2>16. CASE \E i \in Ops : ProcessDies(i)
    BY <2>16 DEF ProcessDies
  <2>17. CASE \E i \in Ops : GraceExpires(i)
    BY <2>17 DEF GraceExpires
  <2> QED
    BY <1>3, <2>1, <2>2, <2>3, <2>4, <2>5, <2>6, <2>7, <2>8, <2>9, <2>10, <2>11, <2>12,
       <2>13, <2>14, <2>15, <2>16, <2>17 DEF Ladder
<1>4. CASE \E i \in Ops : ServerCrashes(i)
  <2> PICK i \in Ops : ServerCrashes(i)
    BY <1>4
  <2>1. CASE CrashIgnored(i)
    BY <2>1 DEF CrashIgnored, Dies
  <2>2. CASE CrashOnGpu(i)
    BY <2>2 DEF CrashOnGpu, Dies, CrashRestart, EnqueueStart, Enqueue
  <2>3. CASE CrashOnMtp(i)
    BY <2>3 DEF CrashOnMtp, Dies, CrashRestart, EnqueueStart, Enqueue
  <2>4. CASE CrashOnCpu(i)
    BY <2>4 DEF CrashOnCpu, Dies, CrashRestart, EnqueueStart, Enqueue
  <2> QED
    BY <2>1, <2>2, <2>3, <2>4 DEF ServerCrashes
<1> QED
  BY <1>1, <1>2, <1>3, <1>4 DEF Next

(* Late reports of a crash. *)

LEMMA LateReportStep ==
  ASSUME TypeOK, HeadInCharge, NoOrphan, CommittedIsOld, HandlersWait, LateReports, Next
  PROVE  LateReports'
<1> USE DEF TypeOK, QueueTypes, OperationTypes, Kinds, HeadInCharge, NoOrphan,
            CommittedIsOld, HandlersWait, OneReport, LateReports, HandingOver, Ending,
            Walking, StartKinds, Head, Pending
<1>1. CASE Callers
  <2>1. CASE \E m \in Models : RequestStart(m)
    BY <2>1 DEF RequestStart
  <2>2. CASE \E r \in requests : StartAdmitted(r)
    BY <2>2 DEF StartAdmitted, EnqueueStart, Enqueue, Admits
  <2>3. CASE \E r \in requests : RequestEnds(r)
    BY <2>3 DEF RequestEnds
  <2>4. CASE RestartModel
    BY <2>4 DEF RestartModel, EnqueueStart, Enqueue, Admits
  <2>5. CASE StopModel
    BY <2>5 DEF StopModel, EnqueueStop, Enqueue, CancelStart, StopInstance, Killed
  <2>6. CASE BeginLock
    BY <2>6 DEF BeginLock
  <2>7. CASE LockTeardown
    BY <2>7 DEF LockTeardown, EnqueueStop, Enqueue, CancelStart, StopInstance, Killed
  <2>8. CASE FinishLock
    BY <2>8 DEF FinishLock
  <2>9. CASE Unlock
    BY <2>9 DEF Unlock
  <2>10. CASE Shutdown
    BY <2>10 DEF Shutdown
  <2>11. CASE QuitStop
    BY <2>11 DEF QuitStop, EnqueueStop, Enqueue, CancelStart, StopInstance, Killed
  <2>12. CASE BeginProbe
    BY <2>12 DEF BeginProbe
  <2>13. CASE EndProbe
    BY <2>13 DEF EndProbe, ProbeCounts
  <2> QED
    BY <1>1, <2>1, <2>2, <2>3, <2>4, <2>5, <2>6, <2>7, <2>8, <2>9, <2>10, <2>11, <2>12,
       <2>13 DEF Callers
<1>2. CASE Operation
  <2>1. CASE RefuseStart
    BY <2>1 DEF RefuseStart, HeadIs, Settle, Latched
  <2>2. CASE BeginStart
    BY <2>2 DEF BeginStart, HeadIs, DoStop, StopInstance, Killed
  <2>3. CASE BeginStop
    BY <2>3 DEF BeginStop, HeadIs, NothingRuns, DoStop, StopInstance, Killed
  <2>4. CASE NothingToStop
    BY <2>4 DEF NothingToStop, HeadIs, NothingRuns, Settle, IsModel
  <2>5. CASE BeginGiveUp
    BY <2>5 DEF BeginGiveUp, HeadIs, IsModel
  <2>6. CASE GiveUpSpared
    BY <2>6 DEF GiveUpSpared, Settle
  <2>7. CASE GiveUpStops
    BY <2>7 DEF GiveUpStops, DoStop, StopInstance, Killed
  <2>8. CASE StopSettles
    BY <2>8 DEF StopSettles, Gone, Settle
  <2>9. CASE StartRefused
    BY <2>9 DEF StartRefused, Settle
  <2>10. CASE CreateRuntime
    BY <2>10 DEF CreateRuntime
  <2> QED
    BY <1>2, <2>1, <2>2, <2>3, <2>4, <2>5, <2>6, <2>7, <2>8, <2>9, <2>10 DEF Operation
<1>3. CASE Ladder
  <2>1. CASE WalkCancelled
    BY <2>1 DEF WalkCancelled
  <2>2. CASE SkipMtp
    BY <2>2 DEF SkipMtp
  <2>3. CASE TakeRung
    BY <2>3 DEF TakeRung
  <2>4. CASE FallBackToMock
    BY <2>4 DEF FallBackToMock
  <2>5. CASE Spawn
    BY <2>5 DEF Spawn
  <2>6. CASE LoadFails
    BY <2>6 DEF LoadFails
  <2>7. CASE BindRetry
    BY <2>7 DEF BindRetry
  <2>8. CASE HealthTimeout
    BY <2>8 DEF HealthTimeout, Killed
  <2>9. CASE RungFails
    BY <2>9 DEF RungFails
  <2>10. CASE ServerUp
    BY <2>10 DEF ServerUp, Killed, Cancelled
  <2>11. CASE UpWhileDying
    BY <2>11 DEF UpWhileDying
  <2>12. CASE Label
    BY <2>12 DEF Label
  <2>13. CASE WarmUpEnds
    BY <2>13 DEF WarmUpEnds, Cancelled
  <2>14. CASE Commit
    <3> SUFFICES ASSUME NEW o \in Pending', kind'[o] = "giveUp"
                 PROVE  (HandingOver /\ o = Head)' \/ \E p \in Pending' : kind'[p] \in Ending
      BY DEF LateReports
    <3>1. /\ settled' = Head /\ issued' = issued /\ kind' = kind /\ pc' = "idle" /\ Head \in Pending
          /\ o \in Pending /\ Head < o
      BY <2>14 DEF Commit, Settle
    <3>2. CASE o = Head + 1
      BY <3>1, <3>2 DEF HandingOver
    <3>3. CASE o # Head + 1
      <4>1. Head + 1 \in Pending' /\ Head + 1 \in Pending
        BY <3>1, <3>3
      <4>2. kind[Head + 1] # "giveUp"
        BY <3>1, <3>3, <4>1
      <4>3. kind[Head + 1] \in Kinds
        BY <4>1
      <4> QED
        BY <3>1, <4>1, <4>2, <4>3
    <3> QED
      BY <3>2, <3>3
  <2>15. CASE StartFails
    BY <2>15 DEF StartFails, Gone, Settle
  <2>16. CASE \E i \in Ops : ProcessDies(i)
    BY <2>16 DEF ProcessDies
  <2>17. CASE \E i \in Ops : GraceExpires(i)
    BY <2>17 DEF GraceExpires
  <2> QED
    BY <1>3, <2>1, <2>2, <2>3, <2>4, <2>5, <2>6, <2>7, <2>8, <2>9, <2>10, <2>11, <2>12,
       <2>13, <2>14, <2>15, <2>16, <2>17 DEF Ladder
<1>4. CASE \E i \in Ops : ServerCrashes(i)
  <2> PICK i \in Ops : ServerCrashes(i)
    BY <1>4
  <2>1. Dies(i) /\ UNCHANGED restOfCrash
    BY CrashEffect
  <2>2. current # None => i = current
    BY <2>1 DEF Dies, Live
  <2>3. CASE UNCHANGED <<queueVars, claim>>
    BY <2>1, <2>3
  <2>4. CASE MayRestart /\ \E k \in CrashKinds : CrashRestart(k, i)
    BY <2>1, <2>2, <2>4 DEF CrashRestart, EnqueueStart, Enqueue
  <2>5. CASE Enqueue("giveUp", model[i]) /\ UNCHANGED <<asked, claim>>
    <3> SUFFICES ASSUME NEW o \in Pending', kind'[o] = "giveUp", current' # None,
                        model'[current'] # model'[o]
                 PROVE  shut' \/ \E p \in Pending' : kind'[p] \in Ending
      BY DEF LateReports
    <3>1. /\ issued + 1 \in Ops /\ issued' = issued + 1 /\ settled' = settled
          /\ kind' = [kind EXCEPT ![issued + 1] = "giveUp"]
          /\ model' = [model EXCEPT ![issued + 1] = model[i]]
          /\ current' = current /\ shut' = shut
      BY <2>1, <2>5 DEF Enqueue
    <3>2. current <= issued /\ current \in Ops
      BY <3>1
    <3>3. o \in Pending /\ kind[o] = "giveUp" /\ model[current] # model[o]
      BY <2>2, <3>1, <3>2
    <3>4. shut \/ \E p \in Pending : kind[p] \in Ending
      BY <2>1, <3>1, <3>2, <3>3 DEF Dies
    <3> QED
      BY <3>1, <3>4
  <2> QED
    BY <2>3, <2>4, <2>5, CrashEffect
<1> QED
  BY <1>1, <1>2, <1>3, <1>4 DEF Next

(* What ends a dead runtime. *)

LEMMA DueStep ==
  ASSUME TypeOK, InCharge, LockHolds, HandlersWait, LateReports, Labelled, DeadIsDue, Next
  PROVE  DeadIsDue'
<1> USE DEF TypeOK, QueueTypes, OperationTypes, InstanceTypes, FlagTypes, CallerTypes,
            Processes, Backends, InCharge, HeadInCharge, NoOrphan, CommittedIsOld, Labelled,
            DeadIsDue, ShownDead, EndsIt, Answers, Ending, Walking, StartKinds, Head,
            Pending
<1>1. CASE Callers
  <2>1. CASE \E m \in Models : RequestStart(m)
    BY <2>1 DEF RequestStart
  <2>2. CASE \E r \in requests : StartAdmitted(r)
    BY <2>2 DEF StartAdmitted, EnqueueStart, Enqueue, Admits
  <2>3. CASE \E r \in requests : RequestEnds(r)
    BY <2>3 DEF RequestEnds
  <2>4. CASE RestartModel
    BY <2>4 DEF RestartModel, EnqueueStart, Enqueue, Admits
  <2>5. CASE StopModel
    BY <2>5 DEF StopModel, EnqueueStop, Enqueue, CancelStart, StopInstance, Killed
  <2>6. CASE BeginLock
    BY <2>6 DEF BeginLock
  <2>7. CASE LockTeardown
    BY <2>7 DEF LockTeardown, EnqueueStop, Enqueue, CancelStart, StopInstance, Killed
  <2>8. CASE FinishLock
    BY <2>8 DEF FinishLock, LockHolds, LockAwaits, FinalStop, Down
  <2>9. CASE Unlock
    BY <2>9 DEF Unlock, LockHolds, LockedIsDown, Down
  <2>10. CASE Shutdown
    BY <2>10 DEF Shutdown
  <2>11. CASE QuitStop
    BY <2>11 DEF QuitStop, EnqueueStop, Enqueue, CancelStart, StopInstance, Killed
  <2>12. CASE BeginProbe
    BY <2>12 DEF BeginProbe
  <2>13. CASE EndProbe
    BY <2>13 DEF EndProbe, ProbeCounts
  <2> QED
    BY <1>1, <2>1, <2>2, <2>3, <2>4, <2>5, <2>6, <2>7, <2>8, <2>9, <2>10, <2>11, <2>12,
       <2>13 DEF Callers
<1>2. CASE Operation
  <2>1. CASE RefuseStart
    BY <2>1 DEF RefuseStart, HeadIs, Settle, Latched
  <2>2. CASE BeginStart
    BY <2>2 DEF BeginStart, HeadIs, DoStop, StopInstance, Killed
  <2>3. CASE BeginStop
    BY <2>3 DEF BeginStop, HeadIs, NothingRuns, DoStop, StopInstance, Killed
  <2>4. CASE NothingToStop
    <3> SUFFICES ASSUME ShownDead, NEW o \in Pending, EndsIt(o)
                 PROVE  \E p \in Pending' : EndsIt(p)'
      BY <2>4 DEF NothingToStop, Settle
    <3>1. HeadIs({"giveUp"}) /\ model[current] # model[Head]
      BY <2>4 DEF NothingToStop, NothingRuns, IsModel
    <3>2. o # Head /\ UNCHANGED <<kind, model, current, issued>> /\ settled' = Head
      BY <2>4, <3>1 DEF NothingToStop, Settle, HeadIs
    <3> QED
      BY <3>2
  <2>5. CASE BeginGiveUp
    BY <2>5 DEF BeginGiveUp, HeadIs, IsModel
  <2>6. CASE GiveUpSpared
    BY <2>6 DEF GiveUpSpared, Settle
  <2>7. CASE GiveUpStops
    BY <2>7 DEF GiveUpStops, DoStop, StopInstance, Killed
  <2>8. CASE StopSettles
    BY <2>8 DEF StopSettles, Gone, Settle
  <2>9. CASE StartRefused
    BY <2>9 DEF StartRefused, Settle
  <2>10. CASE CreateRuntime
    BY <2>10 DEF CreateRuntime
  <2> QED
    BY <1>2, <2>1, <2>2, <2>3, <2>4, <2>5, <2>6, <2>7, <2>8, <2>9, <2>10 DEF Operation
<1>3. CASE Ladder
  <2>1. CASE WalkCancelled
    BY <2>1 DEF WalkCancelled
  <2>2. CASE SkipMtp
    BY <2>2 DEF SkipMtp
  <2>3. CASE TakeRung
    BY <2>3 DEF TakeRung
  <2>4. CASE FallBackToMock
    BY <2>4 DEF FallBackToMock
  <2>5. CASE Spawn
    BY <2>5 DEF Spawn
  <2>6. CASE LoadFails
    BY <2>6 DEF LoadFails
  <2>7. CASE BindRetry
    BY <2>7 DEF BindRetry
  <2>8. CASE HealthTimeout
    BY <2>8 DEF HealthTimeout, Killed
  <2>9. CASE RungFails
    BY <2>9 DEF RungFails
  <2>10. CASE ServerUp
    BY <2>10 DEF ServerUp, Killed, Cancelled
  <2>11. CASE UpWhileDying
    BY <2>11 DEF UpWhileDying
  <2>12. CASE Label
    BY <2>12 DEF Label
  <2>13. CASE WarmUpEnds
    BY <2>13 DEF WarmUpEnds, Cancelled
  <2>14. CASE Commit
    BY <2>14 DEF Commit, Settle
  <2>15. CASE StartFails
    BY <2>15 DEF StartFails, Gone, Settle
  <2>16. CASE \E i \in Ops : ProcessDies(i)
    BY <2>16 DEF ProcessDies
  <2>17. CASE \E i \in Ops : GraceExpires(i)
    BY <2>17 DEF GraceExpires
  <2> QED
    BY <1>3, <2>1, <2>2, <2>3, <2>4, <2>5, <2>6, <2>7, <2>8, <2>9, <2>10, <2>11, <2>12,
       <2>13, <2>14, <2>15, <2>16, <2>17 DEF Ladder
<1>4. CASE \E i \in Ops : ServerCrashes(i)
  <2> PICK i \in Ops : ServerCrashes(i)
    BY <1>4
  <2>1. Dies(i) /\ UNCHANGED restOfCrash
    BY CrashEffect
  <2>2. current # None => i = current
    BY <2>1 DEF Dies, Live
  <2> SUFFICES ASSUME current # None, ~shut, ws = "open"
               PROVE  \E o \in Pending' : EndsIt(o)'
    BY <2>1
  <2>3. /\ i = current /\ current' = current /\ current \in Ops /\ current <= issued
        /\ backend[i] # "none" /\ ~HandingOver /\ MayRestart
    BY <2>1, <2>2 DEF Dies, MayRestart, Admits
  <2>4. ASSUME UNCHANGED queueVars, NEW o \in Pending, EndsIt(o)
        PROVE  \E p \in Pending' : EndsIt(p)'
    BY <2>3, <2>4
  <2>5. ASSUME NEW k \in Kinds, Enqueue(k, model[i])
        PROVE  \E p \in Pending' : EndsIt(p)'
    <3>1. issued + 1 \in Pending' /\ issued + 1 \in Ops
      BY <2>5 DEF Enqueue
    <3>2. kind'[issued + 1] = k /\ model'[issued + 1] = model[i] /\ model'[current'] = model[i]
      BY <2>3, <2>5, <3>1 DEF Enqueue
    <3> QED
      BY <2>3, <2>5, <3>1, <3>2 DEF Kinds
  <2>6. CASE CrashIgnored(i)
    <3>1. UNCHANGED queueVars
      BY <2>6 DEF CrashIgnored
    <3>2. CASE gpuBusy # None
      BY <2>4, <3>1, <3>2 DEF HandlersWait, CardAwaits, Awaits
    <3>3. CASE cpuBusy # None
      <4>1. cpuBusy \in Pending /\ kind[cpuBusy] \in {"cpuRestart", "giveUp"}
        BY <3>3 DEF HandlersWait, CpuAwaits, Awaits
      <4>2. CASE EndsIt(cpuBusy)
        BY <2>4, <3>1, <4>1, <4>2
      <4>3. CASE ~EndsIt(cpuBusy)
        <5>1. \E p \in Pending : kind[p] \in Ending
          BY <2>3, <4>1, <4>3 DEF LateReports
        <5> QED
          BY <2>4, <3>1, <5>1
      <4> QED
        BY <4>2, <4>3
    <3> QED
      BY <2>3, <2>6, <3>2, <3>3 DEF CrashIgnored, MayRestart
  <2>7. CASE CrashOnGpu(i)
    BY <2>3, <2>5, <2>7 DEF CrashOnGpu, CrashRestart, EnqueueStart, Kinds
  <2>8. CASE CrashOnMtp(i)
    <3>1. CASE mtpBusy = None
      BY <2>3, <2>5, <2>8, <3>1 DEF CrashOnMtp, CrashRestart, EnqueueStart, Kinds
    <3>2. CASE mtpBusy # None
      BY <2>4, <2>8, <3>2 DEF CrashOnMtp, HandlersWait, CardAwaits, Awaits
    <3> QED
      BY <3>1, <3>2
  <2>9. CASE CrashOnCpu(i)
    BY <2>3, <2>5, <2>9 DEF CrashOnCpu, CrashRestart, EnqueueStart, Kinds
  <2> QED
    BY <2>6, <2>7, <2>8, <2>9 DEF ServerCrashes
<1> QED
  BY <1>1, <1>2, <1>3, <1>4 DEF Next

-----------------------------------------------------------------------------
(* The theorems. *)

LEMMA InductiveInit == Init => Inductive
<1> SUFFICES ASSUME Init PROVE Inductive
  OBVIOUS
<1>1. WindowOwned /\ LastWordCounts
  BY DEF Init, WindowOwned, WindowPending, WindowNewest, LastWordCounts, Pending
<1>2. LockHolds /\ QuitHolds
  BY DEF Init, LockHolds, LockAwaits, LockedIsDown, QuitHolds
<1> QED
  BY TypeInit, ChargeInit, <1>1, <1>2 DEF Inductive

LEMMA InductiveStep == Inductive /\ [Next]_vars => Inductive'
<1> SUFFICES ASSUME Inductive, [Next]_vars
             PROVE  Inductive'
  OBVIOUS
<1>1. CASE Next
  BY <1>1, TypeStep, ChargeStep, WindowStep, LastWordStep, TeardownStep
     DEF Inductive, TypeOK, InCharge
<1>2. CASE UNCHANGED vars
  <2>1. TypeOK'
    BY <1>2 DEF Inductive, vars, TypeOK, QueueTypes, OperationTypes,
       InstanceTypes, LatchTypes, CallerTypes, FlagTypes
  <2>2. InCharge'
    BY <1>2 DEF Inductive, vars, InCharge, HeadInCharge, Untouched, Reachable, CommittedIsOld,
       NoOrphan, Live, Settled, Head
  <2>3. WindowOwned' /\ LastWordCounts'
    BY <1>2 DEF Inductive, vars, WindowOwned, WindowPending, WindowNewest, LastWordCounts, Pending
  <2>4. LockHolds' /\ QuitHolds'
    BY <1>2 DEF Inductive, vars, LockHolds, LockAwaits, LockedIsDown,
            QuitHolds, FinalStop, Down, Pending
  <2> QED
    BY <2>1, <2>2, <2>3, <2>4 DEF Inductive
<1> QED
  BY <1>1, <1>2

LEMMA Invariance == Spec => []Inductive
<1>1. Init => Inductive
  BY InductiveInit
<1> QED
  BY <1>1, InductiveStep, PTL DEF Spec

\* Every variable keeps its type, whatever the models, the card and the bounds.
THEOREM RuntimeTypes == Spec => []TypeOK
<1>1. Inductive => TypeOK
  BY DEF Inductive
<1> QED
  BY <1>1, Invariance, PTL

\* A llama-server that serves, loads or is about to be spawned belongs to the
\* committed runtime or to the start under way, and there are never two.
THEOREM OneOwnedServer == Spec => [](NoOrphan /\ OneServer)
<1>1. Inductive => NoOrphan /\ OneServer
  BY DEF Inductive, InCharge, HeadInCharge, NoOrphan, OneServer
<1> QED
  BY <1>1, Invariance, PTL

\* "Starting..." is on the screen exactly while a start is queued or running.
THEOREM WindowShown == Spec => []StartingShown
<1>1. Inductive => StartingShown
  BY DEF Inductive, TypeOK, QueueTypes, OperationTypes, WindowOwned, WindowPending, WindowNewest,
         StartingShown, Pending
<1> QED
  BY <1>1, Invariance, PTL

\* No stop and no later start settled after the call whose model runs.
THEOREM LastWord == Spec => []LastWordCounts
<1>1. Inductive => LastWordCounts
  BY DEF Inductive
<1> QED
  BY <1>1, Invariance, PTL

\* Nothing serves behind the lock screen, and nothing queued will start there.
THEOREM TornDown == Spec => []LockedMeansStopped
<1>1. Inductive => LockedMeansStopped
  BY DEF Inductive, InCharge, NoOrphan, LockHolds, LockedIsDown, Down, LockedMeansStopped, Live
<1> QED
  BY <1>1, Invariance, PTL

\* No server lives once the stop of a quit settled: the exit orphans nothing.
THEOREM QuitTornDown == Spec => []QuitLeavesNothing
<1>1. Inductive => QuitLeavesNothing
  BY DEF Inductive, InCharge, NoOrphan, QuitHolds, FinalStop, Down, QuitLeavesNothing, Live
<1> QED
  BY <1>1, Invariance, PTL

(* What holds on top of it: the sessions, the restarts and the crashes. *)

LEMMA LastingInit == Init => Lasting
<1> SUFFICES ASSUME Init PROVE Lasting
  OBVIOUS
<1>1. SessionHolds
  BY DEF Init, SessionHolds, Pending
<1>2. RungsTrusted
  BY DEF Init, RungsTrusted, ServersTrusted, WalkTrusted, LoadTrusted, Live
<1>3. RestartsPaid /\ NoCrashLoop
  BY DEF Init, RestartsPaid, NoCrashLoop
<1>4. HandlersWait /\ LateReports
  BY DEF Init, HandlersWait, CardAwaits, CpuAwaits, OneReport, Awaits, LateReports, Pending
<1>5. Labelled /\ DeadIsDue
  BY DEF Init, Labelled, DeadIsDue, ShownDead
<1> QED
  BY <1>1, <1>2, <1>3, <1>4, <1>5 DEF Lasting, RestartsHold, CrashesHold

LEMMA LastingStep == Inductive /\ Lasting /\ [Next]_vars => Lasting'
<1> SUFFICES ASSUME Inductive, Lasting, [Next]_vars
             PROVE  Lasting'
  OBVIOUS
<1> USE DEF Lasting, RestartsHold, CrashesHold
<1>1. CASE Next
  <2>1. SessionHolds'
    BY <1>1, SessionStep DEF Inductive, TypeOK, InCharge
  <2>2. RungsTrusted'
    BY <1>1, RungStep DEF Inductive, InCharge
  <2>3. RestartsPaid' /\ NoCrashLoop'
    BY <1>1, PaidStep DEF Inductive, RungsTrusted
  <2>4. HandlersWait' /\ Labelled'
    BY <1>1, HandlersStep, LabelStep DEF Inductive, InCharge
  <2>5. LateReports'
    BY <1>1, LateReportStep DEF Inductive, InCharge
  <2>6. DeadIsDue'
    BY <1>1, DueStep DEF Inductive
  <2> QED
    BY <2>1, <2>2, <2>3, <2>4, <2>5, <2>6
<1>2. CASE UNCHANGED vars
  <2> USE <1>2 DEF vars
  <2>1. SessionHolds'
    BY DEF SessionHolds, Pending
  <2>2. RungsTrusted'
    BY DEF RungsTrusted, ServersTrusted, WalkTrusted, LoadTrusted, OnTrustedRung, Live
  <2>3. RestartsPaid' /\ NoCrashLoop'
    BY DEF RestartsPaid, NoCrashLoop
  <2>4. HandlersWait' /\ LateReports'
    BY DEF HandlersWait, CardAwaits, CpuAwaits, OneReport, Awaits, LateReports, HandingOver,
           Pending, Head
  <2>5. Labelled' /\ DeadIsDue'
    BY DEF Labelled, DeadIsDue, ShownDead, EndsIt, Answers, Pending
  <2> QED
    BY <2>1, <2>2, <2>3, <2>4, <2>5
<1> QED
  BY <1>1, <1>2

LEMMA Lasts == Spec => [](Inductive /\ Lasting)
<1>1. Init => Inductive /\ Lasting
  BY InductiveInit, LastingInit
<1>2. Inductive /\ Lasting /\ [Next]_vars => (Inductive /\ Lasting)'
  BY InductiveStep, LastingStep
<1> QED
  BY <1>1, <1>2, PTL DEF Spec

\* The model that runs was asked for in this session: no start crosses a lock.
THEOREM NoOldSession == Spec => []SessionsModel
<1>1. Inductive /\ Lasting => SessionsModel
  BY DEF Lasting, SessionHolds, SessionsModel
<1> QED
  BY <1>1, Lasts, PTL

\* No crash loop: each handler restarts a model once in a session of the program,
\* however crashes, starts, stops and locks interleave (for the graphics card
\* unless a write of its flag failed).
THEOREM CrashLoopsEnd == Spec => []NoCrashLoop
<1>1. Inductive /\ Lasting => NoCrashLoop
  BY DEF Lasting, RestartsHold
<1> QED
  BY <1>1, Lasts, PTL

\* The record's two automatic restarts (docs/architecture.md:4482) are kept for
\* every model without a speculative rung while the settings can be written.
TwoRestartsWithoutMtp ==
    ~flagLost => \A m \in Models \ MtpModels : Cardinality(CrashRestarts(m)) <= 2

THEOREM RecordKeptWithoutMtp == Spec => []TwoRestartsWithoutMtp
<1>1. Inductive /\ Lasting => TwoRestartsWithoutMtp
  <2> SUFFICES ASSUME Inductive, Lasting, ~flagLost, NEW m \in Models \ MtpModels
               PROVE  Cardinality(CrashRestarts(m)) <= 2
    BY DEF TwoRestartsWithoutMtp
  <2> DEFINE handlers == {"gpuRestart"} \union {"cpuRestart"}
             handler  == [o \in CrashRestarts(m) |-> kind[o]]
  <2>1. \A o \in CrashRestarts(m) : kind[o] \in handlers
    BY DEF CrashRestarts, Lasting, RestartsHold, RestartsPaid
  <2>2. \A o, p \in CrashRestarts(m) : kind[o] = kind[p] => o = p
    BY DEF CrashRestarts, Lasting, RestartsHold, NoCrashLoop
  <2>3. handler \in Injection(CrashRestarts(m), handlers)
    BY <2>1, <2>2 DEF Injection, IsInjective
  <2>4. IsFiniteSet(handlers) /\ Cardinality(handlers) = 2
    <3>1. IsFiniteSet({"gpuRestart"}) /\ Cardinality({"gpuRestart"}) = 1
      BY FS_Singleton
    <3>2. /\ IsFiniteSet(handlers)
          /\ Cardinality(handlers) = IF "cpuRestart" \in {"gpuRestart"} THEN Cardinality({"gpuRestart"})
                                     ELSE Cardinality({"gpuRestart"}) + 1
      BY <3>1, FS_AddElement
    <3> QED
      BY <3>1, <3>2
  <2>5. Cardinality(CrashRestarts(m)) <= Cardinality(handlers)
    <3> HIDE DEF handlers, handler
    <3> QED
      BY <2>3, <2>4, FS_Injection
  <2> QED
    BY <2>4, <2>5
<1> QED
  BY <1>1, Lasts, PTL

\* Once every call settled no dead model is shown as a healthy one.
THEOREM DeadIsNotShown == Spec => []DeadNotShownHealthy
<1>1. Inductive /\ Lasting => DeadNotShownHealthy
  BY DEF Inductive, TypeOK, QueueTypes, Lasting, CrashesHold, DeadIsDue, ShownDead, Pending,
         DeadNotShownHealthy, Quiet
<1> QED
  BY <1>1, Lasts, PTL
=============================================================================
