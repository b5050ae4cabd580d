------------------------------ MODULE ModelSlot ------------------------------
(***************************************************************************)
(* Who uses the one chat model: document tasks (DocTaskManager,            *)
(* services/doctasks/manager.ts), chat and document answers                *)
(* (ipc/chat-stream.ts) and skill runs that stream on the model            *)
(* themselves (registerSkillsIpc.ts).  A deep-index build ("tree", and     *)
(* "extract") gives the model up between two nodes through the             *)
(* ModelSlotArbiter (services/analysis/model-slot-arbiter.ts) when an      *)
(* answer asks for it, and takes it back after the last answer.            *)
(*                                                                         *)
(* A step is one synchronous stretch of the main process.  Two awaits are  *)
(* kept apart because something can happen between them: an answer woken   *)
(* by the hand-over has not run yet when its Stop arrives, and a build     *)
(* whose wait was settled has not run yet when the next answer asks.       *)
(***************************************************************************)
EXTENDS Naturals, Sequences, FiniteSets

CONSTANTS
    Tasks,   \* job ids; an id is used again once its job has ended
    Chats,   \* conversations
    Docs,    \* documents
    StartKinds, \* kinds of task the user starts
    Nodes,   \* bound: model calls of one build
    NoTask

ASSUME NodesAssumption == Nodes \in Nat \ {0}
ASSUME KindsAssumption == StartKinds \subseteq {"tree", "deep", "extract", "summary"}
ASSUME NoTaskAssumption == NoTask \notin Tasks
ASSUME ChatsAssumption == IsFiniteSet(Chats)
ASSUME DocsAssumption == Docs # {}

\* "deep" is a tree build that chains an extract; "summary" stands for every
\* task on the chat model that does not yield.
Kinds    == {"tree", "deep", "extract", "summary"}
Building == {"tree", "extract", "deep"}
Outcomes == {"done", "failed", "cancelled"}

VARIABLES
    \* DocTaskManager
    queue, running,   \* ids in order of arrival; the id that was dispatched
    task,             \* per id: state, kind, document, abort signal, chained id
    \* the run() of the running task
    step, nodesLeft, outcome,
    \* ModelSlotArbiter: activeBuild, pauseRequested, handoffWaiters,
    \* chatHolders, resumeTimer, "parked longer than MAX_PARK_DEFERRAL_MS", and
    \* the promise reacquire() returned
    slot,
    \* per conversation: where its turn is, its abort signal, and whether its
    \* release still has to give a holder back
    turn,
    skillRun,         \* the "skill-run" occupancy span
    modelUp,          \* runtime.active() is not null
    workspace,        \* "open", "locking" or "locked"
    patient           \* bound: the user never starts a task while one is active

taskVars  == <<queue, running, task, step, nodesLeft, outcome>>
otherVars == <<skillRun, modelUp, workspace, patient>>
vars      == <<taskVars, slot, turn, otherVars>>

FreeSlot == [build |-> NoTask, pause |-> FALSE, waiters |-> {}, holders |-> 0,
             timer |-> FALSE, overdue |-> FALSE, promise |-> "none"]
Idle     == [phase |-> "idle", aborted |-> FALSE, counted |-> FALSE]
AnyDoc   == CHOOSE d \in Docs : TRUE
\* A job that ended, however it did, is remembered for its chained id alone.
Over(next) == [state |-> "ended", kind |-> "summary", doc |-> AnyDoc, aborted |-> FALSE,
               chained |-> next]

Init ==
    /\ queue = << >> /\ running = NoTask
    /\ task = [t \in Tasks |-> Over(NoTask)]
    /\ step = "none" /\ nodesLeft = 0 /\ outcome = "done"
    /\ slot = FreeSlot
    /\ turn = [c \in Chats |-> Idle]
    /\ skillRun = FALSE /\ modelUp = TRUE /\ workspace = "open"
    /\ patient \in BOOLEAN
-----------------------------------------------------------------------------
(* What the lanes see of each other. *)

InFlight        == {c \in Chats : turn[c].phase # "idle"}
IsChatStreaming == InFlight # {}
HasActiveTask   == running # NoTask \/ queue # << >>
Live(t)         == task[t].state \in {"queued", "running"}
\* Ids a new job may get: nobody can still name the old job of that id.
Unused(tk) == {t \in Tasks : /\ tk[t].state = "ended"
                             /\ \A u \in Tasks : tk[u].chained # t}
-----------------------------------------------------------------------------
(* The arbiter, as functions of its state. *)

Registered(t) == [FreeSlot EXCEPT !.build = t]

\* unregisterBuild(): the waiters are woken by the caller of this operator.
Unregistered(s) == [FreeSlot EXCEPT !.holders = s.holders]

\* reacquire(): the build parks and hands the slot to every waiter.
Parked(s) == [s EXCEPT !.pause = FALSE, !.waiters = {}, !.timer = FALSE,
                       !.overdue = FALSE, !.promise = "pending"]

\* abort(): a parked build is rejected.
Torn(s) == [s EXCEPT !.promise = IF @ = "pending" THEN "rejected" ELSE @,
                     !.timer = FALSE, !.overdue = FALSE]

Resumed(s) ==
    IF s.holders = 0 /\ s.promise = "pending"
    THEN [s EXCEPT !.promise = "resolved", !.overdue = FALSE]
    ELSE s

\* variant: no cap on how long a park is deferred
Uncapped(s, n) ==
    LET left == IF s.holders > n THEN s.holders - n ELSE 0
    IN  IF n = 0 \/ left # 0 \/ s.promise # "pending" THEN [s EXCEPT !.holders = left]
        ELSE [s EXCEPT !.holders = left, !.timer = TRUE]

\* releaseOneChat(), n times in a row.
Released(s, n) ==
    LET left == IF s.holders > n THEN s.holders - n ELSE 0
        less == [s EXCEPT !.holders = left]
    IN  IF n = 0 \/ left # 0 \/ s.promise # "pending" THEN less
        ELSE IF s.overdue THEN Resumed(less)
        ELSE [less EXCEPT !.timer = TRUE]

\* variant: any Stop drops the pause, whoever still waits
DropsPause(s, C) == [s EXCEPT !.waiters = @ \ C, !.pause = @ /\ C \cap s.waiters = {}]
\* variant: the last Stop leaves the pause standing
KeepsPause(s, C) == [s EXCEPT !.waiters = @ \ C]

\* onAbort in waitForHandoff() for the turns in C that still wait.
NoLongerAsked(s, C) ==
    LET left == s.waiters \ C
    IN  [s EXCEPT !.waiters = left,
                  !.pause = @ /\ (C \cap s.waiters = {} \/ left # {})]

\* variant: one waiter is woken
WokenOne(tn, s) == IF s.waiters = {} THEN tn
                   ELSE [tn EXCEPT ![CHOOSE c \in s.waiters : TRUE].phase = "woken"]
Woken(tn, s) == [c \in Chats |-> IF c \in s.waiters THEN [tn[c] EXCEPT !.phase = "woken"]
                                 ELSE tn[c]]

\* The abort signal of the turns in C fires.  A turn that waits unwinds, one
\* that holds the slot gives it back; one that was just woken finds out later.
GivingUp(tn, C) == {c \in C : ~tn[c].aborted /\ tn[c].phase \in {"waiting", "streaming"}
                                             /\ tn[c].counted}
\* variant: an aborted holder releases again when its turn ends
Unlatched(tn, C) == [c \in Chats |->
    IF c \notin C \/ tn[c].phase \in {"idle", "ending"} THEN tn[c]
    ELSE [tn[c] EXCEPT !.phase = IF @ = "waiting" THEN "ending" ELSE @, !.aborted = TRUE]]
AbortedTurns(tn, C) == [c \in Chats |->
    IF c \notin C \/ tn[c].phase \in {"idle", "ending"} THEN tn[c]
    ELSE [phase   |-> IF tn[c].phase = "waiting" THEN "ending" ELSE tn[c].phase,
          aborted |-> TRUE,
          counted |-> tn[c].counted /\ c \notin GivingUp(tn, C)]]
AfterAborts(s, tn, C) == NoLongerAsked(Released(s, Cardinality(GivingUp(tn, C))), C)
-----------------------------------------------------------------------------
(* DocTaskManager *)

MayStart == workspace = "open" /\ ~IsChatStreaming /\ ~skillRun /\ modelUp

Job(k, d) == [state |-> "queued", kind |-> k, doc |-> d, aborted |-> FALSE,
              chained |-> NoTask]

\* pump(): the next id of q is dispatched, and a build registers, before the
\* call returns; nothing here looks at the answers that stream.
Pump(q, tk, s) ==
    IF q = << >>
    THEN /\ queue' = q /\ running' = NoTask /\ task' = tk
         /\ step' = "none" /\ nodesLeft' = 0 /\ outcome' = "done"
         /\ slot' = s
    ELSE LET t     == Head(q)
             build == tk[t].kind \in Building
         IN  /\ queue' = Tail(q) /\ running' = t
             /\ task' = [tk EXCEPT ![t].state = "running"]
             /\ step' = IF modelUp THEN "generating" ELSE "leaving"
             /\ outcome' = IF modelUp THEN "done" ELSE "failed"
             /\ nodesLeft' = IF build THEN Nodes ELSE 1
             /\ slot' = IF build /\ modelUp THEN Registered(t) ELSE s

\* The bound on ids: every live "deep" job can still get one for its extract.
IdsToSpare(tk) == Cardinality({t \in Tasks : tk[t].kind = "deep"
                                             /\ tk[t].state \in {"queued", "running"}})
                    <= Cardinality(Unused(tk))

StartDocTask(t, k, d) ==
    /\ MayStart
    /\ patient => ~HasActiveTask
    /\ t \in Unused(task)
    /\ LET tk == [task EXCEPT ![t] = Job(k, d)]
       IN  /\ IdsToSpare(tk)
           /\ IF running = NoTask THEN Pump(Append(queue, t), tk, slot)
              ELSE /\ queue' = Append(queue, t) /\ task' = tk
                   /\ UNCHANGED <<running, step, nodesLeft, outcome, slot>>
    /\ UNCHANGED <<turn, otherVars>>

\* An id is queued once: filtering it out removes one place.
Without(q, i) == SubSeq(q, 1, i - 1) \o SubSeq(q, i + 1, Len(q))

\* The cancel of a finished deep index passes on to the extract it chained.
CancelTarget(t) == IF task[t].state = "ended" /\ task[t].chained # NoTask
                   THEN task[t].chained ELSE t

CancelDocTask(t) ==
    LET u == CancelTarget(t)
    IN  /\ \/ /\ task[u].state = "queued"
              /\ \E i \in 1 .. Len(queue) : queue[i] = u /\ queue' = Without(queue, i)
              /\ task' = [task EXCEPT ![u] = Over(NoTask)]
              /\ UNCHANGED slot
           \/ /\ task[u].state = "running" /\ ~task[u].aborted
              /\ task' = [task EXCEPT ![u].aborted = TRUE]
              /\ slot' = IF task[u].kind \in Building THEN Torn(slot) ELSE slot
              /\ UNCHANGED queue
        /\ UNCHANGED <<running, step, nodesLeft, outcome, turn, otherVars>>

\* The handler returns or throws; a build unregisters and wakes who waits.
Leave(how) ==
    /\ step' = "leaving" /\ outcome' = how
    /\ IF task[running].kind \in Building
       THEN slot' = Unregistered(slot) /\ turn' = Woken(turn, slot)
       ELSE UNCHANGED <<slot, turn>>
    /\ UNCHANGED <<queue, running, task, nodesLeft, otherVars>>

Generating == running # NoTask /\ step = "generating"
Kind       == task[running].kind
LastNode   == nodesLeft = 1

FinishTask ==
    /\ Generating /\ ~task[running].aborted
    /\ \/ Kind \notin Building
       \/ LastNode /\ (Kind = "extract" => ~slot.pause)
    /\ Leave("done")

FailTask      == Generating /\ ~task[running].aborted /\ Leave("failed")
CancelledTask == Generating /\ task[running].aborted /\ Leave("cancelled")

\* A node is committed; the build goes on, or gives the slot up if asked to.
\* A tree does not yield after its root, an extract yields after every chunk.
CommitNode ==
    /\ Generating /\ Kind \in Building /\ ~task[running].aborted
    /\ nodesLeft' = nodesLeft - 1
    /\ \/ /\ ~slot.pause /\ ~LastNode
          /\ UNCHANGED <<step, slot, turn>>
       \/ /\ slot.pause /\ (LastNode => Kind = "extract")
          /\ step' = "parked" /\ slot' = Parked(slot) /\ turn' = Woken(turn, slot)
    /\ UNCHANGED <<queue, running, task, outcome, otherVars>>

\* What a build does once the promise of reacquire() is settled.
TakeSlotBack ==
    /\ step = "parked" /\ slot.promise = "resolved"
    /\ ~task[running].aborted
    /\ \/ /\ nodesLeft > 0
          /\ step' = "generating" /\ slot' = [slot EXCEPT !.promise = "none"]
          /\ UNCHANGED <<queue, running, task, nodesLeft, outcome, turn, otherVars>>
       \/ nodesLeft = 0 /\ Leave("done")

Unwind ==
    /\ step = "parked"
    /\ \/ slot.promise = "rejected"
       \/ slot.promise = "resolved" /\ task[running].aborted
    /\ Leave("cancelled")

PendingExtract(d) == \E t \in Tasks : Live(t) /\ task[t].kind = "extract" /\ task[t].doc = d

Chains == /\ outcome = "done" /\ Kind = "deep" /\ MayStart
          /\ ~PendingExtract(task[running].doc)

\* The end of run(): the outcome, the chained extract, and the next task.
Settle ==
    /\ step = "leaving"
    /\ \/ ~Chains /\ Pump(queue, [task EXCEPT ![running] = Over(NoTask)], slot)
       \/ /\ Chains
          /\ \E u \in Unused(task) :
                Pump(Append(queue, u),
                     [task EXCEPT ![running] = Over(u), ![u] = Job("extract", task[running].doc)],
                     slot)
    /\ UNCHANGED <<turn, otherVars>>

BuildStep == FinishTask \/ FailTask \/ CancelledTask \/ CommitNode \/ TakeSlotBack
                 \/ Unwind \/ Settle
-----------------------------------------------------------------------------
(* Answers: assertChatStreamReady, withChatStream and acquireForChat *)

AdmitsAnswer == /\ workspace = "open" /\ modelUp /\ ~skillRun
                /\ HasActiveTask => slot.build # NoTask

Ask(c) ==
    /\ AdmitsAnswer /\ turn[c].phase = "idle"
    /\ LET next(p, n) == turn' = [turn EXCEPT ![c] = [phase |-> p, aborted |-> FALSE,
                                                      counted |-> n]]
           counted    == [slot EXCEPT !.holders = @ + 1, !.timer = FALSE]
       IN  \/ /\ slot.build = NoTask
              /\ next("streaming", FALSE) /\ UNCHANGED slot
           \/ /\ slot.build # NoTask /\ slot.promise = "pending"
              /\ next("streaming", TRUE) /\ slot' = counted
           \/ /\ slot.build # NoTask /\ slot.promise # "pending"
              /\ next("waiting", TRUE)
              /\ slot' = [counted EXCEPT !.pause = TRUE, !.waiters = @ \cup {c}]
    /\ UNCHANGED <<taskVars, otherVars>>

\* A woken answer runs on; a Stop that came in between gives the slot back.
GoOn(c) ==
    /\ turn[c].phase = "woken"
    /\ IF turn[c].aborted
       THEN /\ slot' = Released(slot, 1)
            /\ turn' = [turn EXCEPT ![c].phase = "ending", ![c].counted = FALSE]
       ELSE /\ turn' = [turn EXCEPT ![c].phase = "streaming"]
            /\ UNCHANGED slot
    /\ UNCHANGED <<taskVars, otherVars>>

StopGeneration(c) ==
    /\ turn[c].phase \in {"waiting", "woken", "streaming"} /\ ~turn[c].aborted
    /\ turn' = AbortedTurns(turn, {c})
    /\ slot' = AfterAborts(slot, turn, {c})
    /\ UNCHANGED <<taskVars, otherVars>>

\* The finally of withChatStream.
EndTurn(c) ==
    /\ turn[c].phase \in {"streaming", "ending"}
    /\ slot' = Released(slot, IF turn[c].counted THEN 1 ELSE 0)
    /\ turn' = [turn EXCEPT ![c] = Idle]
    /\ UNCHANGED <<taskVars, otherVars>>

TimerFires ==
    /\ slot.timer
    /\ slot' = Resumed([slot EXCEPT !.timer = FALSE])
    /\ UNCHANGED <<taskVars, turn, otherVars>>

ParkGrowsOld ==
    /\ slot.promise = "pending" /\ ~slot.overdue
    /\ slot' = [slot EXCEPT !.overdue = TRUE]
    /\ UNCHANGED <<taskVars, turn, otherVars>>
-----------------------------------------------------------------------------
(* Skill runs, the model's own comings and goings, and the lock *)

StartSkillRun ==
    /\ workspace = "open" /\ modelUp
    /\ ~IsChatStreaming /\ ~HasActiveTask /\ ~skillRun
    /\ skillRun' = TRUE
    /\ UNCHANGED <<taskVars, slot, turn, modelUp, workspace, patient>>

EndSkillRun ==
    /\ skillRun /\ skillRun' = FALSE
    /\ UNCHANGED <<taskVars, slot, turn, modelUp, workspace, patient>>

BuildRuns == running # NoTask /\ Kind \in Building
AbortRunning(tk) == IF running = NoTask THEN tk ELSE [tk EXCEPT ![running].aborted = TRUE]

\* A stop or a switch by the user: abortActiveBuild, then the model-stop hook.
StopModel ==
    /\ workspace = "open" /\ modelUp /\ modelUp' = FALSE
    /\ task' = IF BuildRuns THEN AbortRunning(task) ELSE task
    /\ slot' = AfterAborts(IF BuildRuns THEN Torn(slot) ELSE slot, turn, InFlight)
    /\ turn' = AbortedTurns(turn, InFlight)
    /\ UNCHANGED <<queue, running, step, nodesLeft, outcome, skillRun, workspace, patient>>

\* A crash, or the stop inside a lock: nobody is told.
ModelGoes ==
    /\ modelUp /\ modelUp' = FALSE
    /\ UNCHANGED <<taskVars, slot, turn, skillRun, workspace, patient>>

StartModel ==
    /\ workspace = "open" /\ ~modelUp /\ modelUp' = TRUE
    /\ UNCHANGED <<taskVars, slot, turn, skillRun, workspace, patient>>

\* The synchronous head of the lock teardown: abort the answers, then
\* abortActiveBuild and cancelAllDocTasks.
BeginLock ==
    /\ workspace = "open" /\ workspace' = "locking"
    /\ LET s == AfterAborts(slot, turn, InFlight)
       IN  slot' = IF BuildRuns THEN Torn(s) ELSE s
    /\ turn' = AbortedTurns(turn, InFlight)
    /\ queue' = << >>
    /\ task' = [t \in Tasks |-> IF task[t].state = "queued"
                                THEN Over(NoTask)
                                ELSE AbortRunning(task)[t]]
    /\ UNCHANGED <<running, step, nodesLeft, outcome, skillRun, modelUp, patient>>

\* The model is stopped by then; the settle waits are bounded, so whatever was
\* aborted may still be unwinding.
EndLock ==
    /\ workspace = "locking" /\ ~modelUp
    /\ workspace' \in {"locked", "open"}
    /\ UNCHANGED <<taskVars, slot, turn, skillRun, modelUp, patient>>

Unlock ==
    /\ workspace = "locked" /\ workspace' = "open"
    /\ UNCHANGED <<taskVars, slot, turn, skillRun, modelUp, patient>>

Next ==
    \/ \E t \in Tasks, k \in StartKinds, d \in Docs : StartDocTask(t, k, d)
    \/ \E t \in Tasks : CancelDocTask(t)
    \/ FinishTask \/ FailTask \/ CancelledTask \/ CommitNode \/ TakeSlotBack \/ Unwind
    \/ Settle
    \/ \E c \in Chats : Ask(c) \/ GoOn(c) \/ StopGeneration(c) \/ EndTurn(c)
    \/ TimerFires \/ ParkGrowsOld
    \/ StartSkillRun \/ EndSkillRun
    \/ StopModel \/ ModelGoes \/ StartModel
    \/ BeginLock \/ EndLock \/ Unlock

Spec == Init /\ [][Next]_vars

\* What runs by itself goes on: a model call ends (token limits and the
\* watchdog bound it), a woken continuation runs, a clock ticks.  Nobody owes a
\* question, a cancel, a model or a lock.
FairSpec ==
    /\ Spec
    /\ WF_vars(BuildStep) /\ WF_vars(TimerFires) /\ WF_vars(ParkGrowsOld)
    /\ \A c \in Chats : WF_vars(GoOn(c)) /\ WF_vars(EndTurn(c))
-----------------------------------------------------------------------------
(* Properties *)

\* The type invariant of the queue, the arbiter and the turns.
TypeOK ==
    /\ queue \in Seq(Tasks) /\ running \in Tasks \cup {NoTask}
    /\ task \in [Tasks -> [state : {"queued", "running", "ended"}, kind : Kinds,
                           doc : Docs, aborted : BOOLEAN, chained : Tasks \cup {NoTask}]]
    /\ step \in {"none", "generating", "parked", "leaving"}
    /\ nodesLeft \in 0 .. Nodes /\ outcome \in Outcomes
    /\ slot \in [build : Tasks \cup {NoTask}, pause : BOOLEAN, waiters : SUBSET Chats,
                 holders : Nat, timer : BOOLEAN, overdue : BOOLEAN,
                 promise : {"none", "pending", "resolved", "rejected"}]
    /\ turn \in [Chats -> [phase : {"idle", "waiting", "woken", "streaming", "ending"},
                           aborted : BOOLEAN, counted : BOOLEAN]]
    /\ skillRun \in BOOLEAN /\ modelUp \in BOOLEAN /\ patient \in BOOLEAN
    /\ workspace \in {"open", "locking", "locked"}

\* An answer uses the model from the first call its turn makes to its last.
Streams(c) == turn[c].phase = "streaming" /\ ~turn[c].aborted
AnAnswerStreams == \E c \in Chats : Streams(c)

\* No task calls the model while an answer or a skill run does, and no skill
\* run while an answer does: "the hard one-job-at-a-time rule"
\* (model-slot-arbiter.ts:4).
OneJobAtATime ==
    /\ Generating => ~AnAnswerStreams /\ ~skillRun
    /\ skillRun => ~AnAnswerStreams

\* The same rule while the user starts no task behind a running one: whatever
\* the Stops, cancels, locks, model stops and chained extracts do, the build
\* and the answers hand the model back and forth and never both call it.
OneJobWithoutAQueue == patient => OneJobAtATime

\* An answer that waits for the slot is known to the build it waits for, and
\* that build has been asked to pause: no hand-over is lost and no answer waits
\* for a build that is gone.
NoWaiterForgotten ==
    /\ \A c \in Chats : turn[c].phase = "waiting" <=> c \in slot.waiters
    /\ slot.waiters # {} => slot.build = running /\ running # NoTask /\ slot.pause

\* A parked build has a way back: its resume timer runs, or an answer that
\* counts as a holder will still release it.
ParkedHasAWayBack ==
    slot.promise = "pending" => slot.timer \/ \E c \in Chats : turn[c].counted

\* The queue and the arbiter agree about who runs: nothing is dispatched twice,
\* nothing queued is lost, and only a running build owns the slot.
LaneIsConsistent ==
    /\ \A t \in Tasks : (task[t].state = "running") <=> t = running
    /\ \A t \in Tasks : (task[t].state = "queued") <=> \E i \in 1 .. Len(queue) : queue[i] = t
    /\ \A i, j \in 1 .. Len(queue) : queue[i] = queue[j] => i = j
    /\ slot.build # NoTask => slot.build = running /\ Kind \in Building

\* From the first act of a lock until the workspace is open again no task is
\* dispatched, neither from the queue nor by a chained extract.
NothingStartsUnderALock ==
    [][workspace # "open" => running' \in {running, NoTask}]_vars

\* An answer never waits for ever for the slot.
NoAnswerIsStarved == \A c \in Chats : turn[c].phase = "waiting" ~> turn[c].phase # "waiting"

\* If again and again no answer is in flight, every task that was accepted
\* ends: however quickly questions follow each other, a build gets the slot
\* back (the starvation guarantee), and the tasks behind it get their turn.
EveryTaskEnds ==
    []<>~IsChatStreaming => \A t \in Tasks : Live(t) ~> ~Live(t)
=============================================================================
