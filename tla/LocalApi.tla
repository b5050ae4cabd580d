------------------------------ MODULE LocalApi ------------------------------
(***************************************************************************)
(* The local API: its listener (services/local-api/server.ts), the single  *)
(* slot and single waiter of its admission (admission.ts), the requests    *)
(* that pass both on their way into the generation gate, and the seams     *)
(* that start and stop it (lifecycle.ts, the settings, lock and unlock).   *)
(*                                                                         *)
(* A step is one synchronous stretch.  What a handler does between two     *)
(* awaits is one action, the gate's share of it and the pre-emption hook's *)
(* included.  Timers fire at any time, except that the 500 ms grace of a   *)
(* stop ends before the five seconds an in-app answer waits.               *)
(***************************************************************************)
EXTENDS GenerationGate, Sequences

CONSTANTS Nobody, MaxOps    \* bound: operations queued in the server

ASSUME NobodyAssumption == Nobody \notin Requests
ASSUME OpsAssumption == MaxOps \in Nat \ {0}

VARIABLES
    active, queued,      \* LocalApiAdmission: the holder of the slot, the waiter
    req,                 \* per request: where its handler is, its access key
    ops, phase,          \* the operations not yet settled, the await of the first
    moving,              \* the running operation re-binds after its stop
    listening, hook,     \* servers.length > 0; setExternalPreemption
    stopping, failed,    \* the stop latch; lastError
    moved, enabled,      \* the setting: another port than the bound one; on
    ws, lockWaits        \* the workspace; the lock awaits localApi.stop()

admVars    == <<active, queued>>
serverVars == <<ops, phase, moving, listening, hook, stopping, failed, moved>>
worldVars  == <<enabled, ws, lockWaits>>
vars == <<gateVars, admVars, req, serverVars, worldVars>>

\* "body": the access key was checked, the body is awaited; "queued" and "held":
\* awaiting admission.ready; "running": inside the gate; "settled": the generator
\* has settled, the slot is not released yet.
Stages == {"free", "body", "queued", "held", "running", "settled"}
NoReq  == [at |-> "free", oldKey |-> FALSE]
Live   == {r \in Requests : req[r].at # "free"}

\* admitsWork of the admission; isExternallyBusy and hasActiveDocTask.
Admits  == ws = "open" /\ ~stopping
IdleNow == model = "up" /\ ~Busy /\ holding \cap Jobs = {}

\* What abortAll does, as values: the waiter's place and record, the signals.
Dropped     == {queued} \ {Nobody}
\* variant: the waiter is aborted, the active request is not
AbortedWaiter == {queued} \ {Nobody}
AbortedReqs == {active} \ {Nobody}
FreeAll(S)  == [r \in Requests |-> IF r \in S THEN NoReq ELSE req[r]]

AbortAllRequests ==
    /\ queued' = Nobody
    /\ req' = FreeAll(Dropped)
    /\ UNCHANGED active

-----------------------------------------------------------------------------
\* The runtime and the in-app callers, with the hooks they fire.

\* endWorkOnModelStop: the request first, then the answers; of the jobs, a build
\* and the skill runs that stream.
UserStopsModel ==
    /\ \E ended \in SUBSET (Jobs \cap holding) :
          StopModel(AbortedReqs \cup (Chats \cap holding) \cup ended)
    /\ AbortAllRequests
    /\ UNCHANGED <<serverVars, worldVars>>

\* A crash restart stops without the hook.
CrashStopsModel ==
    /\ StopModel({})
    /\ UNCHANGED <<admVars, req, serverVars, worldVars>>

RuntimeMoves ==
    /\ KillSettles \/ (LoadBegins /\ ws = "open") \/ LoadEnds
    /\ UNCHANGED <<admVars, req, serverVars, worldVars>>

TurnEnters(t) ==
    /\ EnterInApp(t, IF hook THEN AbortedReqs ELSE {})
    /\ IF hook THEN AbortAllRequests ELSE UNCHANGED <<admVars, req>>
    /\ UNCHANGED <<serverVars, worldVars>>

TurnMoves(t) ==
    /\ \/ Prepare(t) /\ ws = "open"
       \/ Finish(t) \/ Resume(t) \/ EndInApp(t) \/ StopTurn(t)
       \/ TeardownBound(t) /\ phase # "grace"
    /\ UNCHANGED <<admVars, req, serverVars, worldVars>>

-----------------------------------------------------------------------------
\* Requests.

Arrive(r) ==
    /\ listening
    /\ req[r].at = "free"
    /\ req' = [req EXCEPT ![r].at = "body"]
    /\ RenewSignal(r)
    /\ UNCHANGED <<admVars, serverVars, worldVars>>

\* The body is there: the key is checked again, the model gate, then tryAdmit.
Admit(r) ==
    /\ req[r].at = "body"
    /\ LET refused == req[r].oldKey \/ model # "up" \/ ~Admits
           takes   == ~refused /\ active = Nobody /\ IdleNow
           waits   == ~refused /\ active # Nobody /\ queued = Nobody
       IN  /\ active' = IF takes THEN r ELSE active
           /\ queued' = IF waits THEN r ELSE queued
           /\ req' = [req EXCEPT ![r] = IF takes THEN [@ EXCEPT !.at = "held"]
                                        ELSE IF waits THEN [@ EXCEPT !.at = "queued"]
                                        ELSE NoReq]
    /\ UNCHANGED <<gateVars, serverVars, worldVars>>

\* releaseRecord of the slot's holder, whose own record becomes free: the
\* waiter is promoted into a world that still admits it, or refused now.
Release(r) ==
    /\ active = r
    /\ queued' = Nobody
    /\ LET promoted == /\ queued # Nobody
                       /\ Admits /\ IdleNow
                       /\ ~call[queued].aborted
       IN  /\ active' = IF promoted THEN queued ELSE Nobody
           /\ req' = [x \in Requests |->
                 IF x = r THEN NoReq
                 ELSE IF x = queued
                      THEN IF promoted THEN [req[x] EXCEPT !.at = "held"] ELSE NoReq
                      ELSE req[x]]
    /\ RenewSignal(r)
    /\ UNCHANGED <<serverVars, worldVars>>

\* ready was true: the model is looked up again and the stream starts, or the
\* gate refuses it in the frame that counted it.
Continue(r) ==
    /\ req[r].at = "held"
    /\ \/ model # "up" /\ Release(r)
       \/ /\ model = "up" /\ Refused(r)
          /\ req' = [req EXCEPT ![r].at = "settled"]
          /\ UNCHANGED <<gateVars, admVars, serverVars, worldVars>>
       \/ /\ model = "up"
          /\ EnterExternal(r)
          /\ req' = [req EXCEPT ![r].at = "running"]
          /\ UNCHANGED <<admVars, serverVars, worldVars>>

\* The socket does not drain, or drains again.
Backpressure(r) ==
    /\ Park(r) \/ Unpark(r)
    /\ UNCHANGED <<admVars, req, serverVars, worldVars>>

\* Finished, failed, aborted, or ended by the drain timeout's return().
EndStream(r) ==
    /\ req[r].at = "running"
    /\ EndExternal(r)
    /\ req' = [req EXCEPT ![r].at = "settled"]
    /\ UNCHANGED <<admVars, serverVars, worldVars>>

\* The answer is written, the finally releases.
Answer(r) == req[r].at = "settled" /\ Release(r)

\* variant: the place in the queue is not vacated
TimeoutKeepsPlace(r) ==
    /\ req[r].at = "queued"
    /\ req' = [req EXCEPT ![r] = NoReq]
    /\ UNCHANGED <<gateVars, admVars, serverVars, worldVars>>
QueueTimeout(r) ==
    /\ req[r].at = "queued"
    /\ queued' = IF queued = r THEN Nobody ELSE queued
    /\ req' = [req EXCEPT ![r] = NoReq]
    /\ UNCHANGED <<gateVars, active, serverVars, worldVars>>

\* The client closes its socket.
ClientGone(r) ==
    /\ \/ /\ req[r].at = "body"
          /\ req' = [req EXCEPT ![r] = NoReq]
          /\ UNCHANGED <<gateVars, admVars>>
       \/ /\ req[r].at = "queued" /\ queued = r
          /\ queued' = Nobody
          /\ req' = [req EXCEPT ![r] = NoReq]
          /\ UNCHANGED <<gateVars, active>>
       \/ /\ req[r].at \in {"held", "running"}
          /\ AbortExternal({r})
          /\ UNCHANGED <<admVars, req>>
    /\ UNCHANGED <<serverVars, worldVars>>

\* localApiRegenerateToken: every request so far carries the key of before.
RotateKey ==
    /\ ws # "locked"
    /\ AbortExternal(AbortedReqs)
    /\ queued' = Nobody
    /\ req' = [r \in Requests |-> IF r \in Live \ Dropped THEN [req[r] EXCEPT !.oldKey = TRUE]
                                                          ELSE NoReq]
    /\ UNCHANGED <<active, serverVars, worldVars>>

-----------------------------------------------------------------------------
\* The server's operations, one at a time.

\* "run" and "halt": applySettings; "lock": the stop() of runLockTeardown.  Each
\* that ends the endpoint raises the stop latch at once, ahead of its turn.
Enqueue(op) ==
    /\ ops' = Append(ops, op)
    /\ stopping' = (stopping \/ op # "run")

\* localApiEffectivelyEnabled and workspaceAdmitsWork, read when the seam calls.
Wanted(on, state) == IF on /\ state = "open" THEN "run" ELSE "halt"

OpDone ==
    /\ ops' = Tail(ops)
    /\ phase' = "idle"
    /\ lockWaits' = (lockWaits /\ Head(ops) # "lock")

\* doStart up to the first bind.
\* variant: the stop latch stays up
StartLatched ==
    /\ failed' = FALSE
    /\ moved' = FALSE
    /\ phase' = "bind4"
    /\ UNCHANGED stopping
StartBinding ==
    /\ stopping' = FALSE
    /\ failed' = FALSE
    /\ moved' = FALSE
    /\ phase' = "bind4"

\* doStop up to its grace.
BeginStop ==
    /\ AbortExternal(AbortedReqs)
    /\ AbortAllRequests
    /\ hook' = FALSE
    /\ failed' = FALSE
    /\ phase' = "grace"
    /\ UNCHANGED <<ops, listening, stopping, moved, worldVars>>

RunOp ==
    /\ phase = "idle" /\ ops # <<>>
    /\ \/ /\ Head(ops) = "run" /\ listening /\ ~moved
          /\ stopping' = FALSE
          /\ OpDone
          /\ UNCHANGED <<gateVars, admVars, req, moving, listening, hook, failed, moved,
                         enabled, ws>>
       \/ /\ Head(ops) = "run" /\ ~listening
          /\ StartBinding
          /\ UNCHANGED <<gateVars, admVars, req, ops, moving, listening, hook, worldVars>>
       \/ /\ Head(ops) # "run" \/ (listening /\ moved)
          /\ BeginStop
          /\ moving' = (Head(ops) = "run")

\* 127.0.0.1 is bound, or the port is taken; ::1 is bound, is missing on this
\* machine, or is taken.  The pre-emption hook is registered last.
Bind4 ==
    /\ phase = "bind4"
    /\ \/ /\ listening' = TRUE /\ phase' = "bind6"
          /\ UNCHANGED <<ops, failed, lockWaits>>
       \/ /\ failed' = TRUE
          /\ OpDone
          /\ UNCHANGED listening
    /\ UNCHANGED <<gateVars, admVars, req, moving, hook, stopping, moved, enabled, ws>>

Bind6 ==
    /\ phase = "bind6"
    /\ \/ /\ hook' = TRUE
          /\ OpDone
          /\ UNCHANGED <<gateVars, admVars, req, listening, failed>>
       \/ /\ listening' = FALSE
          /\ failed' = TRUE
          /\ OpDone
          /\ AbortExternal({r \in Live : req[r].at \in {"held", "running"}})
          /\ queued' = Nobody
          /\ req' = FreeAll({r \in Live : req[r].at = "body"} \cup Dropped)
          /\ UNCHANGED <<active, hook>>
    /\ UNCHANGED <<moving, stopping, moved, enabled, ws>>

\* Every answer was flushed, or 500 ms are over: closeAll destroys the sockets
\* and with them every request that is still there.
CloseAll ==
    /\ phase = "grace"
    /\ listening' = FALSE
    /\ phase' = "closing"
    /\ AbortExternal({r \in Live : req[r].at \in {"held", "running"}})
    /\ queued' = Nobody
    /\ req' = FreeAll({r \in Live : req[r].at = "body"} \cup Dropped)
    /\ UNCHANGED <<active, ops, moving, hook, stopping, failed, moved, worldVars>>

Closed ==
    /\ phase = "closing"
    /\ IF moving
       THEN /\ StartBinding
            /\ UNCHANGED <<ops, lockWaits>>
       ELSE /\ OpDone
            /\ UNCHANGED <<stopping, failed, moved>>
    /\ moving' = FALSE
    /\ UNCHANGED <<gateVars, admVars, req, listening, hook, enabled, ws>>

-----------------------------------------------------------------------------
\* The seams: settings, lock, a failed lock, unlock.

Seam == UNCHANGED <<gateVars, admVars, req, phase, moving, listening, hook, failed>>
Room == Len(ops) < MaxOps

ToggleSetting ==
    /\ Room /\ ws # "locked"
    /\ enabled' = ~enabled
    /\ Enqueue(Wanted(enabled', ws))
    /\ Seam /\ UNCHANGED <<moved, ws, lockWaits>>

ChangePort ==
    /\ Room /\ ws # "locked"
    /\ moved' = ~moved
    /\ Enqueue(Wanted(enabled, ws))
    /\ Seam /\ UNCHANGED worldVars

BeginLock ==
    /\ Room /\ ws = "open"
    /\ ws' = "locking"
    /\ lockWaits' = TRUE
    /\ Enqueue("lock")
    /\ Seam /\ UNCHANGED <<moved, enabled>>

\* The vault is sealed, or the lock failed and the endpoint is brought back.
LockSettles ==
    /\ ws = "locking" /\ ~lockWaits
    /\ \/ /\ ws' = "locked"
          /\ UNCHANGED <<ops, stopping>>
       \/ /\ Room
          /\ ws' = "open"
          /\ Enqueue(Wanted(enabled, ws'))
    /\ Seam /\ UNCHANGED <<moved, enabled, lockWaits>>

Unlock ==
    /\ Room /\ ws = "locked"
    /\ ws' = "open"
    /\ Enqueue(Wanted(enabled, ws'))
    /\ Seam /\ UNCHANGED <<moved, enabled, lockWaits>>

-----------------------------------------------------------------------------
Init ==
    /\ GateInit
    /\ active = Nobody /\ queued = Nobody
    /\ req = [r \in Requests |-> NoReq]
    /\ ops = <<>> /\ phase = "idle" /\ moving = FALSE
    /\ listening = FALSE /\ hook = FALSE
    /\ stopping = FALSE /\ failed = FALSE /\ moved = FALSE
    /\ enabled = FALSE /\ ws = "locked" /\ lockWaits = FALSE

Request(r) == \/ Arrive(r) \/ Admit(r) \/ Continue(r) \/ Backpressure(r) \/ EndStream(r)
              \/ Answer(r) \/ QueueTimeout(r) \/ ClientGone(r)
Server == RunOp \/ Bind4 \/ Bind6 \/ CloseAll \/ Closed

Next ==
    \/ UserStopsModel \/ CrashStopsModel \/ RuntimeMoves
    \/ \E t \in Turns : TurnEnters(t) \/ TurnMoves(t)
    \/ \E r \in Requests : Request(r)
    \/ RotateKey
    \/ Server
    \/ ToggleSetting \/ ChangePort \/ BeginLock \/ LockSettles \/ Unlock

Spec == Init /\ [][Next]_vars

\* A stream ends: the watchdogs and the token limit see to it.  A body that
\* does not come is ended by its timers.  Nothing is assumed of the callers.
Fairness ==
    /\ \A r \in Requests : /\ WF_vars(Admit(r)) /\ WF_vars(Continue(r))
                           /\ WF_vars(EndStream(r)) /\ WF_vars(Answer(r))
                           /\ WF_vars(QueueTimeout(r))
FairSpec == Spec /\ Fairness

-----------------------------------------------------------------------------
\* Properties.

\* Every variable keeps its shape; the gate's are GateTypeOK's.
TypeOK ==
    /\ GateTypeOK
    /\ active \in Requests \cup {Nobody} /\ queued \in Requests \cup {Nobody}
    /\ req \in [Requests -> [at : Stages, oldKey : BOOLEAN]]
    /\ ops \in Seq({"run", "halt", "lock"})
    /\ phase \in {"idle", "bind4", "bind6", "grace", "closing"}
    /\ ws \in {"open", "locking", "locked"}
    /\ {moving, listening, hook, stopping, failed, moved, enabled, lockWaits} \subseteq BOOLEAN

\* The slot belongs to one request from its admission until its generator has
\* settled, whoever aborted it meanwhile: nobody is promoted beside a stream
\* that is still ending (the release contract of Admission).
SlotHeldUntilSettled ==
    \A r \in Requests : req[r].at \in {"held", "running", "settled"} <=> active = r

\* There is a waiter only behind a holder, and the waiting request is the one
\* its record names: nobody waits for a release that will not come.
NoStrandedWaiter ==
    /\ queued # Nobody => active # Nobody
    /\ \A r \in Requests : req[r].at = "queued" <=> queued = r

\* After the access key was replaced, a request let in with the old one is
\* turned away or its stream is already aborted (localApiRegenerateToken).
OldKeyStopsWorking ==
    \A r \in Requests : req[r].oldKey /\ req[r].at \in {"queued", "held", "running"}
                        => call[r].aborted

\* Once the server's operations have settled, the listener follows the setting
\* and the workspace: none is left behind by a disable or a lock, and one that
\* should run does, on the port of the setting and with its latch down and the
\* pre-emption hook in place, unless the last bind failed.
ListenerFollowsTheSetting ==
    ops = <<>> =>
        /\ listening => enabled /\ ws = "open" /\ ~moved /\ ~stopping /\ hook
        /\ enabled /\ ws = "open" => listening \/ failed

\* Every request gets its answer: no waiter is forgotten, no slot is kept.
EveryRequestAnswered == \A r \in Requests : req[r].at # "free" ~> req[r].at = "free"
=============================================================================
