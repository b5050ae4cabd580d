--------------------------- MODULE RuntimeManager ---------------------------
(***************************************************************************)
(* The chat runtime: RuntimeManager (services/runtime/index.ts), which     *)
(* serialises every start and stop of the one llama-server; the ladder of  *)
(* start attempts behind each start (LadderRuntime, runtime/factory.ts);   *)
(* the child process under it (LlamaServer, runtime/sidecar.ts); the three *)
(* crash handlers; and the callers that decide whether a start may be      *)
(* asked for at all: the IPC start request, the lock and the quit.         *)
(*                                                                         *)
(* Every call that goes through the queue gets a number, in the order of   *)
(* the calls.  The queue is first in, first out, so its content is the     *)
(* interval settled+1 .. issued and its head is the operation that runs.   *)
(* The runtime instance an operation creates carries the operation's       *)
(* number, and so does the child process of that instance.                 *)
(*                                                                         *)
(* A step is what the main process does between two awaits: a stop() that  *)
(* arrives while a start waits for a health check interleaves with it, two *)
(* synchronous handlers never do.                                          *)
(***************************************************************************)
EXTENDS Integers, FiniteSets

CONSTANTS
    Models,      \* chat models that can be started
    MtpModels,   \* those whose manifest opts in to speculative decoding
    GpuMode,     \* the gpuMode setting, "auto" or "off"
    HasCard,     \* the device probe lists a graphics card
    SpareBuild,  \* the drive ships the pure-CPU build (rung 3)
    SettingsMayFail,  \* a write of the settings may fail (full or worn drive)
    MaxOps,      \* bound: calls that reach the queue
    MaxEpoch     \* bound: unlocked sessions

Ops    == 1 .. MaxOps
Epochs == 1 .. MaxEpoch
None   == 0

ASSUME BoundsAssumption == MaxOps \in Nat \ {0} /\ MaxEpoch \in Nat \ {0} /\ Models # {}
ASSUME RungAssumption ==
    /\ MtpModels \subseteq Models
    /\ GpuMode \in {"auto", "off"}
    /\ HasCard \in BOOLEAN
    /\ SpareBuild \in BOOLEAN
    /\ SettingsMayFail \in BOOLEAN

CrashKinds == {"gpuRestart", "mtpRestart", "cpuRestart"}
Kinds     == {"start", "stop", "giveUp"} \union CrashKinds
Rungs     == {"mtp", "gpu", "cpu", "spare", "mock"}
GpuRungs  == {"mtp", "gpu"}
Backends  == {"none", "cpu", "gpu", "mock"}
Waits     == {"idle", "stopping", "probe", "hook", "rung", "server", "label",
              "warm", "health", "failing"}
Processes == {"none", "gate", "loading", "ready", "dying", "killed",
              "lostBind", "dead"}

VARIABLES
    \* the queue of RuntimeManager
    issued, settled,   \* calls enqueued, and calls whose promise settled
    kind, model,       \* what each call asks for; a crash restart names its handler
    asked,             \* the session the call belongs to (kept for SessionsModel)
    \* the operation at the head of the queue
    pc,                \* what it waits for, the ladder's waits included
    victim,            \* the instance a doStop is waiting for
    halted,            \* a stop() arrived since a doStart began
    \* the rest of RuntimeManager
    current,           \* the committed instance
    healthy,           \* last.healthy of the committed instance
    starting,          \* startingRuntime
    claim,             \* startingClaim, and through model[] startingModelId
    probing, answered, \* the instance a /health re-probe is under way for, and
                       \* whether the server was there to answer it
    shut,              \* the shutdown latch
    \* the instances
    cancelled,         \* instances stop() was called on
    rung, backend,     \* rung an instance is on, and its backend label
    process,           \* its llama-server child
    retried,           \* the one bind retry of this rung is spent
    held, cpuFault,    \* the walk's held GPU verdict, and its CPU control
    \* what the session and the settings remember
    gpuDisabled,       \* gpuAutoDisabled
    flagLost,          \* a write of it failed (kept for NoCrashLoop)
    noMtp,             \* models suppressSpeculative latched
    unloadable,        \* models latchModelLoad latched
    restarted,         \* models whose one CPU restart is spent
    gpuBusy, mtpBusy, cpuBusy,  \* the call each crash handler waits for
    \* the callers
    ws, epoch,         \* the workspace with its lock latch, and its unlock epoch
    lockOp, quitOp,    \* the stop a lock teardown, a quit waits for
    requests           \* start requests in their weight check

queueVars   == <<issued, settled, kind, model, asked>>
opVars      == <<pc, victim, halted>>
managerVars == <<current, healthy, starting, claim, probing, answered, shut>>
ladderVars  == <<cancelled, rung, backend, process, retried, held, cpuFault>>
latchVars   == <<gpuDisabled, flagLost, noMtp, unloadable, restarted>>
busyVars    == <<gpuBusy, mtpBusy, cpuBusy>>
callerVars  == <<ws, epoch, lockOp, quitOp, requests>>
vars == <<queueVars, opVars, managerVars, ladderVars, latchVars, busyVars, callerVars>>

StartKinds == {"start"} \union CrashKinds
Pending    == (settled + 1) .. issued
Head       == settled + 1
-----------------------------------------------------------------------------
Init ==
    /\ issued = 0 /\ settled = 0
    /\ kind = [o \in Ops |-> "stop"]
    /\ model = [o \in Ops |-> CHOOSE m \in Models : TRUE]
    /\ asked = [o \in Ops |-> 1]
    /\ pc = "idle" /\ victim = None /\ halted = FALSE
    /\ current = None /\ healthy = FALSE /\ starting = None
    /\ claim = None /\ probing = None /\ answered = FALSE /\ shut = FALSE
    /\ cancelled = {}
    /\ rung = [o \in Ops |-> "mock"] /\ backend = [o \in Ops |-> "none"]
    /\ process = [o \in Ops |-> "none"]
    /\ retried = FALSE /\ held = FALSE /\ cpuFault = FALSE
    /\ gpuDisabled = FALSE /\ flagLost = FALSE /\ noMtp = {} /\ unloadable = {} /\ restarted = {}
    /\ gpuBusy = None /\ mtpBusy = None /\ cpuBusy = None
    /\ ws = "open" /\ epoch = 1 /\ lockOp = None /\ quitOp = None
    /\ requests = {}
-----------------------------------------------------------------------------
(* The queue. *)

\* The session a call belongs to; only history, no guard reads it.
Enqueue(k, m) ==
    /\ issued < MaxOps
    /\ issued' = issued + 1
    /\ kind'   = [kind EXCEPT ![issued + 1] = k]
    /\ model'  = [model EXCEPT ![issued + 1] = m]
    /\ UNCHANGED settled

\* start() and forceRestart() claim the "starting" window before they enqueue.
EnqueueStart(k, m, e) ==
    /\ Enqueue(k, m)
    /\ asked' = [asked EXCEPT ![issued + 1] = e]
    /\ claim' = issued + 1

\* The promise of the head settles: its owner closes the "starting" window,
\* and a crash handler that waited for it is armed again.
WindowByModel(o) == \* variant: the window is matched by model, not by claim
    IF claim # None /\ model[claim] = model[o] THEN None ELSE claim
WindowAfter(o) == IF claim = o THEN None ELSE claim
Settle ==
    /\ settled' = Head
    /\ pc' = "idle"
    /\ claim'   = WindowAfter(Head)
    /\ gpuBusy' = IF gpuBusy = Head THEN None ELSE gpuBusy
    /\ mtpBusy' = IF mtpBusy = Head THEN None ELSE mtpBusy
    /\ cpuBusy' = IF cpuBusy = Head THEN None ELSE cpuBusy
    /\ UNCHANGED <<issued, kind, model, asked>>

\* LlamaServer.stop(): a child that exists is killed; one that is not spawned
\* yet is missed, because doStart resets the flag this would have set.
OnlyReady(i)   == \* variant: the child of an in-flight start is out of reach
    [process EXCEPT ![i] = IF @ = "ready" THEN "dying" ELSE @]
Killed(i) ==
    [process EXCEPT ![i] = IF @ \in {"loading", "ready"} THEN "dying" ELSE @]

\* LadderRuntime.stop(): the flag is permanent, and a second call finds no
\* server left to stop, nor one whose exit it could wait for.
StopInstance(i) ==
    /\ cancelled' = cancelled \union {i}
    /\ process' = IF i \in cancelled THEN process ELSE Killed(i)

\* What stop() does at once, before its turn in the queue; nobody awaits it.
CancelStart ==
    /\ halted' = TRUE
    /\ IF starting = None THEN UNCHANGED <<cancelled, process>>
       ELSE StopInstance(starting)

stopLeaves == <<pc, victim, current, healthy, starting, probing, answered, shut, rung,
                backend, retried, held, cpuFault, latchVars, busyVars>>
EnqueueStop ==
    /\ Enqueue("stop", model[issued + 1])
    /\ CancelStart
    /\ UNCHANGED <<asked, claim>>
-----------------------------------------------------------------------------
(* The callers. *)

\* startModelRuntime, up to the weight check that may take minutes.
RequestStart(m) ==
    /\ ws = "open"
    /\ requests = {}
    /\ requests' = {[model |-> m, epoch |-> epoch]}
    /\ UNCHANGED <<queueVars, opVars, managerVars, ladderVars, latchVars, busyVars,
                   ws, epoch, lockOp, quitOp>>

\* The request ends without a call: the weight check or the memory gate
\* refused it, or the same model runs or starts already and it joins.
RequestEnds(r) ==
    /\ requests' = requests \ {r}
    /\ UNCHANGED <<queueVars, opVars, managerVars, ladderVars, latchVars, busyVars,
                   ws, epoch, lockOp, quitOp>>

\* workspaceAdmitsWork: unlocked and no lock under way.
Always == TRUE             \* variant: no re-check after the weight check
Admits == ws = "open"
AnySession(r)  == TRUE     \* variant: the flags are checked, the epoch is not
SameSession(r) == r.epoch = epoch
IsModel(o, m) == o # None /\ model[o] = m

\* The re-checks right before runtime.start(), and start() itself.
StartAdmitted(r) ==
    /\ ~shut /\ Admits /\ SameSession(r)
    /\ ~IsModel(claim, r.model) /\ ~IsModel(current, r.model)
    /\ EnqueueStart("start", r.model, r.epoch)
    /\ requests' = requests \ {r}
    /\ UNCHANGED <<opVars, current, healthy, starting, probing, answered, shut, ladderVars,
                   latchVars, busyVars, ws, epoch, lockOp, quitOp>>

\* restartCurrent(): joins a start under way, otherwise a forceRestart.
RestartModel ==
    /\ Admits /\ ~shut
    /\ current # None /\ claim = None
    /\ EnqueueStart("start", model[current], epoch)
    /\ UNCHANGED <<opVars, current, healthy, starting, probing, answered, shut, ladderVars,
                   latchVars, busyVars, callerVars>>

StopModel ==
    /\ EnqueueStop
    /\ UNCHANGED <<stopLeaves, callerVars>>

\* The lock: the latch first, the stop of the teardown later, then the vault.
BeginLock ==
    /\ ws \in {"open", "quitting"}
    /\ ws' = "locking"
    /\ UNCHANGED <<queueVars, opVars, managerVars, ladderVars, latchVars, busyVars,
                   epoch, lockOp, quitOp, requests>>

LockTeardown ==
    /\ ws = "locking" /\ lockOp = None
    /\ EnqueueStop
    /\ lockOp' = issued + 1
    /\ UNCHANGED <<stopLeaves, ws, epoch, quitOp, requests>>

\* The vault is sealed, or sealing failed and the workspace stays open.
FinishLock ==
    /\ ws = "locking" /\ lockOp # None /\ lockOp <= settled
    /\ ws' \in {"locked", "open"}
    /\ lockOp' = None
    /\ UNCHANGED <<queueVars, opVars, managerVars, ladderVars, latchVars, busyVars,
                   epoch, quitOp, requests>>

Unlock ==
    /\ ws = "locked" /\ epoch < MaxEpoch
    /\ ws' = "open"
    /\ epoch' = epoch + 1
    /\ UNCHANGED <<queueVars, opVars, managerVars, ladderVars, latchVars, busyVars,
                   lockOp, quitOp, requests>>

\* performShutdown: the latches are its first act, the workspace's and the
\* runtime's; the stop comes later.
Shutdown ==
    /\ ~shut
    /\ shut' = TRUE
    /\ ws' = IF ws = "open" THEN "quitting" ELSE ws
    /\ UNCHANGED <<queueVars, opVars, current, healthy, starting, claim, probing, answered,
                   ladderVars, latchVars, busyVars, epoch, lockOp, quitOp, requests>>

QuitStop ==
    /\ shut /\ quitOp = None
    /\ EnqueueStop
    /\ quitOp' = issued + 1
    /\ UNCHANGED <<stopLeaves, ws, epoch, lockOp, requests>>

\* refreshHealth: a probe that outlives a stop or a switch is discarded.  A
\* frozen server that still lives may fail its probe, and an answer may arrive
\* when the server that sent it is gone.
Answers(i) == process[i] = "ready" \/ backend[i] = "mock"
BeginProbe ==
    /\ current # None /\ probing = None
    /\ probing' = current
    /\ answered' = Answers(current)
    /\ UNCHANGED <<queueVars, opVars, current, healthy, starting, claim, shut,
                   ladderVars, latchVars, busyVars, callerVars>>

AnyProbe    == TRUE   \* variant: a late answer speaks for the next model
ProbeCounts == current = probing
EndProbe ==
    /\ probing # None
    /\ \E ok \in {FALSE, answered \/ Answers(probing)} :
          healthy' = IF ProbeCounts THEN ok ELSE healthy
    /\ probing' = None /\ answered' = FALSE
    /\ UNCHANGED <<queueVars, opVars, current, starting, claim, shut,
                   ladderVars, latchVars, busyVars, callerVars>>
-----------------------------------------------------------------------------
(* The operation at the head of the queue: doStart, doStop, stopCrashed. *)

Latched == shut
settleLeaves == <<victim, halted, current, healthy, starting, probing, answered, shut,
                  ladderVars, latchVars, callerVars>>
HeadIs(kinds) == pc = "idle" /\ settled < issued /\ kind[Head] \in kinds

StoppedAlready == current = None \/ current \in cancelled \* variant: a cancelled model counts
NothingRuns    == current = None

\* doStop: current is cleared before anything else, then the child is killed
\* and its exit awaited, unless a stop() had killed it while it started.
DoStop ==
    /\ victim' = IF current \in cancelled THEN None ELSE current
    /\ current' = None
    /\ healthy' = FALSE
    /\ StopInstance(current)
    /\ pc' = "stopping"
    /\ UNCHANGED <<queueVars, starting, claim, probing, answered, shut, rung, backend,
                   retried, held, cpuFault, latchVars, busyVars, callerVars>>

RefuseStart ==
    /\ HeadIs(StartKinds) /\ Latched
    /\ Settle
    /\ UNCHANGED settleLeaves

BeginStart ==
    /\ HeadIs(StartKinds) /\ ~Latched
    /\ halted' = FALSE
    /\ IF current # None
       THEN DoStop
       ELSE /\ pc' = "hook"
            /\ UNCHANGED <<queueVars, victim, managerVars, ladderVars, latchVars,
                           busyVars, callerVars>>

BeginStop ==
    /\ HeadIs({"stop"}) /\ ~NothingRuns
    /\ DoStop
    /\ UNCHANGED halted

NothingToStop ==
    /\ \/ HeadIs({"stop"}) /\ NothingRuns
       \/ HeadIs({"giveUp"}) /\ ~IsModel(current, model[Head])
    /\ Settle
    /\ UNCHANGED settleLeaves

\* stopCrashed asks the runtime first: a late or duplicate report must not
\* take down the healthy runtime that replaced the crashed one.
BeginGiveUp ==
    /\ HeadIs({"giveUp"}) /\ IsModel(current, model[Head])
    /\ pc' = "probe"
    /\ UNCHANGED <<queueVars, victim, halted, managerVars, ladderVars, latchVars,
                   busyVars, callerVars>>

GiveUpSpared ==
    /\ pc = "probe" /\ Answers(current)
    /\ Settle
    /\ UNCHANGED settleLeaves

GiveUpStops ==
    /\ pc = "probe" /\ backend[current] # "mock"
    /\ DoStop
    /\ UNCHANGED halted

\* The stopped instance is gone: its process exited or was killed the hard
\* way, or it never had one.
Exited(i) == i # None => process[i] = "dead" \* variant: waits for an exit event
Gone(i) == i # None => process[i] # "dying"
StopSettles ==
    /\ pc = "stopping" /\ Gone(victim)
    /\ victim' = None
    /\ IF kind[Head] \in StartKinds
       THEN /\ pc' = "hook"
            /\ UNCHANGED <<queueVars, claim, busyVars>>
       ELSE Settle
    /\ UNCHANGED <<halted, current, healthy, starting, probing, answered, shut, ladderVars,
                   latchVars, callerVars>>

\* A quit, a stop or a lock that arrived since the start began cancels it here.
StartRefused ==
    /\ pc = "hook" /\ (Latched \/ halted)
    /\ Settle
    /\ UNCHANGED settleLeaves

FirstRung(m) ==
    IF m \in unloadable THEN "mock"
    ELSE IF GpuMode = "off" \/ gpuDisabled THEN "cpu"
    ELSE IF m \in MtpModels THEN "mtp" ELSE "gpu"

\* The factory builds the ladder and start() begins to walk it.
CreateRuntime ==
    /\ pc = "hook" /\ ~Latched /\ ~halted
    /\ starting' = Head
    /\ rung' = [rung EXCEPT ![Head] = FirstRung(model[Head])]
    /\ held' = FALSE /\ cpuFault' = FALSE
    /\ pc' = "rung"
    /\ UNCHANGED <<queueVars, victim, halted, current, healthy, claim, probing, answered, shut,
                   cancelled, backend, process, retried, latchVars, busyVars, callerVars>>
-----------------------------------------------------------------------------
(* The ladder of the starting instance, and its llama-server. *)

NextRung(r) ==
    CASE r = "mtp" -> "gpu"
      [] r = "gpu" -> "cpu"
      [] r = "cpu" /\ SpareBuild -> "spare"
      [] OTHER     -> "mock"

Unheard   == FALSE   \* variant: the walk forgets the flag
Cancelled == starting \in cancelled
OnRung(r) == starting # None /\ rung[starting] = r
ladderOnly == <<queueVars, victim, halted, managerVars, busyVars, callerVars>>

\* A cancelled walk ends between two rungs, and blames nothing.
WalkCancelled ==
    /\ pc = "rung" /\ Cancelled
    /\ pc' = "failing"
    /\ UNCHANGED <<ladderOnly, ladderVars, latchVars>>

\* Rung 1a runs only on a card with room to spare and without an earlier fault.
SkipMtp ==
    /\ pc = "rung" /\ OnRung("mtp") /\ ~Cancelled
    /\ rung' = [rung EXCEPT ![starting] = "gpu"]
    /\ UNCHANGED <<ladderOnly, pc, cancelled, backend, process, retried, held,
                   cpuFault, latchVars>>

TakeRung ==
    /\ pc = "rung" /\ ~OnRung("mock") /\ ~Cancelled
    /\ OnRung("mtp") => HasCard /\ model[starting] \notin noMtp
    /\ process' = [process EXCEPT ![starting] = "gate"]
    /\ retried' = FALSE
    /\ pc' = "server"
    /\ UNCHANGED <<ladderOnly, cancelled, rung, backend, held, cpuFault, latchVars>>

\* createGpuFailureRecorder: a write that fails is logged, and the fallback it
\* reports goes on all the same.
DisableGpu ==
    \/ gpuDisabled' = TRUE /\ UNCHANGED flagLost
    \/ SettingsMayFail /\ flagLost' = TRUE /\ UNCHANGED gpuDisabled

\* The last rung: every real one failed, so the CPU control has answered.
Blames == IF held THEN {"gpu"} \union (IF cpuFault THEN {"model"} ELSE {})
          ELSE {"nothing"} \union (IF cpuFault THEN {"model"} ELSE {})
FallBackToMock ==
    /\ pc = "rung" /\ OnRung("mock") /\ ~Cancelled
    /\ \E blame \in Blames :
          /\ IF blame = "gpu" THEN DisableGpu ELSE UNCHANGED <<gpuDisabled, flagLost>>
          /\ unloadable' = IF blame = "model" THEN unloadable \union {model[starting]}
                           ELSE unloadable
    /\ backend' = [backend EXCEPT ![starting] = "mock"]
    /\ pc' = "health"
    /\ UNCHANGED <<ladderOnly, cancelled, rung, process, retried, held, cpuFault,
                   noMtp, restarted>>

\* LlamaServer.doStart: the engine gate, the integrity check and the port come
\* first; the check, or the operating system, may refuse the program.
Spawn ==
    /\ pc = "server" /\ process[starting] = "gate"
    /\ process' \in {[process EXCEPT ![starting] = s] : s \in {"loading", "dead"}}
    /\ UNCHANGED <<ladderOnly, pc, cancelled, rung, backend, retried, held, cpuFault,
                   latchVars>>

\* The child exits while it loads; a port lost to another program is one case.
LoadFails ==
    /\ pc = "server" /\ process[starting] = "loading"
    /\ process' \in {[process EXCEPT ![starting] = s] : s \in {"dead", "lostBind"}}
    /\ UNCHANGED <<ladderOnly, pc, cancelled, rung, backend, retried, held, cpuFault,
                   latchVars>>

BindRetry ==
    /\ pc = "server" /\ process[starting] = "lostBind" /\ ~retried
    /\ process' = [process EXCEPT ![starting] = "gate"]
    /\ retried' = TRUE
    /\ UNCHANGED <<ladderOnly, pc, cancelled, rung, backend, held, cpuFault, latchVars>>

HealthTimeout ==
    /\ pc = "server" /\ process[starting] = "loading"
    /\ process' = Killed(starting)
    /\ UNCHANGED <<ladderOnly, pc, cancelled, rung, backend, retried, held, cpuFault,
                   latchVars>>

\* The catch of one rung.  A program the system refused and a lost port blame
\* neither the card nor the model.
FailureBlames == IF process[starting] = "lostBind" THEN {FALSE} ELSE BOOLEAN
RungFails ==
    /\ pc = "server"
    /\ \/ process[starting] \in {"dead", "killed"}
       \/ process[starting] = "lostBind" /\ retried
    /\ IF Cancelled
       THEN pc' = "failing" /\ UNCHANGED <<rung, held, cpuFault, latchVars>>
       ELSE /\ \E fault \in FailureBlames :
                  /\ noMtp' = IF OnRung("mtp") /\ (fault \/ process[starting] = "lostBind")
                              THEN noMtp \union {model[starting]} ELSE noMtp
                  /\ held' = IF OnRung("gpu") THEN fault ELSE held
                  /\ cpuFault' \in IF rung[starting] \in GpuRungs THEN {cpuFault}
                                    ELSE IF fault THEN {TRUE} ELSE {FALSE, cpuFault}
            /\ rung' = [rung EXCEPT ![starting] = NextRung(@)]
            /\ pc' = "rung"
            /\ UNCHANGED <<gpuDisabled, flagLost, unloadable, restarted>>
    /\ UNCHANGED <<ladderOnly, cancelled, backend, process, retried>>

\* The server answers /health.  A cancel that missed the spawn is caught here;
\* a CPU rung that loads proves the held failure was the card's.
ServerUp ==
    /\ pc = "server" /\ process[starting] = "loading"
    /\ IF Cancelled
       THEN /\ process' = Killed(starting)
            /\ victim' = starting
            /\ pc' = "failing"
            /\ UNCHANGED <<backend, held, gpuDisabled, flagLost>>
       ELSE /\ UNCHANGED victim
            /\ process' = [process EXCEPT ![starting] = "ready"]
            /\ IF rung[starting] \in GpuRungs
               THEN pc' = "label" /\ UNCHANGED <<backend, held, gpuDisabled, flagLost>>
               ELSE /\ pc' = "warm"
                    /\ backend' = [backend EXCEPT ![starting] = "cpu"]
                    /\ IF held THEN DisableGpu ELSE UNCHANGED <<gpuDisabled, flagLost>>
                    /\ held' = FALSE
    /\ UNCHANGED <<queueVars, halted, managerVars, busyVars, callerVars, cancelled,
                   rung, retried, cpuFault, noMtp, unloadable, restarted>>

\* The health check that answered was on its way when the stop() came: the
\* server is dying already, and the second stop() does not wait for it.
UpWhileDying ==
    /\ pc = "server" /\ process[starting] = "dying" /\ Cancelled
    /\ pc' = "failing"
    /\ UNCHANGED <<ladderOnly, ladderVars, latchVars>>

\* The device probe, or the load log, says where the model landed.
Label ==
    /\ pc = "label"
    /\ \E b \in IF HasCard THEN {"gpu", "cpu"} ELSE {"cpu"} :
          backend' = [backend EXCEPT ![starting] = b]
    /\ pc' = "warm"
    /\ UNCHANGED <<ladderOnly, cancelled, rung, process, retried, held, cpuFault, latchVars>>

\* The warm-up ends, well or not; only a cancel fails the start now, and the
\* stop() that cancelled it has killed the server already.
WarmUpEnds ==
    /\ pc = "warm"
    /\ pc' = IF Cancelled THEN "failing" ELSE "health"
    /\ UNCHANGED <<ladderOnly, ladderVars, latchVars>>

\* start() returned: whatever the last health check says, this is the model.
Commit ==
    /\ pc = "health"
    /\ current' = starting
    /\ healthy' = Answers(starting)
    /\ starting' = None
    /\ Settle
    /\ UNCHANGED <<victim, halted, probing, answered, shut, ladderVars, latchVars, callerVars>>

StartFails ==
    /\ pc = "failing" /\ Gone(victim)
    /\ victim' = None
    /\ starting' = None
    /\ Settle
    /\ UNCHANGED <<halted, current, healthy, probing, answered, shut, ladderVars,
                   latchVars, callerVars>>

\* A stopped child exits; one that ignores the polite signal gets the SIGKILL
\* when the grace period ends, and nobody waits for it after that.
ProcessDies(i) ==
    /\ process[i] \in {"dying", "killed"}
    /\ process' = [process EXCEPT ![i] = "dead"]
    /\ UNCHANGED <<queueVars, opVars, managerVars, cancelled, rung, backend, retried,
                   held, cpuFault, latchVars, busyVars, callerVars>>

GraceExpires(i) ==
    /\ process[i] = "dying"
    /\ process' = [process EXCEPT ![i] = "killed"]
    /\ UNCHANGED <<queueVars, opVars, managerVars, cancelled, rung, backend, retried,
                   held, cpuFault, latchVars, busyVars, callerVars>>
-----------------------------------------------------------------------------
(* A healthy server dies on its own, and the handler of its rung reacts. *)

\* Between two calls there are only promise reactions: the exit of a child is
\* an event of its own, and finds the next call begun.
HandingOver == pc = "idle" /\ settled < issued
Dies(i) ==
    /\ ~HandingOver
    /\ process[i] = "ready"
    /\ process' = [process EXCEPT ![i] = "dead"]

\* guardedCrashRestart and forceRestart: neither past a lock nor past a quit.
CrashRestart(k, i) == EnqueueStart(k, model[i], epoch)
MayRestart == Admits /\ ~shut
restOfCrash == <<opVars, current, healthy, starting, probing, answered, shut, cancelled, rung,
                 backend, retried, held, cpuFault, unloadable, callerVars>>

\* The label is not known yet, the handler still waits for its last restart,
\* or (in CPU mode) a lock is under way: nothing happens.
CrashIgnored(i) ==
    /\ Dies(i)
    /\ \/ backend[i] = "none"
       \/ backend[i] = "gpu" /\ rung[i] = "gpu" /\ gpuBusy # None
       \/ backend[i] = "cpu" /\ (cpuBusy # None \/ ~Admits)
    /\ UNCHANGED <<restOfCrash, queueVars, claim, gpuDisabled, flagLost, noMtp, restarted, busyVars>>

\* The flag is written before the restart: the next ladder starts on the CPU, unless
\* the write failed.
CrashOnGpu(i) ==
    /\ Dies(i) /\ backend[i] = "gpu" /\ rung[i] = "gpu" /\ gpuBusy = None
    /\ DisableGpu
    /\ IF MayRestart
       THEN CrashRestart("gpuRestart", i) /\ gpuBusy' = issued + 1
       ELSE UNCHANGED <<queueVars, claim, gpuBusy>>
    /\ UNCHANGED <<restOfCrash, noMtp, restarted, mtpBusy, cpuBusy>>

CrashOnMtp(i) ==
    /\ Dies(i) /\ backend[i] = "gpu" /\ rung[i] = "mtp"
    /\ noMtp' = noMtp \union {model[i]}
    /\ IF MayRestart /\ mtpBusy = None
       THEN CrashRestart("mtpRestart", i) /\ mtpBusy' = issued + 1
       ELSE UNCHANGED <<queueVars, claim, mtpBusy>>
    /\ UNCHANGED <<restOfCrash, gpuDisabled, flagLost, restarted, gpuBusy, cpuBusy>>

\* One restart per model per session; the next crash stops the model.
AlwaysFirst(m)   == TRUE   \* variant: the restart is never spent
FirstCpuCrash(m) == m \notin restarted
CrashOnCpu(i) ==
    /\ Dies(i) /\ backend[i] = "cpu" /\ cpuBusy = None /\ Admits
    /\ restarted' = restarted \union {model[i]}
    /\ IF FirstCpuCrash(model[i])
       THEN IF shut THEN UNCHANGED <<queueVars, claim, cpuBusy>>
            ELSE CrashRestart("cpuRestart", i) /\ cpuBusy' = issued + 1
       ELSE /\ Enqueue("giveUp", model[i])
            /\ cpuBusy' = issued + 1
            /\ UNCHANGED <<asked, claim>>
    /\ UNCHANGED <<restOfCrash, gpuDisabled, flagLost, noMtp, gpuBusy, mtpBusy>>

ServerCrashes(i) ==
    CrashIgnored(i) \/ CrashOnGpu(i) \/ CrashOnMtp(i) \/ CrashOnCpu(i)
-----------------------------------------------------------------------------
Callers ==
    \/ \E m \in Models : RequestStart(m)
    \/ \E r \in requests : StartAdmitted(r) \/ RequestEnds(r)
    \/ RestartModel \/ StopModel
    \/ BeginLock \/ LockTeardown \/ FinishLock \/ Unlock
    \/ Shutdown \/ QuitStop
    \/ BeginProbe \/ EndProbe

Operation ==
    \/ RefuseStart \/ BeginStart \/ BeginStop \/ NothingToStop
    \/ BeginGiveUp \/ GiveUpSpared \/ GiveUpStops \/ StopSettles
    \/ StartRefused \/ CreateRuntime

Ladder ==
    \/ WalkCancelled \/ SkipMtp \/ TakeRung \/ FallBackToMock
    \/ Spawn \/ LoadFails \/ BindRetry \/ HealthTimeout \/ RungFails
    \/ ServerUp \/ UpWhileDying \/ Label \/ WarmUpEnds \/ Commit \/ StartFails
    \/ \E i \in Ops : ProcessDies(i) \/ GraceExpires(i)

Next == Callers \/ Operation \/ Ladder \/ \E i \in Ops : ServerCrashes(i)

Spec == Init /\ [][Next]_vars

\* Every wait of an operation ends: the awaits are promises the event loop
\* resolves, a load is bounded by its health timeout, a warm-up by its own,
\* and a kill by the SIGKILL.  Users, crashes and probes owe nothing.
FairSpec == Spec /\ WF_vars(Operation \/ Ladder)
-----------------------------------------------------------------------------
(* Properties. *)

\* Every variable keeps its type.
QueueTypes ==
    /\ issued \in 0 .. MaxOps /\ settled \in 0 .. issued
    /\ kind \in [Ops -> Kinds] /\ model \in [Ops -> Models] /\ asked \in [Ops -> Epochs]
OperationTypes ==
    /\ pc \in Waits /\ victim \in Ops \union {None}
    /\ current \in Ops \union {None} /\ starting \in Ops \union {None}
    /\ claim \in Ops \union {None} /\ probing \in Ops \union {None}
InstanceTypes ==
    /\ cancelled \subseteq Ops /\ rung \in [Ops -> Rungs] /\ backend \in [Ops -> Backends]
    /\ process \in [Ops -> Processes]
LatchTypes ==
    /\ noMtp \subseteq Models /\ unloadable \subseteq Models /\ restarted \subseteq Models
    /\ gpuBusy \in Ops \union {None} /\ mtpBusy \in Ops \union {None}
    /\ cpuBusy \in Ops \union {None}
CallerTypes ==
    /\ ws \in {"open", "quitting", "locking", "locked"} /\ epoch \in Epochs
    /\ lockOp \in Ops \union {None} /\ quitOp \in Ops \union {None}
    /\ requests \subseteq [model : Models, epoch : Epochs]
FlagTypes ==
    /\ halted \in BOOLEAN /\ healthy \in BOOLEAN /\ answered \in BOOLEAN /\ shut \in BOOLEAN
    /\ retried \in BOOLEAN /\ held \in BOOLEAN /\ cpuFault \in BOOLEAN
    /\ gpuDisabled \in BOOLEAN /\ flagLost \in BOOLEAN
TypeOK == QueueTypes /\ OperationTypes /\ InstanceTypes /\ LatchTypes /\ CallerTypes /\ FlagTypes

\* No orphan: a llama-server that serves, loads or is about to be spawned
\* belongs to the committed runtime or to the start that is under way.  (The
\* queue exists because a second start once spawned a server nobody stopped.)
Live(i) == process[i] \in {"gate", "loading", "ready"}
NoOrphan == \A i \in Ops : Live(i) => i \in {current, starting}

\* There are never two of them (RuntimeProofs).
OneServer == \A i, j \in Ops : Live(i) /\ Live(j) => i = j

\* "Starting..." is on the screen exactly while a start is queued or running.
StartingShown == (claim # None) <=> \E o \in Pending : kind[o] \in StartKinds

\* The last word counts: no stop, and no later start, settled after the call
\* that brought the running model up.  (A start the quit latch refused does
\* not count, nor does a crash report of a model that answers.)
LastWordCounts ==
    current # None =>
      \A o \in Ops : (current < o /\ o <= settled) =>
         kind[o] = "giveUp" \/ (shut /\ kind[o] \in StartKinds)

\* Behind the lock screen nothing serves, and nothing queued will start.
LockedMeansStopped ==
    ws = "locked" =>
      /\ current = None
      /\ \A i \in Ops : ~Live(i)
      /\ \A o \in Pending : kind[o] \notin StartKinds

\* The running model was asked for in this session, never in one before a lock.
SessionsModel == (current # None /\ ws # "locked") => asked[current] = epoch

\* When the quit's stop is done nothing lives that the exit would orphan.
QuitLeavesNothing ==
    quitOp # None /\ quitOp <= settled => \A i \in Ops : ~Live(i)

\* A dead model is not shown as a healthy one once all its calls settled: the
\* crash was answered, or the status said at once that it does not respond.
Quiet == settled = issued /\ ws = "open" /\ ~shut /\ probing = None
DeadNotShownHealthy == Quiet /\ current # None /\ healthy => Answers(current)

\* A start is committed only on full success (index.ts:841), and a crash
\* restarts or stops the model: what stays as the running model is alive.
DeadNeverActive == Quiet /\ current # None => Answers(current)

\* No crash loop: each of the three handlers restarts a model once in a session
\* (factory.ts:1061, 1132), however crashes, starts, stops and locks interleave.
\* For the graphics card it is the flag in the settings that ends the chain
\* (gpu-failure.ts:8), so there it holds while no write of it failed.
NoCrashLoop ==
    \A o, p \in 1 .. issued :
        /\ kind[o] \in CrashKinds /\ kind[p] = kind[o] /\ model[p] = model[o]
        /\ kind[o] = "gpuRestart" => ~flagLost
        => o = p

\* docs/architecture.md:4482: "At most two automatic restarts per model per
\* session."  The speculative handler adds a third.
CrashRestarts(m)  == {o \in 1 .. issued : kind[o] \in CrashKinds /\ model[o] = m}
AtMostTwoRestarts == \A m \in Models : Cardinality(CrashRestarts(m)) <= 2

\* Every call settles: a stop is never stuck behind a start, nor a start
\* behind a stop.  The calls are finitely many (MaxOps), so this is the queue
\* running dry over and over.
EveryCallSettles == []<>(settled = issued)
=============================================================================
