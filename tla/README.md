# A TLA+ model of HilbertRaum's core

HilbertRaum is an offline desktop assistant (Electron). One main process owns an
encrypted workspace on a portable drive, one llama-server child that serves the
chat model, and a handful of other helper processes. Everything hard in it comes
from three sources: the process can be killed between any two writes to the
drive, long operations (a lock, a model start, an index build, a download) are
awaited while the user goes on clicking, and several lanes share one model.

This directory models those cores, checks them with TLC, and proves the most
important facts about each of them with TLAPS.

| module | lines of the program | what it is |
|---|---|---|
| `VaultFiles`, `WorkspaceVault` | `services/workspace-vault.ts` | the vault's files and its controller, one step per file-system effect |
| `VaultPromise`, `VaultRefinement` | `docs/security-model.md`, "Lock failure & durability" | what the vault promises without any file in sight, and the mapping that shows the vault implements it |
| `WorkspaceVaultProofs` | | type correctness; the keys of snapshot, sidecars, staged files and descriptor stay in step |
| `VaultPromiseProofs` | | what is left at rest, what survives, and that the vault implements its promise |
| `RuntimeManager` | `services/runtime/index.ts`, `factory.ts`, `sidecar.ts`, `gpu-failure.ts`, `ipc/registerModelIpc.ts`, parts of `registerWorkspaceIpc.ts`, `shutdown.ts`, `index.ts` | every start and stop of the chat model |
| `RuntimeProofs` | | ten theorems about it, from one inductive invariant in two parts |
| `ModelSlot` | `services/doctasks/manager.ts`, `services/analysis/model-slot-arbiter.ts`, `tree-build.ts`, `extract.ts`, `ipc/chat-stream.ts` | who may call the chat model |
| `SlotProofs` | | its inductive invariant and five theorems |
| `GenerationGate` | `services/runtime/index.ts` (the gated `chatStream`), `occupancy.ts` | the two lanes of the chat model |
| `LocalApi` | `services/local-api/*`, `ipc/registerSettingsIpc.ts`, `registerWorkspaceIpc.ts` | admission and server of the local API, on top of the gate |
| `GateProofs`, `LocalApiProofs` | | the gate's inductive invariant; the local API implements the gate, and eight theorems |
| `Downloads`, `DownloadsProofs` | `services/downloads.ts`, `assets.ts`, `ipc/registerDownloadIpc.ts` | the model downloader; six theorems |
| `Session` | `services/workspace-vault.ts` (controller) | the open workspace as the parts of the next module see it |
| `AnswerTurn` | `ipc/chat-stream.ts`, `services/chat.ts` | a turn of a conversation, with regenerate |
| `DocumentWork` | `ipc/registerDocsIpc.ts`, `services/ingestion/*`, `services/embeddings/e5.ts` | imports and re-indexes, and the embedder |
| `VisionService` | `services/vision/index.ts` | image questions |
| `Translation` | `services/translation/runtime.ts`, `jobs.ts`, `services/doctasks/handlers/translation.ts` | the translation server and its callers |
| `LockTeardown` | `ipc/registerWorkspaceIpc.ts`, `shutdown.ts` | composes these five with the lock and the quit, stage by stage |
| `LockProofs` | | its inductive invariant and nine safety theorems |
| `MCVault`, `MCRuntime`, `MCSlot`, `MCLocalApi`, `MCLock` | | the instances TLC checks (`Downloads` needs none) |

(Paths are below `src/apps/desktop/src/main/` unless they start with `docs/`.)

## 1. Inventory

What each part keeps, does and talks to, what is hard about it, and what makes
it correct. "M" marks the parts a module covers; `PROJECT.json` says for each how
far.

**Workspace vault (M).** State: `config/workspace.json` (the descriptor: format,
KDF, verifier, wrapped data key), the snapshot `<db>.enc`, one `.enc` sidecar per
document, `<file>.enc.new` and `rekey-journal.json` during a password change,
and, while a session is open, the decrypted `<db>` with its write-ahead log;
after a failed lock `<db>.recovery`. Operations: `init` (salvage, sweep, recovery
of a password change), `unlock`, `create`, `lock`, `changePassword`, the lease
`beginDocumentWork`, `documentCipher`, `shutdown`. Hard: a kill between any two
effects, a full disk, files another program holds open, a second older instance,
a descriptor that is damaged. Correct: what a lock saved is never lost; nothing
decrypted stays on the drive; every file can be opened with the current password.

**Runtime manager (M).** State: the running instance, the instance that starts,
a promise queue, the "Starting" window, the cached health, the shutdown latch, a
generation gate. Operations: `start`, `stop`, `forceRestart`, `restartCurrent`,
`stopCrashed`, `refreshHealth`, `shutdown`. Called by the IPC handlers, the
post-unlock auto-start, the lock, the quit, the crash handlers. Hard: a stop that
lands in any await of a start; a lock during a weight check of minutes; a health
probe that answers after a switch. Correct: at most one server, never an orphan,
the last word of the user counts, every call settles.

**Start ladder and crash handlers (M).** State per start: rung, backend label, a
held verdict about the graphics card; per session: models whose speculation,
loading or restart is latched. Hard: deciding from a failure on one rung what to
try next and what to remember, crashes while the label or a restart is pending.
Correct: one restart per handler and model, no dead model committed.

**llama-server process (M).** Spawn, health poll, one retry after a lost port,
SIGTERM, grace period, SIGKILL. The HTTP stream and its watchdog are not modelled.

**Document tasks (M).** State: a map of tasks, a FIFO queue, the running id.
Operations: `startDocTask`, `cancelDocTask`, `cancelAllDocTasks`, `pump`, `run`,
`abortActiveBuild`. Kinds: summary, translation, compare, ocr, tree, extract,
categorize. A finished deep index chains its extract. Hard: cancels and locks
between a dispatch and its end.

**Model slot arbiter (M).** State: the active build, the pause flag, the waiting
answers, the promise of a parked build, a count of holders, a resume timer, the
age of the park. Operations: `registerBuild`, `unregisterBuild`, `reacquire`,
`acquireForChat`, `abort`, release. Hard: an abort signal that fires between a
wake and its continuation. Correct: nobody forgotten, nobody starved, never two
on the model.

**Answer streams (M).** State: `inFlightStreams` with one abort controller per
conversation, and the last rows of the conversation. `assertChatStreamReady` and
`withChatStream` admit, register, acquire the slot, stream, persist, release.
Regenerate deletes the old answer first and restores it when nothing better takes
its place. Hard: a stop, a model stop, a lock or a quit in any await of that
sequence. Correct: the answer that was there is never lost.

**Generation gate (M).** State: a counter per lane (in-app, external), the
waiters, the epoch. Every `chatStream` passes it; an in-app call pre-empts an
external one and waits at most five seconds; a stop and a load reset it and begin
a new epoch, whose counters late ends must not touch. Correct: the counters are
the streams that run.

**Local API (M).** State: the holder and the one waiter of the slot, the listening
servers, a queue of start and stop operations, a stop latch, the access key.
Operations: admission and promotion, streams and their end, the settings, key
rotation, lock, failed lock, unlock. Hard: everything is re-checked when the
waiter is promoted; a client vanishes or stops reading; the endpoint is moved
while it binds. Correct: one stream, nobody stranded, an old key stops working,
the listener follows the setting.

**Skill runs and the benchmark (span only).** A skill run that streams on the
chat model holds an occupancy span that keeps tasks and answers out. The
benchmark overlaps with chat by design (`docs/architecture.md`, "Model
occupancy") and is left out.

**Lock and quit teardowns (M).** About fifteen boundaries in a fixed order:
streams aborted, tasks cancelled, skill runs, benchmark, translation jobs,
plaintext operations, pack operations, local API, sidecars suspended, bounded
settles, the key detached, the vault locked. A failed lock disarms the latch and
brings runtime and API back. `RuntimeManager`, `ModelSlot` and `LocalApi` each
model what a lock does to them; `LockTeardown` models the sequence itself against
turns, imports, image questions and translations.

**Ingestion and plaintext operations (M).** Import with a look-ahead of one
document, re-index, move, delete, preview, dictation, export: a decrypted
transient, an encrypted stored copy, rows, under the vault's lease. Hard: a lock
that lands while a document is opened or parsed. Correct: no decrypted file is
left, and no password change rewrites the copies under a job.

**Embedder (M), reranker, transcriber, OCR, pack reader.** Started
on first use, suspended by a lock, stopped for good by a quit. Correct: nothing
brings one back.

**Translation (M).** State: the job of the Translate view, the windows of its callers
in a row, one server of some ten gigabytes, the start under way, a soft teardown
under way, the teardown of a lock or a quit, two latches (a start failed; the card
is given up), the idle clock. The server is started by the first window, let go when
it is idle or hangs or when a chat model wants the graphics card, and stopped by a
lock or a quit. Hard: every one of these meets the others in an await, and a caller
that is stopped leaves its wait while the start goes on. Correct: never two servers,
none that nobody times, none on a card that was given to a chat start, none behind
the lock screen.

**Vision (M).** Jobs, a runtime shared between them, an idle teardown, `stop()`.

**Downloads (M) and installs.** State: jobs, the one active run, `.part` files,
files in place, the checksum cache. Resume, cancel, the internet switch, verify,
flush, rename. Correct: a file in place is whole, a cancel stands, nothing is
asked while the switch is off. The installers of the engine and of OCR languages,
and the spawn gate an engine swap holds, are not modelled.

**Retrieval, conversations, tables, export, evidence reviews, model registry,
settings, audit, migrations:** synchronous SQLite or pure data, not modelled.
**Renderer, preload, scripts, evaluation:** not modelled; the modules accept their
calls in any order.

## 2. Plan

Done, in this order: vault with promise and key invariant; runtime manager; model
slot; generation gate and local API with their refinement; downloads; the lock and
quit teardowns with turns, documents, images and translations; then a theorem for
every safety property a passing run checks, the refinement of the vault's promise
included.

Left, in the order of what it would add:

1. The installers and the spawn gate: an engine swap that holds starts back.
2. Move and delete of documents under a lock.

## 3. The vault

### 3.1 Model

`VaultFiles` gives a file a number for its content: a generation `n >= 0` is a
consistent database with every write up to the n-th; `Absent`, `Noise` (an
interrupted shred) and `Torn` (a main file that lost its log) are the rest.
Encryption is a record `[key, body]`; `encryptFile` and `decryptFile` write a
temporary, flush and rename, so they are one step for the target. Shredding is
best-effort, as in the code: a held file may survive whole or as noise. The code
only ever compares the modification time of a plaintext file with that of a
snapshot, so `older[p]` is the set of snapshots that look older than `p`. The
overwrite and the unlink of one shred are one step (`Shredded`): a kill between them,
which leaves noise under the name, is not a case of its own; a held file is left as
noise in the same way.

`WorkspaceVault` cuts each operation of the controller into one step per
file-system effect; `pc` names the next effect and `task` the operation. `Crash`
is possible between any two. `handle`, `key`, `descr`, `blocked` are the fields
`_db`, `key`, `descriptor`, `_recoveryBlocked`. The controller is synchronous, so
only document work (`BeginDocumentWork`, `StartSidecarWrite`,
`FinishSidecarWrite`) and the environment interleave with it.

Abstractions. The password layer is "the descriptor yields a file key": a
password change on a v2 vault replaces the descriptor by one that yields the same
key, so all it changes is that a damaged one is whole again. `transient` stands for every decrypted temporary. A
checkpoint keeps the header of an overwritten database file. The foreign
overwrite does not fall between the header check and the encryption of one lock.
Not modelled: plaintext_dev mode, the refusal of newer databases, the rotated
diagnostics log, a document store on a drive that is not there.

### 3.2 Runs

| run | asks | environment |
|---|---|---|
| `VaultCrash` | `LockedDataSurvives`, `NothingLeftAtRest`, `RecoveryIsSpent`, `NeverMixed`, `SidecarsOpenable`, `KeepsPromise` | kills, full disk, foreign overwrite, damaged and restored descriptor, three formats, a snapshot an older build sealed over noise, v1 to v2 migration with an in-store and a legacy sidecar, imports, `.recovery` and the legacy copy held |
| `VaultSnapshotHeldAtSwap` | `LockedDataSurvives` violated | the snapshot held during the swap |

Bounds: two writes (`MaxGeneration` 2) distinguish "the snapshot", "newer than
the snapshot" and "newer than what was re-sealed"; three data keys allow two
attempts at a migration beside the key in use; two sidecars are one inside and
one outside the scanned store.

What `VaultCrash` may not hold, the theorems of 3.4 cover: `LockedDataSurvives` is
false when `<db>` or `<db>.enc` is held (3.3), so the run holds neither, while
`OldOrNew` and `SidecarsAlwaysOpenable` are proved with both held, and with the
decrypted temporaries too.

`KeepsPromise` is the refinement: `SavedCopy` is the file start-up recovery would
choose, and every step of the controller is a step or a stutter of
`VaultPromise`.

### 3.3 Findings

* `VaultSnapshotHeldAtSwap`: when the rename of the new snapshot fails after the
  commit of a password change, the session goes on; the next lock writes a newer
  `<db>.enc` beside the stale `<db>.enc.new`, and the next recovery moves the
  stale one over it.

Seen with other constants, without a run of their own:
* Clocks that disagree: the salvage after a failed lock compares file times; with
  a snapshot written under a clock that runs ahead, the only fresh copy is swept.
* `Holdable = {"db"}`: the sweep deletes the log of a database
  it cannot delete, and a later lock may seal the torn file.
* `Holdable = {"wal"}`: the log of a killed session outlives the sweep, and the next
  unlock replays it over the newer snapshot.
* `DescriptorFaults = "anyTime"`: a descriptor restored while the program runs
  after a failed lock lets a create or unlock take a path the salvage has not
  prepared.
* `Holdable` containing `"encNew"`: the last rename of a create fails; a second
  create draws a new key and re-seals the staged file.

### 3.4 Proofs

All five safety properties and the refinement are theorems, for every set of
documents, every number of keys and writes, with and without full disks, foreign
overwrites and the three formats. They assume this of the environment:

| theorem | property | assumes |
|---|---|---|
| `TypeCorrect` | `TypeOK` | nothing |
| `OldOrNew` | `NeverMixed` | (a) `<db>.enc.new` is not held; (b) a damaged descriptor is put back only while the application is closed |
| `SidecarsAlwaysOpenable` | `SidecarsOpenable` | (a), (b) |
| `LockedLeavesNothing` | `NothingLeftAtRest` | (a), (b) |
| `RecoverySpent` | `RecoveryIsSpent` | (a), (b), and (c) `SteadyClock` |
| `SavedSurvives` | `LockedDataSurvives` | `Undisturbed`: (a), (b), (c), and (d) none of `<db>`, its log and `<db>.enc` is held |
| `VaultKeepsPromise` | `KeepsPromise` | `Undisturbed` |

Every part of `Undisturbed` is needed: without it TLC finds `LockedDataSurvives`
violated, and 3.3 says how. (a) and (b) are needed for `NeverMixed`, (b) for
`SidecarsOpenable` and `NothingLeftAtRest`, (c) for `RecoveryIsSpent` when `.recovery`
is held. TLC knows no violation of the other combinations; the invariants the proofs
share need them. `.recovery`, documents and temporaries may be held throughout, and
the environment of `VaultCrash` lies within what its theorems assume. A snapshot an
older build sealed over noise is a vault of its own in `VaultPromise` (`Broken`): it is
kept as it is and never shown.

*Keys.* `NeverMixed` is not inductive: whether a step may move or delete a snapshot
depends on which descriptor the process has read, what key it holds and where it
stands. `KeysInStep` (a theorem, `KeysAlwaysInStep`) says it: the descriptor in
memory is the committed one or none (`KnownDescriptor`), the snapshot or the staged
file opens with it (`SnapshotOpenable`), a session holds its key (`SessionKey`), no
session exists where an operation assumes none (`NoSession`), and each step's `task`
and staged files are those it relies on. `SidecarsInStep` extends it to the
documents. A migration commits one descriptor for many files, so before the commit
every old copy is under the old key and after it every file is under the new key or
has its staged successor (`SidecarKeys`); a sidecar outside the scanned store is
found again through the journal alone (`JournalListsLegacy`); an import that is
writing keeps a migration from starting, and writes under the committed key
(`WorkUnderKey`); the commit comes only when each listed sidecar is staged
(`StagedDocs`).

*Files.* `VaultInv` (`FilesAlwaysInStep`) has six parts.

* `VaultKnown`: which operations can be under way before a first descriptor exists,
  and that each later one has read it.
* `AtRest`: behind the sweep nothing but an open session brings plaintext back.
  `NothingLeftAtRest` speaks of the idle program; the invariant has to say it of
  every step of an unlock, of recovery and of a refused salvage.
* `Spent`: `.recovery` is sealed into the snapshot, or older than it, before a newer
  copy exists. `RecoveryIsSpent` alone is lost at the swap of a password change, which
  carries the time of the staged file over (`StagedIsNewer`).
* `Deciding`: recovery swaps or discards by the committed descriptor.
* `Contents`: no file is newer than the last write, and none that lost its log is
  ever sealed.
* `FilesInStep`: at each effect, which file is the saved database. A staged snapshot
  that was committed is never beside a closed working file that a salvage would prefer
  to it (`MoveInAlone`); from the checkpoint of a lock until its seal the working file
  is the session (`DeadSession`); unlock decrypts only when nothing fresher lies beside
  the snapshot (`OpeningFiles`).

*The promise.* Under `VaultInv` each action is matched with the one step of
`VaultPromise` it may take (`PromiseNext`): a checkpoint that closes the database is `Save`, its encryption `Seal`, `Crash` keeps the saved
copy because start-up would choose the same file as before, the swap and the sweep
change nothing. `LockedDataSurvives` then follows from the abstract level:
`NotBehind`, that the saved, the sealed and the shown database are at least the
promised one, is kept by every step of `VaultPromise`, with no file in sight.

## 4. The runtime manager

### 4.1 Model

Every call that goes through the promise queue gets a number. The queue is first
in, first out, so it is the interval `settled+1 .. issued`; a call's number is
also the number of the instance it creates and of its child process. `pc` is the
await the head operation is in, the ladder's awaits included. A step is one
synchronous stretch of the main process. Between the end of one queued call and the
start of the next there are only promise reactions, so the exit of a child, an event
of its own, never falls there (`HandingOver`); without that a crash could be reported
to a runtime that is about to be replaced before the handler of the report is heard,
which no build can produce.

`cancelled` holds the instances `stop()` was called on, `rung`, `backend` and
`process` their rung, label and child. `process` values: `gate` (verified, not
spawned), `loading`, `ready`, `dying` (signalled), `killed` (SIGKILL sent),
`lostBind`, `dead`. A stop finds a child that exists and misses one at the gate,
as in the code, which is why the ladder checks again when a rung is up.

The callers: `RequestStart`/`StartAdmitted` (the weight check between them),
`StopModel`, `RestartModel`, `BeginLock`/`LockTeardown`/`FinishLock` (which may
fail), `Unlock`, `Shutdown`/`QuitStop`, health probes, and the three crash
handlers. `asked` is history: the session a call belongs to.

A crash restart carries the name of its handler (`CrashKinds`). The handler of the
graphics card persists `gpuAutoDisabled` before it restarts; that write may fail, is
logged, and the restart goes on (`DisableGpu`, with `SettingsMayFail` for a full or
worn drive or a workspace locked in the meantime). `flagLost` is history: a write
failed.

Left out: joining of status reads, the unresponsive verdict, the generation gate,
the mock-only factory, the load progress, and "Try GPU again": it clears
`gpuDisabled`, so what is said of crash restarts holds for a session without it.

### 4.2 Runs

| run | asks | instance |
|---|---|---|
| `RuntimeLadder` | `QuitLeavesNothing`, `NoCrashLoop`, `EveryCallSettles` | one speculative model, a card, the spare build, settings that cannot always be written; two calls, one session, and up to five calls as long as all but the first come from crashes |
| `RuntimeSwitch` | `NoOrphan`, `StartingShown`, `LastWordCounts`, `DeadNotShownHealthy`, `LockedMeansStopped`, `SessionsModel` | two models (symmetric), CPU only; three calls, two sessions, and six where the last is the report of a crash that two starts have overtaken (`LateReport`) |
| `RuntimeCrashInRestart` | `DeadNeverActive` violated | a second crash during the first CPU restart |
| `RuntimeThirdRestart` | `AtMostTwoRestarts` violated | one speculative model, a card, every settings write succeeding; one start and the crash restarts that follow it |

`RuntimeLadder` reaches the long crash chains with a state constraint
(`LongOnlyForCrashes`): beyond two calls only crash restarts are added. `RuntimeSwitch`
needs six calls for a crash report that must be spared: a start of the model that
already runs or starts is joined, so the report is overtaken only by a start of
another model and one back.

Two calls are a start and what interrupts it; three are a switch that is
interrupted; five are a start, the three restarts the handlers ask for, and one to
spare, which is where a loop would show. The calls end when `MaxOps` is used up, so these configurations do
not check deadlock; `EveryCallSettles` covers the waits.

Fairness: `WF_vars(Operation \/ Ladder)`. The awaits behind those steps are
promises the event loop resolves; a load is bounded by its health timeout, the
warm-up by its own, a kill by the SIGKILL after the grace period. Users, crashes
and probes owe nothing. A stop may wait behind the load of a second queued start;
`docs/architecture.md:10180` records that as accepted.

### 4.3 Findings

* `RuntimeCrashInRestart`: the CPU crash handler ignores a crash while its own
  restart is under way; when that crash falls into the warm-up, the dead model is
  committed as the running one. A later health probe shows it as not responding
  (`DeadNotShownHealthy` holds), but nothing stops or restarts it.

* `RuntimeThirdRestart`: `docs/architecture.md:4482` says "At most two automatic
  restarts per model per session." The sentence counts the graphics card and the CPU.
  A model that runs speculatively has a third handler (`index.ts:372`): it crashes
  there and is restarted on the card, crashes on the card and is restarted on the CPU,
  crashes there and is restarted once more. No settings write fails on the way.
  `NoCrashLoop` is what the code does keep: one restart per handler and model, and
  for the graphics card one more for each write of its flag that fails
  (`gpu-failure.ts:8` says so). `RecordKeptWithoutMtp` (4.4) proves the record's two
  for models without speculation.

Seen without a run: an exit after the server answered and before its label settled
reaches no handler (`factory.ts:496`); a second stop of an instance returns before
the first saw the process exit (`factory.ts:902`), so a lock can complete while a
killed process is still exiting.

### 4.4 Proofs

`RuntimeProofs` proves, for every set of models, number of calls and sessions and
every hardware: `RuntimeTypes` (`TypeOK`), `OneOwnedServer` (`NoOrphan`, and that
there are never two), `WindowShown` (`StartingShown`), `LastWord`
(`LastWordCounts`), `TornDown` (`LockedMeansStopped`), `QuitTornDown`
(`QuitLeavesNothing`), `NoOldSession` (`SessionsModel`), `CrashLoopsEnd`
(`NoCrashLoop`), `RecordKeptWithoutMtp` (at most two restarts of a model that never
runs speculatively, while no settings write failed) and `DeadIsNotShown`
(`DeadNotShownHealthy`).

The first six follow from `Inductive`: the types; `InCharge`, which ties `pc`,
`starting`, `current` and the live processes to each other; `WindowOwned`, that the
window belongs to the last unsettled start; `LastWordCounts`; and `LockHolds` and
`QuitHolds`, which say what is already true between the latch and the end of a lock
or a quit. The safety properties are not inductive alone because a server is owned by
a different variable in each phase of a start, and because a lock is safe only if no
start can be enqueued between its latch and its stop.

The other four need `Lasting` on top, kept by steps that assume `Inductive`:

* `SessionHolds`: a pending start was asked for in the session that runs.
* `RestartsPaid`: every crash restart so far has spent the latch of its handler: the
  flag of the graphics card (or a write of it failed), the model's speculative latch,
  the model's one CPU restart. No latch is given back, and a crash finds its latch
  unspent because no server runs on a rung that was given up (`RungsTrusted`): so
  there is no second restart of a kind.
* `DeadIsDue`: a dead runtime that is shown as healthy, or would be when its probe
  answers, has a pending call that ends it. `HandlersWait` and `LateReports` say
  which pending reports exist and which of them a switch has overtaken.

An attempt at `DeadIsDue` without `HandingOver` fails with a real counterexample of
the model: a report that is dropped because its model is no longer the running one,
where the running one died in the same instant. It is the reason for that guard.

## 5. The model slot

### 5.1 Model

`queue`, `running`, `task` are the task manager's queue, `runningId` and map;
`slot` is the arbiter's fields as one record, and each arbiter operation is a
function of that record (`Registered`, `Unregistered`, `Parked`, `Released`,
`NoLongerAsked`, `Torn`, `Resumed`), so that a handler that calls several of them
is one step. `turn[c]` is one conversation's answer: `waiting` for the hand-over,
`woken` (its promise resolved, its continuation not yet run), `streaming`, or
`ending`; `counted` is the latch that lets its release count once. Admission and
registration of an answer are one step: `assertChatStreamReady` contains no
await. `promise` is what `reacquire` returned; a resolved promise whose build has
not run on is kept apart from a build that runs.

Abstractions: "deep" is a tree build that chains an extract; "summary" stands for
every task on the chat model that does not yield; OCR, translation and
categorize-without-model tasks and the benchmark are left out; job ids are used
again once nobody can name the old job; per-document validation is left out (it
only refuses). Two answers in different conversations may stream at once: the
program allows it and the server serialises them.

Bounds: `Nodes` model calls per build; `StartKinds` the kinds the user starts;
`IdsToSpare` keeps an id free for each chained extract; `patient` is chosen once
and means the user never starts a task while one is active.

### 5.2 Runs

`SlotHandover`: three jobs, two conversations, two nodes, with Stops, cancels,
locks (which may fail), model stops, crashes and skill runs; 127,196 states. Three
jobs are a running one, a queued one and a chained one; two conversations are the
least for one answer to be stopped while another waits or holds; two nodes are
the least with a yield between them.

* `OneJobWithoutAQueue`: if the user queues nothing behind a running task, a task
  and an answer never both call the model.
* `NoWaiterForgotten`, `ParkedHasAWayBack`: an answer waits only where somebody
  will wake it, and a parked build is waited for or has its timer.
* `NoAnswerIsStarved`: a waiting answer stops waiting.
* `EveryTaskEnds`: if again and again no answer is in flight, every accepted task
  ends. The condition is needed: an answer that never ends keeps the slot, and
  the resume timer only starts when the last answer lets go; what the property
  adds is that questions in quick succession do not starve the build.

Fairness: the build's steps, the timer and the clock, and each conversation's
continuation and end. A model call is bounded by its token limit and the
watchdog. No question, cancel, lock or model start is owed.

### 5.3 Finding

`SlotQueueBehindBuild`: `pump()` dispatches the next task without looking at the
answers. A build that ends while an answer waits for it wakes that answer, and
the task queued behind it starts beside it. The server serialises the two calls
(`-np 1`), so nothing is corrupted; both are slowed down, and the rule the
arbiter's header states is broken.

A related weakness needs the same queue: `registerBuild` resets `chatHolders`, so
an answer that outlives an earlier build is not counted by the next one.

### 5.4 Proofs

`SlotProofs` proves, for any number of jobs, conversations, documents and model
calls, `LaneStaysConsistent`, `WaitersAreKnown`, `ParkedComesBack`,
`OneJobWhenPatient` and `LockStartsNothing` (no task is dispatched from the first act
of a lock until the workspace is open again). They follow from `SlotInv`
(`SlotStaysConsistent`), which is the type invariant and three parts:

* `LaneInv`: the queue holds exactly the queued jobs, each once; one job runs and
  only it owns the slot; there is a promise exactly while the build is parked; the
  queue is empty unless the workspace is open. That a dispatch finds a job whose
  record is still the queued one, after any cancel or settle, rests on this.
* `HandoverInv`: what a turn is marked with at each stage (`Marks`), that the
  arbiter's waiters are the turns that wait and a pause is asked for exactly while
  there is one (`Known`), and that the arbiter never counts more holders than there
  are (`Balance`). The last is an inequality because `registerBuild` sets the count
  back to zero: an answer that began before the build is not counted by it. Even so
  a pending promise keeps a timer or a counted answer, which is `ParkedComesBack`.
* `OneJobInv`: for a user who never starts a task behind another, the count is
  exact, since a build then registers only when no answer is in flight. A build
  that generates, or whose promise is resolved, has no answer about to use the
  model; while it is parked, whoever streams is counted, so the promise is resolved
  only after the last of them.

Assumptions: there are finitely many conversations and at least one document, and
the absent value is no job id. `NoAnswerIsStarved` and `EveryTaskEnds` are liveness
and only checked.

## 6. The generation gate and the local API

### 6.1 Model

`GenerationGate` is the decorator every `chatStream` passes. Per caller it keeps a
record: where its generator is (`out`, `waiting` for the external lane to empty,
`woken`, `pulling` tokens, `parked` at a yield nobody drains), whether it entered
under the present epoch (`fresh`; the gate compares epochs for equality and for
nothing else), whether its signal is aborted, and whether its wait ran into the
five-second bound (`late`, history). `lane` is `laneCounts`. The life of the
runtime is four values of `model`, because the gate sees four instants of it.

`LocalApi` EXTENDS the gate and adds `LocalApiAdmission` (`active`, `queued`), the
handlers of the requests (`req`), the server's queue of operations and the await of
the running one (`ops`, `phase`), and the seams that call it: settings, a changed
port, key rotation, lock, failed lock and unlock. A handler's work between two
awaits is one action, with the gate's share of it and the hooks it fires: an
in-app call that enters the gate aborts every outside request in the same step
(the pre-emption hook), a stop by the user ends the requests before it kills.

Abstractions: request and answer texts, authentication (a request carries the key
of before a rotation or of after), the list of models. The 500 ms grace of a stop
ends before the five seconds an answer waits (`TurnMoves` lets no bound fire during
it); no other order of timers is assumed.

### 6.2 Run

`LocalApi`: two requests and one job, two queued operations of the server, with
stops, switches and crashes of the model. Two requests are the holder and the
waiter; a job is the in-app caller that may survive a stop, which is the one that
can enter the gate of a later epoch; two operations are one in flight and one that
overtakes its intent.

* `LaneCountsLiveStreams`, `InAppWaitsItsTurn`: the counts are the live streams of
  the epoch; nobody streams beside an answer that has not waited out the bound.
* `NoStrandedWaiter`: a waiter stands behind a holder.
* `OldKeyStopsWorking`: a request let in with a replaced key is aborted.
* `ListenerFollowsTheSetting`: once the queue is empty the endpoint is up exactly
  where setting and workspace want it, or its last bind failed.
* `EveryRequestAnswered`: no waiter is forgotten and no slot is kept.

Fairness: each request's own steps (`Admit`, `Continue`, `EndStream`, `Answer`,
`QueueTimeout`). A stream is bounded by its token limit, the runtime's watchdogs
and the drain timeout; a waiter by its queue timeout. Nothing is assumed of the
clients, the users or the in-app callers.

Seen without a run: between the first bind of a start and its last line
(`server.ts:220`) the endpoint serves requests before the pre-emption hook is
registered, so an in-app call that enters in that window waits for an outside
stream without aborting it, up to the bound.

### 6.3 Proofs

For every set of requests, conversations and jobs: `GateKeepsLanes` (the gate's
inductive invariant), `LocalApiImplementsGate` (every step of the local API and its
surroundings is a step of the gate or leaves it alone, so the local API inherits
what the gate guarantees), and `LanesCountLiveStreams`, `AnswersWaitTheirTurn`,
`SlotIsHeld`, `NobodyIsStranded`, `OldKeysStopWorking` for the safety properties
above and `SlotHeldUntilSettled` (the slot is held until its generator has settled);
`LocalApiUsesTheGate` is the invariant they share.

The counts come first: an outside request is refused because an answer is
*counted*, so `LaneCountsLiveStreams` is what makes the refusal mean anything.
`InAppWaitsItsTurn` is not inductive: an answer that was woken streams at its next
step and must already have nobody beside it. `NobodyBeside` says so. Admission adds
that a free request carries nothing of an earlier one (`FreeIsFresh`). The
step-refinement is used in the invariant's own proof: each action of `LocalApi` is
first shown to be a gate step (`StepOfTheGate`), and the gate's invariant is kept
because of that alone.

`ListenerFollows` proves `ListenerFollowsTheSetting` for any number of saves, locks
and unlocks that overlap a bind or a close. `ServerInv` adds what holds while
operations are queued: the last of them is the one the setting and the workspace ask
for now (`LastIsWanted`), because every handler that changes either queues one; the
phase, the sockets and the hook are those of the first (`PhaseOfFirst`); and a start
whose port was moved, or whose stop latch was raised, while it binds has another
operation behind it (`BindsAsSet`), so that the wrong bind is not the last word.
`LocalApiTypes` collects the types of all of them.

## 7. Downloads

### 7.1 Model

A start plans (reads which files are in place), then one run fetches file after
file into a `.part`, hashes it and renames it. `at[j]` is the await the run is in,
`status[j]` what the screen shows: the two differ exactly after a cancel. Bytes are
abstracted to what resuming and hashing tell apart (`prefix`, `spliced`, `whole`,
`wrong`); `flushed` says whether what rests on the drive reached the device, and a
power cut tears what did not. The server may ignore a Range, serve another slice,
answer 416, or fail. `offSince` and `due` are the two fields that carry "internet
access was off meanwhile" across the planning and across a hash.

Assumed: a flush that returned has reached the device; a stream closes within the
time its cancel waits for it (`FAIL_CLOSE_WAIT_MS`). Not modelled: the checksum
cache (its promise is `InPlaceIsWhole`), free space, progress, the installers of
the engine and of OCR languages, and the spawn gate.

### 7.2 Run

`Downloads`: two starts of a model of two files, every leftover of an earlier
session, every manifest that declares the size of one and may lack the hash of that
one. Two starts are a run and one that tries to overlap it; two files are one that
is finished and one that is under way. `CHECK_DEADLOCK FALSE`: the starts are used
up.

* `InPlaceIsWhole`: what a hash vouched for is whole in its place, through power cuts.
* `CancelStands`: no late answer, hash, delete or failure overwrites a cancel.
* `NoRequestWhileOff`: no request begins while internet access is off.
* `WholePartIsKept`: bytes that are all there are never fetched again.
* `EveryRunSettles`: the downloader is free again.

Fairness: each run's steps. The network stack times out a dead connection and a
disk answers or fails.

### 7.3 Proofs

All safety properties are theorems for any number of files and jobs
(`OneRunAtATime`: one start or
run at a time, a cancelled run that drains included, with the types; `PlacesAreWhole`, `CancelsStand`,
`OfflineAsksNothing`, `WholePartsStay`), and `DoneMeansComplete` shows that a job
shown as done left every file usable. The invariant `Inv` adds to them: the run
that awaits is the one that holds the controller (`Busy`); the screen follows the
run, and a run that reads cancelled has been told (`Shown`); whoever began before
the switch went off knows (`Offline`); a file that is hashed after a fetch is
flushed (`OnDevice`); a request or a delete happens only where bytes are missing or
wrong (`Needed`); and the files that are not usable are the run's current one or in
its plan (`Remaining`), from which "done" follows when the plan is empty. The one
fact about sets of numbers that is needed, that a plan has a first file, is a lemma
(`MinIsIn`).

## 8. Lock and quit

### 8.1 Model

`LockTeardown` composes `AnswerTurn`, `DocumentWork`, `VisionService` and
`Translation` with the sequence of awaits a lock and a quit go through. All see the workspace through
`Session`: the handle `db` and the latch `locking`. A seal closes the handle before
it encrypts, so a seal that fails leaves an open workspace behind a *new* handle,
and whoever still runs holds a stale one (`turnStale`, `docStale`): its writes are
lost.

Stages: the latch and the aborts (one step, before any await), the stop of the
local API, the stops of the sidecars, the bounded wait for the turns, the bounded
wait for the plaintext operations with the sweep of decrypted copies, the seal. A
quit goes through the same stages with its own bound over all of them and may
overtake a lock; the end of the OS session seals at once.

`AnswerTurn` keeps of a conversation its last row, the mark of a question nobody
answered, and the snapshot a regenerate holds (`shelf`). `DocumentWork` keeps each
document of a job from opening to embedding, the name its decrypted copy has on
disk, the lease, and the embedder with its lazy start. `VisionService` keeps the
awaits of an image question and the runtime it shares; an idle process goes in one
step (`VisionGoes`), without the await of its soft teardown. One job at a time holds
one lease (`TakesJob`); the code lets an import and a re-index overlap, each with its
own lease, and the properties are per document.

`Translation` keeps per caller where its window is: about to be asked (`next`),
waiting for the one slot (`queued`), for a soft teardown (`soft`) or for a start
(`start`), or answered by the server (`asking`). `server`, `start` and `soft` are the
fields `server`, `starting` and `idleTeardownPromise` with the place each holds or
wants, the card or the processor; `tear` is the stage of the joined teardown. A
window that fails is tried once more, then it is lost: the view gives its job up, the
document task marks the window. `chat` follows a chat start through `yieldGpu`: it
waits for a start on the card, for a soft teardown, or for the kill it asked for
itself, and then has the card to itself (`loading`) or loads beside (`beside`).
Whether the model fits beside a chat model is the machine's business, so a start with
no chat model starting picks either place. What is translated, how many windows there
are and in which order the slot passes on are left out.

Assumed: a decrypt creates its file within the five seconds a teardown waits
(`OpenedByThen`); the stop of the API and of a sidecar ends (each has a kill behind
it); no turn is asked for once a quit has begun. Two overlapping lock calls are not
modelled, although the handler refuses none. One session is
modelled: unlocking again is `WorkspaceVault`'s and `RuntimeManager`'s. Preparing a
document and beginning to embed it are one step when the loop waits for it, as in
the code, which has no await between them. Not modelled: reranker,
transcriber, OCR workers and pack reader, which suspend as the embedder does; move,
delete, preview and dictation; the upgrade of plaintext stored copies.

### 8.2 Runs

`LockTeardown`: up to three documents, two images, one job of the Translate view
beside the document task; 344,876 states. The kinds of work run singly
(`Mixes <- Alone`), each against locks, a quit and a session end at any await: the
modules share nothing but the handle, the latch and the embedder, and what a search
does to the embedder is in the run of the turn. Three documents are the one under
way, its look-ahead, and one that is never begun; two images are one that holds the
runtime and one that is refused. One job and the task are two callers, which is a
holder of the slot and one who waits; the job may be started again while its
cancelled run still unwinds.

* `AnswersSurvive`: a re-ask never loses the answer it deletes, unless the lock or
  the quit could not wait for it (`hurried`).
* `PlaintextGoneWhenLocked`: no decrypted copy is on disk once a lock or a quit is
  over, however long its parse goes on.
* `LeaseCoversWork`: the lease is out while any document is opened or parsed, so no
  password change rewrites the encrypted copies meanwhile.
* `VisionStaysDown`, `TranslationStaysDown`: what a teardown stopped stays stopped,
  whoever waited for it.
* `OneTranslator`: a translation server on its way in or out is alone.
* `IdleReclaims`: a server nobody uses is timed, also when its start outlived every
  caller that waited for it.
* `CardIsChats`: the card a chat start was given stays free of translations; a start
  that could not wait (thirty seconds) loads beside and is exempt.
* `TeardownsEnd`: a lock and a quit end, whatever a turn, a document or a start does.

Fairness (four weak fairness conditions): the lock's and the quit's own steps; the
loop of a job and its documents (`DocumentsGo`), since a parse and an embedding are
bounded; starts, ends and yields of processes (`ServersGo`), since a start has its
health timeout and a stop its kill. A turn need not end (the
bound is there for that) and nobody need ask.

### 8.3 Finding

`LockLateEmbed`: the import loop looks at the latch before a document, not between
its parse and its embedding, and the embedder is given no signal. A parse that ends
after the embedder was suspended and before the vault is sealed starts a new
embedder process with the text of the document, and the lock does not stop it
again. The handler's comment promises that a lock leaves nothing derived from the
user's data running.

Seen without a run:
* A lock that fails while a quit is under way disarms the latch the quit armed;
  `shutdown.ts` says nothing clears it.
* `vision.stop()` is not joined by a second call: a quit that overtakes a lock may
  let the lock go on before the process is gone.
* Where a turn could not be waited for (`hurried`), the answer it deleted is lost
  with the handle it captured.
* The end of the OS session sweeps no decrypted copies; the next launch does.

### 8.4 Proofs

`LockProofs` proves, for any number of documents, images and jobs and any mix of work
at once (the run takes the kinds singly), `NoAnswerIsLost`, `NothingLeftDecrypted`,
`LeaseHeldWhileWorking`, `VisionIsNotRevived`, `EmbedderIsNotRevived` (once a quit has
stopped the embedder nothing brings it back), `TranslationIsNotRevived`,
`ServersNeverOverlap`, `IdleServersAreTimed` and `CardStaysWithChat`. They
follow from `LockInv` (`LockKeepsOrder`), which is the type invariant and one part
for each kind of work:

* `Latched`: while a teardown runs, the latch is set. Nothing new is admitted
  between two stages, and every other part leans on this.
* `TurnInv`: each stage of a re-ask has something to fall back on (the old answer in
  its row, the shelf, or the new answer), and a turn that goes on behind the wait or
  behind a closed handle is `hurried`.
* `DocsInv`: one lease per job, a decrypted copy belongs to a re-index that prepares
  its document, and after the sweep no document can still be decrypted.
* `ImageInv`: once vision is stopped, no image request is left that was not aborted,
  so nobody builds the runtime again, although the stop of the process itself may
  still be under way.
* `EmbInv`: a quit has latched the embedder before it stops it.
* `ServerInv`: the three properties of the translation server hold together, with one
  addition, `CardPromised`: a chat start that still waits for the card already keeps
  new starts off it.
* `DownInv`: once a teardown has begun every caller that is left is stopped
  (`AllHalted`) and a quit has set its latch; a stopped caller starts nothing
  (`NothingStarts`), so when the joined teardown is over there is no server and none
  comes.

Assumptions: the absent value is not the name of an initiator, nor of a job, and the
document task is not a job. The bounds the
model takes as assumed (8.1) are part of the specification. `TeardownsEnd` is
liveness and only checked.

## 9. Proved, and only checked

Proved for all values of the constants: the theorems of sections 3.4, 4.4, 5.4,
6.3, 7.3 and 8.4, which cover every safety property and the refinement that the
passing runs check. Checked by TLC on the instances above only: the liveness
properties `EveryCallSettles`, `NoAnswerIsStarved`, `EveryTaskEnds`,
`EveryRequestAnswered`, `EveryRunSettles` and `TeardownsEnd`; and the five violated
properties of the findings, which no theorem can state.

No run lists a type invariant: each is a theorem, those of the vault, the runtime
manager, the model slot, the gate, the local API, the downloads and the lock.

Out of the prover's reach, and so left to TLC: liveness under fairness and
ENABLED; induction over data with the library's induction theorems; RECURSIVE
operators (no module here declares one).

Assumptions of the proofs: the ASSUMEs of the modules (TLC evaluates them in every
run), and for the vault those of the table in 3.4.

## 10. Not modelled

* Retrieval, prompt assembly, diff, tables, export, evidence packs, model registry
  and benchmark: numeric data and text, little control.
* SQLite, migrations, settings, policy, audit: synchronous, one transaction each.
* Reranker, transcriber, OCR and knowledge packs: sidecars that follow the pattern of
  the embedder (`DocumentWork`).
* The installers of the engine and of OCR languages, and the spawn gate.
* Move, delete, preview, dictation and export of documents.
* Renderer, preload, scripts, launchers, manifests, evaluation.

Of the program's implementation lines the greater part is user interface, texts in
two languages, parsers and shared types; the modules cover the control of the main
process where several actors meet.

## 11. Running it

    tlc -workers 2 -config VaultCrash.cfg MCVault
    tlc -workers 2 -config RuntimeSwitch.cfg MCRuntime
    tlc -workers 2 -config SlotHandover.cfg MCSlot
    tlc -workers 2 -config LocalApi.cfg MCLocalApi
    tlc -workers 2 -config Downloads.cfg Downloads
    tlc -workers 2 -config LockTeardown.cfg MCLock
    tlapm LockProofs.tla
    tlapm RuntimeProofs.tla
    tlapm VaultPromiseProofs.tla

`VaultCrash`, `RuntimeLadder`, `Downloads` and `LockTeardown` take about two minutes,
the others up to three minutes each. `PROJECT.json` lists components, runs, the mutants
that show each property can fail, the source lines of every definition, hazards and
theorems.
