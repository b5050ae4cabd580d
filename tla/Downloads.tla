----------------------------- MODULE Downloads -----------------------------
(***************************************************************************)
(* The in-app model downloader (services/downloads.ts) over its network    *)
(* seam (services/assets.ts): one job at a time fetches the files of a     *)
(* model in order, each into a `.part` beside its place, checks the hash   *)
(* and renames the file into place.  A job can be cancelled at any await,  *)
(* internet access can be switched off and on, the server may ignore or    *)
(* misread a Range, and the machine may lose power.                        *)
(*                                                                         *)
(* An action stands for the code from one await to the next.  Bytes are    *)
(* abstracted to what resuming and hashing tell apart:                     *)
(*   "prefix"   right so far        "whole"  the complete, right file      *)
(*   "spliced"  wrong so far        "wrong"  complete, with wrong bytes    *)
(***************************************************************************)
EXTENDS Integers, FiniteSets, FiniteSetsExt

CONSTANTS
    Files,    \* the files of the model in download order: 1 .. n
    Jobs,     \* the starts there may be: 1 .. m
    Declared, \* the files whose size the manifest declares
    Unhashed, \* the files whose manifest hash may be a placeholder
    None

ASSUME FilesAssumption == Files # {} /\ Files \subseteq Nat /\ IsFiniteSet(Files)
ASSUME ManifestAssumption == Declared \subseteq Files /\ Unhashed \subseteq Files
ASSUME JobsAssumption  == Jobs \subseteq Nat /\ None \notin Jobs

VARIABLES
    placeholder, \* the files whose manifest hash is a placeholder
    dest,        \* what rests in each file's place ("stale": an older file)
    part,        \* what its .part holds
    flushed,     \* the .part reached the device (part) / the place did (dest)
    allowed,     \* "Allow internet access"
    status, at,  \* of each job: what the screen shows, where its run awaits
    plan, file,  \* the files its run still fetches after `file`
    ranged,      \* its request carries a Range
    why,         \* what its hash or its delete is for
    aborted,     \* its AbortController
    active,      \* the job whose run has not settled
    starting,    \* the latch of a start that still plans
    offSince,    \* internet access went off since that start began
    due          \* the run that must stop before its next request

disk == <<dest, part, flushed>>
runVars == <<plan, file, ranged, why>>
vars == <<placeholder, disk, allowed, status, at, runVars, aborted,
          active, starting, offSince, due>>

Partial  == {"prefix", "spliced"}
Complete == {"whole", "wrong"}
Contents == {"none"} \union Partial \union Complete
Going    == {"downloading", "verifying"}
Awaiting == {"asked", "streaming", "hashing", "deleting"}

Init ==
    /\ placeholder \in SUBSET Unhashed
    /\ dest \in [Files -> {"none", "stale"}]
    /\ part \in [Files -> {"none", "prefix", "whole"}]
    /\ flushed = [f \in Files |-> [part |-> TRUE, dest |-> TRUE]]
    /\ allowed \in BOOLEAN
    /\ status = [j \in Jobs |-> "none"] /\ at = [j \in Jobs |-> "idle"]
    /\ plan = [j \in Jobs |-> {}] /\ file = [j \in Jobs |-> None]
    /\ ranged = [j \in Jobs |-> FALSE]
    /\ why = [j \in Jobs |-> None]
    /\ aborted = [j \in Jobs |-> FALSE]
    /\ active = None /\ starting = FALSE /\ offSince = FALSE /\ due = None

----------------------------------------------------------------------------
(* How a run ends and how it comes to its next file. *)

\* variant: a settled run leaves its controller behind
FreedNever(j) == active

\* The controller is held until the run settled, not until the job reads
\* terminal.
Freed(j) == IF active = j THEN None ELSE active
Settles(j) == at' = [at EXCEPT ![j] = "over"] /\ active' = Freed(j)

\* variant: a late failure is shown whatever the job reads
FailedAlways(j) == "failed"

\* A cancel stands: it is never overwritten by a late failure.
FailedUnless(j) == IF status[j] = "cancelled" THEN "cancelled" ELSE "failed"
FailJob(j) ==
    /\ status' = [status EXCEPT ![j] = FailedUnless(j)]
    /\ Settles(j)
    /\ UNCHANGED <<runVars, aborted, due>>

\* variant: only a .part longer than declared counts as complete
CoversOver(f) == f \in Declared /\ part[f] = "wrong"

\* The .part already holds the whole file: a Range could not be satisfied.
Covers(f) == f \in Declared /\ part[f] \in Complete

\* A request carries a Range when a kept .part is the prefix.
AskFor(j, f, resume) ==
    /\ at' = [at EXCEPT ![j] = "asked"]
    /\ status' = [status EXCEPT ![j] = "downloading"]
    /\ ranged' = [ranged EXCEPT ![j] = resume /\ part[f] # "none"]
    /\ UNCHANGED <<why, aborted, due, active>>

\* variant: only a transfer under way is stopped
StopsNever(j) == FALSE

\* Internet access went off while this run had no need of it.
StopsAt(j) == due = j

CancelSeen(j) == aborted[j]

\* A network request, unless the run must stop before it.
Request(j, f, resume) ==
    \/ /\ StopsAt(j)
       /\ status' = [status EXCEPT ![j] = "cancelled"]
       /\ aborted' = [aborted EXCEPT ![j] = TRUE]
       /\ due' = None
       /\ Settles(j)
       /\ UNCHANGED <<ranged, why>>
    \/ ~StopsAt(j) /\ AskFor(j, f, resume)

\* A file begins: a complete .part is checked where it lies.
Begin(j, f) ==
    \/ /\ Covers(f)
       /\ at' = [at EXCEPT ![j] = "hashing"]
       /\ why' = [why EXCEPT ![j] = "settle"]
       /\ status' = [status EXCEPT ![j] = "verifying"]
       /\ UNCHANGED <<ranged, aborted, due, active>>
    \/ ~Covers(f) /\ Request(j, f, TRUE)

\* The next file of the plan, or the end of the run.
NextFile(j, todo) ==
    \/ /\ todo # {}
       /\ LET f == Min(todo)
          IN  /\ Begin(j, f)
              /\ file' = [file EXCEPT ![j] = f]
              /\ plan' = [plan EXCEPT ![j] = todo \ {f}]
    \/ /\ todo = {}
       /\ status' = [status EXCEPT ![j] = "done"]
       /\ Settles(j)
       /\ UNCHANGED <<plan, file, ranged, why, aborted, due>>

----------------------------------------------------------------------------
(* Starting. *)

\* The gates are read, and no other start or run is under way.
SlotFree == active = None /\ ~starting
Start(j) ==
    /\ at[j] = "idle" /\ \A i \in Jobs : i < j => at[i] # "idle"
    /\ allowed /\ SlotFree
    /\ starting' = TRUE /\ offSince' = FALSE
    /\ at' = [at EXCEPT ![j] = "planning"]
    /\ UNCHANGED <<placeholder, disk, allowed, status, runVars, aborted, active,
                   due>>

\* Files in place with the right hash, and placeholders that are there at
\* all, are not fetched again.
ToDownload ==
    {f \in Files : dest[f] # "whole" /\ ~(f \in placeholder /\ dest[f] # "none")}

StillAllowed == ~offSince \/ allowed

\* The plan is made: nothing to fetch, no room, or no longer allowed refuses
\* the start; otherwise the run begins at once.
Planned(j) ==
    /\ at[j] = "planning"
    /\ starting' = FALSE
    /\ UNCHANGED <<placeholder, disk, allowed, offSince>>
    /\ \/ /\ status' = [status EXCEPT ![j] = "refused"]
          /\ at' = [at EXCEPT ![j] = "over"]
          /\ UNCHANGED <<plan, file, ranged, why, aborted, active, due>>
       \/ /\ ToDownload # {} /\ StillAllowed
          /\ LET f == Min(ToDownload)
             IN  /\ file' = [file EXCEPT ![j] = f]
                 /\ plan' = [plan EXCEPT ![j] = ToDownload \ {f}]
                 /\ UNCHANGED <<aborted, due>>
                 /\ active' = j
                 /\ IF Covers(f)
                    THEN /\ at' = [at EXCEPT ![j] = "hashing"]
                         /\ why' = [why EXCEPT ![j] = "settle"]
                         /\ status' = [status EXCEPT ![j] = "verifying"]
                         /\ UNCHANGED ranged
                    ELSE /\ at' = [at EXCEPT ![j] = "asked"]
                         /\ status' = [status EXCEPT ![j] = "downloading"]
                         /\ ranged' = [ranged EXCEPT ![j] = part[f] # "none"]
                         /\ UNCHANGED why

----------------------------------------------------------------------------
(* The transfer. *)

\* The server answers from the start (200): the file is truncated.
AnswersFromStart(j) ==
    /\ at[j] = "asked" /\ ~aborted[j]
    /\ at' = [at EXCEPT ![j] = "streaming"]
    /\ part' = [part EXCEPT ![file[j]] = "none"]
    /\ flushed' = [flushed EXCEPT ![file[j]].part = FALSE]
    /\ UNCHANGED <<placeholder, dest, allowed, status, runVars, aborted, active,
                   starting, offSince, due>>

Spoilt(c) == IF c \in Complete THEN "wrong" ELSE "spliced"

\* The server honours the Range (206).  One that gives no Content-Range and
\* serves another slice cannot be told apart.
AnswersRange(j) ==
    /\ at[j] = "asked" /\ ranged[j] /\ ~aborted[j]
    /\ at' = [at EXCEPT ![j] = "streaming"]
    /\ part' \in {part, [part EXCEPT ![file[j]] = Spoilt(@)]}
    /\ flushed' = [flushed EXCEPT ![file[j]].part = FALSE]
    /\ UNCHANGED <<placeholder, dest, allowed, status, runVars, aborted, active,
                   starting, offSince, due>>

\* A 206 whose Content-Range starts elsewhere: the .part is discarded.
AnswersElsewhere(j) ==
    /\ at[j] = "asked" /\ ranged[j] /\ ~aborted[j]
    /\ at' = [at EXCEPT ![j] = "deleting"]
    /\ why' = [why EXCEPT ![j] = "offset"]
    /\ UNCHANGED <<placeholder, disk, allowed, status, plan, file, ranged,
                   aborted, active, starting, offSince, due>>

\* 416, which says that the .part is complete: it is checked where it lies.
AnswersUnsatisfiable(j) ==
    /\ at[j] = "asked" /\ ranged[j] /\ ~aborted[j]
    /\ at' = [at EXCEPT ![j] = "hashing"]
    /\ why' = [why EXCEPT ![j] = "settle"]
    /\ status' = [status EXCEPT ![j] = "verifying"]
    /\ UNCHANGED <<placeholder, disk, allowed, plan, file, ranged,
                   aborted, active, starting, offSince, due>>

\* What the bytes of a stream can make of a .part.
Grown(p) ==
    CASE p = "none"    -> {"prefix", "spliced", "whole", "wrong"}
      [] p = "prefix"  -> {"whole", "spliced", "wrong"}
      [] p = "spliced" -> {"wrong"}
      [] OTHER         -> {}

\* Bytes reach the file; after an abort, those that had already arrived.
BytesArrive(j) ==
    /\ at[j] = "streaming"
    /\ \E p \in Grown(part[file[j]]) : part' = [part EXCEPT ![file[j]] = p]
    /\ UNCHANGED <<placeholder, dest, flushed, allowed, status, at, runVars,
                   aborted, active, starting, offSince, due>>

\* The stream ends: the file is flushed to the device and then checked.
StreamEnds(j) ==
    /\ at[j] = "streaming" /\ ~aborted[j] /\ part[file[j]] # "none"
    /\ flushed' = [flushed EXCEPT ![file[j]].part = TRUE]
    /\ at' = [at EXCEPT ![j] = "hashing"]
    /\ why' = [why EXCEPT ![j] = "fresh"]
    /\ status' = [status EXCEPT ![j] = "verifying"]
    /\ UNCHANGED <<placeholder, dest, part, allowed, plan, file, ranged,
                   aborted, active, starting, offSince, due>>

\* The request or the stream fails, by itself or by the abort: the .part is
\* kept, and it was not flushed.
TransferFails(j) ==
    /\ at[j] \in {"asked", "streaming"}
    /\ FailJob(j)
    /\ UNCHANGED <<placeholder, disk, allowed, starting, offSince>>

----------------------------------------------------------------------------
(* Checking. *)

Matches(f) == f \in placeholder \/ part[f] = "whole"

\* variant: a complete .part is renamed as it is
FlushedByStream(j) == flushed[file[j]].part

\* A complete .part was read through the page cache: it is flushed before it
\* is renamed.
FlushedBy(j) == flushed[file[j]].part \/ why[j] = "settle"

\* The hash vouches for the bytes (or there is none to): into place, and on
\* to the next file.
InPlace(j) ==
    /\ at[j] = "hashing" /\ ~aborted[j] /\ Matches(file[j])
    /\ dest' = [dest EXCEPT ![file[j]] =
                    IF part[file[j]] = "whole" THEN "whole" ELSE "wrong"]
    /\ part' = [part EXCEPT ![file[j]] = "none"]
    /\ flushed' = [flushed EXCEPT ![file[j]] =
                       [part |-> TRUE, dest |-> FlushedBy(j)]]
    /\ NextFile(j, plan[j])
    /\ UNCHANGED <<placeholder, allowed, starting, offSince>>

\* The bytes are wrong: the .part is deleted.
HashDiffers(j) ==
    /\ at[j] = "hashing" /\ ~aborted[j] /\ ~Matches(file[j])
    /\ at' = [at EXCEPT ![j] = "deleting"]
    /\ UNCHANGED <<placeholder, disk, allowed, status, runVars, aborted, active,
                   starting, offSince, due>>

\* The hash stops for the abort or cannot be taken, or the rename fails: the
\* .part is kept.
CheckFails(j) ==
    /\ at[j] = "hashing"
    /\ FailJob(j)
    /\ UNCHANGED <<placeholder, disk, allowed, starting, offSince>>

\* The bad .part is gone.  A complete one that was kept from an earlier run
\* is fetched again, once; bytes this run fetched fail it.
Deleted(j) ==
    /\ at[j] = "deleting"
    /\ part' = [part EXCEPT ![file[j]] = "none"]
    /\ flushed' = [flushed EXCEPT ![file[j]].part = TRUE]
    /\ UNCHANGED <<placeholder, dest, allowed, starting, offSince>>
    /\ \/ /\ why[j] = "settle"
          /\ UNCHANGED <<plan, file>>
          /\ \/ /\ CancelSeen(j)
                /\ status' = [status EXCEPT ![j] = "cancelled"]
                /\ Settles(j)
                /\ UNCHANGED <<ranged, why, aborted, due>>
             \/ ~CancelSeen(j) /\ Request(j, file[j], FALSE)
       \/ /\ why[j] # "settle"
          /\ status' = [status EXCEPT ![j] = FailedUnless(j)]
          /\ Settles(j)
          /\ UNCHANGED <<plan, file, ranged, why, aborted, due>>

DeleteFails(j) ==
    /\ at[j] = "deleting"
    /\ FailJob(j)
    /\ UNCHANGED <<placeholder, disk, allowed, starting, offSince>>

----------------------------------------------------------------------------
(* The user and the machine. *)

Cancel(j) ==
    /\ status[j] \in Going
    /\ status' = [status EXCEPT ![j] = "cancelled"]
    /\ aborted' = [aborted EXCEPT ![j] = active = j]
    /\ UNCHANGED <<placeholder, disk, allowed, at, runVars, active, starting,
                   offSince, due>>

\* Internet access goes off: a transfer stops at once, a run that is checking
\* stops before its next request, a start that is planning is refused.
SwitchOff ==
    /\ allowed
    /\ allowed' = FALSE /\ offSince' = TRUE
    /\ IF active # None /\ status[active] = "downloading"
       THEN /\ status' = [status EXCEPT ![active] = "cancelled"]
            /\ aborted' = [aborted EXCEPT ![active] = TRUE]
            /\ due' = None
       ELSE due' = active /\ UNCHANGED <<status, aborted>>
    /\ UNCHANGED <<placeholder, disk, at, runVars, active, starting>>

SwitchOn ==
    /\ ~allowed
    /\ allowed' = TRUE /\ due' = None
    /\ UNCHANGED <<placeholder, disk, status, at, runVars, aborted, active,
                   starting, offSince>>

Torn(c) == CASE c = "prefix" -> "spliced" [] c = "whole" -> "wrong" [] OTHER -> c

\* Power goes: the jobs are forgotten, and what had not reached the device
\* may be torn.
PowerCut ==
    /\ \E j \in Jobs : at[j] \in Awaiting \union {"planning", "over"}
    /\ \E torn \in SUBSET {f \in Files : ~flushed[f].part} :
         part' = [f \in Files |-> IF f \in torn THEN Torn(part[f]) ELSE part[f]]
    /\ \E torn \in SUBSET {f \in Files : ~flushed[f].dest} :
         dest' = [f \in Files |-> IF f \in torn THEN Torn(dest[f]) ELSE dest[f]]
    /\ flushed' = [f \in Files |-> [part |-> TRUE, dest |-> TRUE]]
    /\ status' = [j \in Jobs |-> IF at[j] = "idle" THEN "none" ELSE "gone"]
    /\ at' = [j \in Jobs |-> IF at[j] = "idle" THEN "idle" ELSE "over"]
    /\ plan' = [j \in Jobs |-> {}] /\ file' = [j \in Jobs |-> None]
    /\ ranged' = [j \in Jobs |-> FALSE]
    /\ why' = [j \in Jobs |-> None]
    /\ aborted' = [j \in Jobs |-> FALSE]
    /\ active' = None /\ starting' = FALSE /\ offSince' = FALSE /\ due' = None
    /\ UNCHANGED <<placeholder, allowed>>

RunStep(j) ==
    \/ Planned(j)
    \/ AnswersFromStart(j) \/ AnswersRange(j) \/ AnswersElsewhere(j)
    \/ AnswersUnsatisfiable(j) \/ BytesArrive(j) \/ StreamEnds(j)
    \/ TransferFails(j)
    \/ InPlace(j) \/ HashDiffers(j) \/ CheckFails(j)
    \/ Deleted(j) \/ DeleteFails(j)

Next ==
    \/ \E j \in Jobs : Start(j) \/ RunStep(j) \/ Cancel(j)
    \/ SwitchOff \/ SwitchOn \/ PowerCut

Spec == Init /\ [][Next]_vars
\* The network stack times out a dead connection and a disk answers or fails:
\* an await of a run never lasts for ever.
FairSpec == Spec /\ \A j \in Jobs : WF_vars(RunStep(j))

----------------------------------------------------------------------------
(* Properties. *)

Running(j) == at[j] \in Awaiting \union {"planning"}

TypeOK ==
    /\ placeholder \subseteq Unhashed
    /\ dest \in [Files -> {"none", "stale", "whole", "wrong"}]
    /\ part \in [Files -> Contents]
    /\ flushed \in [Files -> [part : BOOLEAN, dest : BOOLEAN]]
    /\ allowed \in BOOLEAN
    /\ status \in [Jobs -> Going \union
                           {"none", "refused", "done", "failed", "cancelled", "gone"}]
    /\ at \in [Jobs -> Awaiting \union {"idle", "planning", "over"}]
    /\ plan \in [Jobs -> SUBSET Files]
    /\ file \in [Jobs -> Files \union {None}]
    /\ ranged \in [Jobs -> BOOLEAN]
    /\ why \in [Jobs -> {None, "fresh", "settle", "offset"}]
    /\ aborted \in [Jobs -> BOOLEAN]
    /\ active \in Jobs \union {None}
    /\ starting \in BOOLEAN /\ offSince \in BOOLEAN
    /\ due \in Jobs \union {None}

\* At most one start or run is under way: two runs would write one `.part` and
\* orphan each other's controller (the `starting` latch, and a cancelled job
\* that holds the slot until it unwound).
OneWriter == Cardinality({j \in Jobs : Running(j)}) <= 1

\* What a real hash vouched for is whole where it rests, and stays whole when
\* power is cut: the checksum cache will report it verified without reading it
\* again (flushToDevice before every rename).
InPlaceIsWhole ==
    \A f \in Files : f \notin placeholder => dest[f] \in {"none", "stale", "whole"}

\* A job that reads "done" left every file of the model usable: whole, or
\* present with a hash nobody can check.
DoneIsComplete ==
    \A j \in Jobs : status[j] = "done" =>
        \A f \in Files : dest[f] = "whole" \/ (f \in placeholder /\ dest[f] # "none")

\* A cancel stands: no late answer, hash, delete or failure of the run it
\* cancelled changes what the job reads (the renderer stopped polling).
CancelStands ==
    [][\A j \in Jobs : status[j] = "cancelled" => status'[j] \in {"cancelled", "gone"}]_vars

\* No request begins while internet access is off, whatever the run was doing
\* when it was switched off (networkSwitched, NetworkSwitch).
NoRequestWhileOff ==
    [][\A j \in Jobs : at[j] # "asked" /\ at'[j] = "asked" => allowed]_vars

\* Bytes that are all there are never thrown away or fetched again: the whole
\* `.part` of a file of declared size leaves only into its place, unless the
\* power is cut.
WholePartIsKept ==
    [][\A f \in Declared : part[f] = "whole" /\ part'[f] # "whole" =>
           dest'[f] = "whole" \/ PowerCut]_vars

\* Every start settles, so the downloader is free for the next one.
EveryRunSettles == \A j \in Jobs : Running(j) ~> ~Running(j) /\ active # j
=============================================================================
