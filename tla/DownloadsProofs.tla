-------------------------- MODULE DownloadsProofs --------------------------
(***************************************************************************)
(* For any model and any number of starts: one run at a time, a cancel     *)
(* stands, no request begins offline, and what rests in place, or waits    *)
(* there complete, is never torn nor thrown away.                          *)
(***************************************************************************)
EXTENDS Downloads, WellFoundedInduction, FiniteSetTheorems, TLAPS

\* The run that awaits is the one that holds the controller, and nobody plans
\* beside it.
Busy ==
    /\ \A j \in Jobs : at[j] \in Awaiting <=> active = j
    /\ \A j \in Jobs : at[j] = "planning" => starting
    /\ \A i, j \in Jobs : at[i] = "planning" /\ at[j] = "planning" => i = j
    /\ starting => active = None

\* What the screen shows of a job follows its run, and a run that reads
\* cancelled has been told so.
Shown ==
    \A j \in Jobs :
      /\ status[j] \in Going => at[j] \in Awaiting
      /\ at[j] \in {"idle", "planning"} => status[j] = "none"
      /\ at[j] \in Awaiting => file[j] \in Files
      /\ at[j] \in Awaiting /\ status[j] = "cancelled" => aborted[j]

\* While internet access is off, whoever began before knows.
Offline ==
    ~allowed => /\ starting => offSince
                /\ \A j \in Jobs : active = j => aborted[j] \/ due = j

\* Nothing rests in its place that has not reached the device.
OnDevice ==
    /\ \A f \in Files : flushed[f].dest
    /\ \A j \in Jobs : at[j] = "hashing" =>
           why[j] = "settle" \/ (why[j] = "fresh" /\ flushed[file[j]].part)

\* A request is made, and a delete, only where bytes are missing or wrong.
Needed ==
    \A j \in Jobs : file[j] \in Declared =>
        /\ at[j] = "asked" => part[file[j]] \notin Complete
        /\ at[j] = "deleting" => part[file[j]] # "whole"

\* Files a job need not fetch (again), and that it has left only those to do.
Usable(f) == dest[f] = "whole" \/ (f \in placeholder /\ dest[f] # "none")
Remaining ==
    \A j \in Jobs :
      /\ at[j] \in Awaiting => \A f \in Files : f \in plan[j] \union {file[j]} \/ Usable(f)
      /\ status[j] = "done" => \A f \in Files : Usable(f)

Inv == TypeOK /\ Busy /\ Shown /\ Offline /\ OnDevice /\ Needed /\ InPlaceIsWhole
       /\ Remaining

USE FilesAssumption, ManifestAssumption, JobsAssumption
    DEF Partial, Complete, Contents, Going, Awaiting

\* A set of files has a first one.
LEMMA MinIsIn ==
  ASSUME NEW S \in SUBSET Files, S # {}
  PROVE  Min(S) \in S
<1> DEFINE Less == {ss \in Nat \X Nat : ss[1] < ss[2]}
<1>1. IsWellFoundedOn(Less, Nat)
  BY NatLessThanWellFounded DEF OpToRel
<1>2. S \subseteq Nat
  OBVIOUS
<1> HIDE DEF Less
<1>3. PICK m \in S : \A k \in S : ~(<<k, m>> \in Less)
  BY <1>1, <1>2, WFMin
<1>4. \A k \in S : m <= k
  <2> SUFFICES ASSUME NEW k \in S, ~(m <= k) PROVE FALSE
    OBVIOUS
  <2>1. k \in Nat /\ m \in Nat
    BY <1>2
  <2>2. <<k, m>> \in Less
    BY <2>1 DEF Less
  <2> QED
    BY <2>2, <1>3
<1> QED
  BY <1>4 DEF Min

\* Marking a .part keeps the record of its file.
LEMMA FlushedTyped ==
  ASSUME flushed \in [Files -> [part : BOOLEAN, dest : BOOLEAN]],
         NEW f \in Files, NEW b \in BOOLEAN
  PROVE  [flushed EXCEPT ![f].part = b] \in [Files -> [part : BOOLEAN, dest : BOOLEAN]]
<1>1. \A g \in Files : [flushed EXCEPT ![f].part = b][g] \in [part : BOOLEAN, dest : BOOLEAN]
  OBVIOUS
<1> QED
  BY <1>1

LEMMA InitInv == Init => Inv
<1> SUFFICES ASSUME Init PROVE Inv
  OBVIOUS
<1>1. TypeOK
  BY DEF Init, TypeOK
<1>2. Busy
  BY DEF Init, Busy
<1>3. Shown
  BY DEF Init, Shown
<1>4. Offline
  BY DEF Init, Offline
<1>5. OnDevice
  BY DEF Init, OnDevice
<1>6. Needed
  BY DEF Init, Needed
<1>7. InPlaceIsWhole
  BY DEF Init, InPlaceIsWhole
<1>8. Remaining
  BY DEF Init, Remaining
<1> QED
  BY <1>1, <1>2, <1>3, <1>4, <1>5, <1>6, <1>7, <1>8 DEF Inv

-----------------------------------------------------------------------------
(* A start, from its request to its first file. *)

LEMMA StartInv == ASSUME Inv, NEW j \in Jobs, Start(j) PROVE Inv'
<1> USE DEF Inv
<1>1. TypeOK'
  BY DEF Start, SlotFree, disk, runVars, TypeOK, Busy, Shown
<1>2. Busy'
  BY DEF Start, SlotFree, disk, runVars, TypeOK, Busy, Shown
<1>3. Shown'
  BY DEF Start, SlotFree, disk, runVars, TypeOK, Busy, Shown
<1>4. Offline'
  BY DEF Start, SlotFree, disk, runVars, TypeOK, Busy, Shown, Offline
<1>5. OnDevice'
  BY DEF Start, SlotFree, disk, runVars, TypeOK, Busy, Shown, OnDevice
<1>6. Needed'
  BY DEF Start, SlotFree, disk, runVars, TypeOK, Busy, Shown, Needed
<1>7. InPlaceIsWhole'
  BY DEF Start, SlotFree, disk, runVars, TypeOK, Busy, Shown, InPlaceIsWhole, OnDevice
<1>8. Remaining'
  BY DEF Start, SlotFree, disk, runVars, TypeOK, Busy, Shown, Remaining, OnDevice, Usable
<1> QED
  BY <1>1, <1>2, <1>3, <1>4, <1>5, <1>6, <1>7, <1>8

\* What a finished plan does: the start is refused, or its first file begins.
Refuses(j) ==
    /\ status' = [status EXCEPT ![j] = "refused"]
    /\ at' = [at EXCEPT ![j] = "over"]
    /\ UNCHANGED <<plan, file, ranged, why, aborted, active, due>>

BeginsWith(j, f, todo) ==
    /\ StillAllowed /\ active' = j
    /\ file' = [file EXCEPT ![j] = f] /\ plan' = [plan EXCEPT ![j] = todo]
    /\ \A g \in Files : g \in todo \union {f} \/ Usable(g)
    /\ UNCHANGED <<aborted, due>>
    /\ \/ /\ at' = [at EXCEPT ![j] = "hashing"]
          /\ why' = [why EXCEPT ![j] = "settle"]
          /\ status' = [status EXCEPT ![j] = "verifying"]
          /\ UNCHANGED ranged
       \/ /\ at' = [at EXCEPT ![j] = "asked"] /\ ~Covers(f)
          /\ status' = [status EXCEPT ![j] = "downloading"]
          /\ \E b \in BOOLEAN : ranged' = [ranged EXCEPT ![j] = b]
          /\ UNCHANGED why

LEMMA PlannedShape ==
  ASSUME NEW j \in Jobs, Planned(j)
  PROVE  Refuses(j) \/ \E f \in Files, todo \in SUBSET Files : BeginsWith(j, f, todo)
<1>1. ToDownload \subseteq Files /\ (ToDownload # {} => Min(ToDownload) \in ToDownload)
  BY MinIsIn DEF ToDownload
<1> HIDE DEF ToDownload
<1>2. CASE ToDownload # {}
  <2> DEFINE f == Min(ToDownload)  todo == ToDownload \ {f}
  <2>1. f \in Files /\ todo \in SUBSET Files
    BY <1>1, <1>2
  <2>a. \A g \in Files : g \in todo \union {f} \/ Usable(g)
    BY DEF ToDownload, Usable
  <2>2. Refuses(j) \/ BeginsWith(j, f, todo)
    BY <2>a DEF Planned, Refuses, BeginsWith
  <2> QED
    BY <2>1, <2>2
<1>3. CASE ToDownload = {}
  BY <1>3 DEF Planned, Refuses
<1> QED
  BY <1>2, <1>3

LEMMA PlannedInv == ASSUME Inv, NEW j \in Jobs, Planned(j) PROVE Inv'
<1> USE DEF Inv
<1>a. /\ at[j] = "planning" /\ starting' = FALSE
      /\ UNCHANGED <<placeholder, dest, part, flushed, allowed, offSince>>
  BY DEF Planned, disk
<1>1. CASE Refuses(j)
  <2>1. TypeOK'
    BY <1>a, <1>1 DEF Refuses, TypeOK, Busy, Shown
  <2>2. Busy'
    BY <1>a, <1>1 DEF Refuses, TypeOK, Busy, Shown
  <2>3. Shown'
    BY <1>a, <1>1 DEF Refuses, TypeOK, Busy, Shown
  <2>4. Offline'
    BY <1>a, <1>1 DEF Refuses, TypeOK, Busy, Shown, Offline
  <2>5. OnDevice'
    BY <1>a, <1>1 DEF Refuses, TypeOK, Busy, Shown, OnDevice
  <2>6. Needed'
    BY <1>a, <1>1 DEF Refuses, TypeOK, Busy, Shown, Needed
  <2>7. InPlaceIsWhole'
    BY <1>a, <1>1 DEF Refuses, TypeOK, Busy, Shown, InPlaceIsWhole, OnDevice
  <2>8. Remaining'
    BY <1>a, <1>1 DEF Refuses, TypeOK, Busy, Shown, Remaining, OnDevice, Usable
  <2> QED
    BY <2>1, <2>2, <2>3, <2>4, <2>5, <2>6, <2>7, <2>8
<1>2. ASSUME NEW f \in Files, NEW todo \in SUBSET Files, BeginsWith(j, f, todo) PROVE Inv'
  <2>1. TypeOK'
    <3>1. (placeholder \subseteq Unhashed /\ allowed \in BOOLEAN)'
      BY <1>a, <1>2 DEF BeginsWith, StillAllowed, Covers, TypeOK
    <3>2. (dest \in [Files -> {"none", "stale", "whole", "wrong"}])'
      BY <1>a, <1>2 DEF BeginsWith, StillAllowed, Covers, TypeOK
    <3>3. (part \in [Files -> Contents])'
      BY <1>a, <1>2 DEF BeginsWith, StillAllowed, Covers, TypeOK
    <3>4. (flushed \in [Files -> [part : BOOLEAN, dest : BOOLEAN]])'
      BY <1>a, <1>2 DEF BeginsWith, StillAllowed, Covers, TypeOK
    <3>5. (status \in [Jobs -> Going \union {"none", "refused", "done", "failed", "cancelled",
       "gone"}])'
      BY <1>a, <1>2 DEF BeginsWith, StillAllowed, Covers, TypeOK
    <3>6. (at \in [Jobs -> Awaiting \union {"idle", "planning", "over"}])'
      BY <1>a, <1>2 DEF BeginsWith, StillAllowed, Covers, TypeOK
    <3>7. (plan \in [Jobs -> SUBSET Files] /\ file \in [Jobs -> Files \union {None}])'
      BY <1>a, <1>2 DEF BeginsWith, StillAllowed, Covers, TypeOK
    <3>8. (ranged \in [Jobs -> BOOLEAN] /\ why \in [Jobs -> {None, "fresh", "settle",
       "offset"}])'
      BY <1>a, <1>2 DEF BeginsWith, StillAllowed, Covers, TypeOK
    <3>9. (aborted \in [Jobs -> BOOLEAN])'
      BY <1>a, <1>2 DEF BeginsWith, StillAllowed, Covers, TypeOK
    <3>10. (active \in Jobs \union {None} /\ starting \in BOOLEAN)'
      BY <1>a, <1>2 DEF BeginsWith, StillAllowed, Covers, TypeOK
    <3>11. (offSince \in BOOLEAN /\ due \in Jobs \union {None})'
      BY <1>a, <1>2 DEF BeginsWith, StillAllowed, Covers, TypeOK
    <3> QED
      BY <3>1, <3>2, <3>3, <3>4, <3>5, <3>6, <3>7, <3>8, <3>9, <3>10, <3>11 DEF TypeOK
  <2>2. Busy'
    BY <1>a, <1>2 DEF BeginsWith, StillAllowed, Covers, TypeOK, Busy, Shown
  <2>3. Shown'
    BY <1>a, <1>2 DEF BeginsWith, StillAllowed, Covers, TypeOK, Busy, Shown
  <2>4. Offline'
    BY <1>a, <1>2 DEF BeginsWith, StillAllowed, Covers, TypeOK, Busy, Shown, Offline
  <2>5. OnDevice'
    BY <1>a, <1>2 DEF BeginsWith, StillAllowed, Covers, TypeOK, Busy, Shown, OnDevice
  <2>6. Needed'
    BY <1>a, <1>2 DEF BeginsWith, StillAllowed, Covers, TypeOK, Busy, Shown, Needed
  <2>7. InPlaceIsWhole'
    BY <1>a, <1>2 DEF BeginsWith, StillAllowed, Covers, TypeOK, Busy, Shown, InPlaceIsWhole,
       OnDevice
  <2>8. Remaining'
    BY <1>a, <1>2 DEF BeginsWith, StillAllowed, Covers, TypeOK, Busy, Shown, Remaining,
       OnDevice, Usable
  <2> QED
    BY <2>1, <2>2, <2>3, <2>4, <2>5, <2>6, <2>7, <2>8
<1> QED
  BY <1>1, <1>2, PlannedShape

-----------------------------------------------------------------------------
(* The transfer. *)

LEMMA FromStartInv == ASSUME Inv, NEW j \in Jobs, AnswersFromStart(j) PROVE Inv'
<1> USE DEF Inv
<1>a. \A b \in BOOLEAN : [flushed EXCEPT ![file[j]].part = b]
                            \in [Files -> [part : BOOLEAN, dest : BOOLEAN]]
  BY FlushedTyped DEF AnswersFromStart, TypeOK, Busy, Shown
<1>1. TypeOK'
  BY <1>a DEF AnswersFromStart, disk, runVars, TypeOK, Busy, Shown
<1>2. Busy'
  BY DEF AnswersFromStart, disk, runVars, TypeOK, Busy, Shown
<1>3. Shown'
  BY DEF AnswersFromStart, disk, runVars, TypeOK, Busy, Shown
<1>4. Offline'
  BY DEF AnswersFromStart, disk, runVars, TypeOK, Busy, Shown, Offline
<1>5. OnDevice'
  BY DEF AnswersFromStart, disk, runVars, TypeOK, Busy, Shown, OnDevice
<1>6. Needed'
  BY DEF AnswersFromStart, disk, runVars, TypeOK, Busy, Shown, Needed
<1>7. InPlaceIsWhole'
  BY DEF AnswersFromStart, disk, runVars, TypeOK, Busy, Shown, InPlaceIsWhole, OnDevice
<1>8. Remaining'
  BY DEF AnswersFromStart, disk, runVars, TypeOK, Busy, Shown, Remaining, OnDevice, Usable
<1> QED
  BY <1>1, <1>2, <1>3, <1>4, <1>5, <1>6, <1>7, <1>8

LEMMA RangeInv == ASSUME Inv, NEW j \in Jobs, AnswersRange(j) PROVE Inv'
<1> USE DEF Inv
<1>a. \A b \in BOOLEAN : [flushed EXCEPT ![file[j]].part = b]
                            \in [Files -> [part : BOOLEAN, dest : BOOLEAN]]
  BY FlushedTyped DEF AnswersRange, TypeOK, Busy, Shown
<1>1. TypeOK'
  BY ZenonT(40), <1>a DEF AnswersRange, Spoilt, disk, runVars, TypeOK, Busy, Shown
<1>2. Busy'
  BY DEF AnswersRange, Spoilt, disk, runVars, TypeOK, Busy, Shown
<1>3. Shown'
  BY DEF AnswersRange, Spoilt, disk, runVars, TypeOK, Busy, Shown
<1>4. Offline'
  BY DEF AnswersRange, Spoilt, disk, runVars, TypeOK, Busy, Shown, Offline
<1>5. OnDevice'
  BY DEF AnswersRange, Spoilt, disk, runVars, TypeOK, Busy, Shown, OnDevice
<1>6. Needed'
  BY DEF AnswersRange, Spoilt, disk, runVars, TypeOK, Busy, Shown, Needed
<1>7. InPlaceIsWhole'
  BY DEF AnswersRange, Spoilt, disk, runVars, TypeOK, Busy, Shown, InPlaceIsWhole, OnDevice
<1>8. Remaining'
  BY DEF AnswersRange, Spoilt, disk, runVars, TypeOK, Busy, Shown, Remaining, OnDevice, Usable
<1> QED
  BY <1>1, <1>2, <1>3, <1>4, <1>5, <1>6, <1>7, <1>8

LEMMA ElsewhereInv == ASSUME Inv, NEW j \in Jobs, AnswersElsewhere(j) PROVE Inv'
<1> USE DEF Inv
<1>1. TypeOK'
  BY DEF AnswersElsewhere, disk, runVars, TypeOK, Busy, Shown
<1>2. Busy'
  BY DEF AnswersElsewhere, disk, runVars, TypeOK, Busy, Shown
<1>3. Shown'
  BY DEF AnswersElsewhere, disk, runVars, TypeOK, Busy, Shown
<1>4. Offline'
  BY DEF AnswersElsewhere, disk, runVars, TypeOK, Busy, Shown, Offline
<1>5. OnDevice'
  BY DEF AnswersElsewhere, disk, runVars, TypeOK, Busy, Shown, OnDevice
<1>6. Needed'
  BY DEF AnswersElsewhere, disk, runVars, TypeOK, Busy, Shown, Needed
<1>7. InPlaceIsWhole'
  BY DEF AnswersElsewhere, disk, runVars, TypeOK, Busy, Shown, InPlaceIsWhole, OnDevice
<1>8. Remaining'
  BY DEF AnswersElsewhere, disk, runVars, TypeOK, Busy, Shown, Remaining, OnDevice, Usable
<1> QED
  BY <1>1, <1>2, <1>3, <1>4, <1>5, <1>6, <1>7, <1>8

LEMMA UnsatisfiableInv == ASSUME Inv, NEW j \in Jobs, AnswersUnsatisfiable(j) PROVE Inv'
<1> USE DEF Inv
<1>1. TypeOK'
  BY DEF AnswersUnsatisfiable, disk, runVars, TypeOK, Busy, Shown
<1>2. Busy'
  BY DEF AnswersUnsatisfiable, disk, runVars, TypeOK, Busy, Shown
<1>3. Shown'
  BY DEF AnswersUnsatisfiable, disk, runVars, TypeOK, Busy, Shown
<1>4. Offline'
  BY DEF AnswersUnsatisfiable, disk, runVars, TypeOK, Busy, Shown, Offline
<1>5. OnDevice'
  BY DEF AnswersUnsatisfiable, disk, runVars, TypeOK, Busy, Shown, OnDevice
<1>6. Needed'
  BY DEF AnswersUnsatisfiable, disk, runVars, TypeOK, Busy, Shown, Needed
<1>7. InPlaceIsWhole'
  BY DEF AnswersUnsatisfiable, disk, runVars, TypeOK, Busy, Shown, InPlaceIsWhole, OnDevice
<1>8. Remaining'
  BY DEF AnswersUnsatisfiable, disk, runVars, TypeOK, Busy, Shown, Remaining, OnDevice, Usable
<1> QED
  BY <1>1, <1>2, <1>3, <1>4, <1>5, <1>6, <1>7, <1>8

LEMMA BytesInv == ASSUME Inv, NEW j \in Jobs, BytesArrive(j) PROVE Inv'
<1> USE DEF Inv
<1>1. TypeOK'
  BY DEF BytesArrive, Grown, disk, runVars, TypeOK, Busy, Shown
<1>2. Busy'
  BY DEF BytesArrive, Grown, disk, runVars, TypeOK, Busy, Shown
<1>3. Shown'
  BY DEF BytesArrive, Grown, disk, runVars, TypeOK, Busy, Shown
<1>4. Offline'
  BY DEF BytesArrive, Grown, disk, runVars, TypeOK, Busy, Shown, Offline
<1>5. OnDevice'
  BY DEF BytesArrive, Grown, disk, runVars, TypeOK, Busy, Shown, OnDevice
<1>6. Needed'
  BY DEF BytesArrive, Grown, disk, runVars, TypeOK, Busy, Shown, Needed
<1>7. InPlaceIsWhole'
  BY DEF BytesArrive, Grown, disk, runVars, TypeOK, Busy, Shown, InPlaceIsWhole, OnDevice
<1>8. Remaining'
  BY DEF BytesArrive, Grown, disk, runVars, TypeOK, Busy, Shown, Remaining, OnDevice, Usable
<1> QED
  BY <1>1, <1>2, <1>3, <1>4, <1>5, <1>6, <1>7, <1>8

LEMMA StreamEndsInv == ASSUME Inv, NEW j \in Jobs, StreamEnds(j) PROVE Inv'
<1> USE DEF Inv
<1>a. \A b \in BOOLEAN : [flushed EXCEPT ![file[j]].part = b]
                            \in [Files -> [part : BOOLEAN, dest : BOOLEAN]]
  BY FlushedTyped DEF StreamEnds, TypeOK, Busy, Shown
<1>1. TypeOK'
  BY <1>a DEF StreamEnds, disk, runVars, TypeOK, Busy, Shown
<1>2. Busy'
  BY DEF StreamEnds, disk, runVars, TypeOK, Busy, Shown
<1>3. Shown'
  BY DEF StreamEnds, disk, runVars, TypeOK, Busy, Shown
<1>4. Offline'
  BY DEF StreamEnds, disk, runVars, TypeOK, Busy, Shown, Offline
<1>5. OnDevice'
  BY DEF StreamEnds, disk, runVars, TypeOK, Busy, Shown, OnDevice
<1>6. Needed'
  BY DEF StreamEnds, disk, runVars, TypeOK, Busy, Shown, Needed
<1>7. InPlaceIsWhole'
  BY DEF StreamEnds, disk, runVars, TypeOK, Busy, Shown, InPlaceIsWhole, OnDevice
<1>8. Remaining'
  BY DEF StreamEnds, disk, runVars, TypeOK, Busy, Shown, Remaining, OnDevice, Usable
<1> QED
  BY <1>1, <1>2, <1>3, <1>4, <1>5, <1>6, <1>7, <1>8

LEMMA TransferFailsInv == ASSUME Inv, NEW j \in Jobs, TransferFails(j) PROVE Inv'
<1> USE DEF Inv
<1>1. TypeOK'
  BY DEF TransferFails, FailJob, FailedUnless, Settles, Freed, disk, runVars, TypeOK, Busy,
     Shown
<1>2. Busy'
  BY DEF TransferFails, FailJob, FailedUnless, Settles, Freed, disk, runVars, TypeOK, Busy,
     Shown
<1>3. Shown'
  BY DEF TransferFails, FailJob, FailedUnless, Settles, Freed, disk, runVars, TypeOK, Busy,
     Shown
<1>4. Offline'
  BY DEF TransferFails, FailJob, FailedUnless, Settles, Freed, disk, runVars, TypeOK, Busy,
     Shown, Offline
<1>5. OnDevice'
  BY DEF TransferFails, FailJob, FailedUnless, Settles, Freed, disk, runVars, TypeOK, Busy,
     Shown, OnDevice
<1>6. Needed'
  BY DEF TransferFails, FailJob, FailedUnless, Settles, Freed, disk, runVars, TypeOK, Busy,
     Shown, Needed
<1>7. InPlaceIsWhole'
  BY DEF TransferFails, FailJob, FailedUnless, Settles, Freed, disk, runVars, TypeOK, Busy,
     Shown, InPlaceIsWhole, OnDevice
<1>8. Remaining'
  BY DEF TransferFails, FailJob, FailedUnless, Settles, Freed, disk, runVars, TypeOK, Busy,
     Shown, Remaining, OnDevice, Usable
<1> QED
  BY <1>1, <1>2, <1>3, <1>4, <1>5, <1>6, <1>7, <1>8

-----------------------------------------------------------------------------
(* Checking. *)

LEMMA InPlaceInv == ASSUME Inv, NEW j \in Jobs, InPlace(j) PROVE Inv'
<1> USE DEF Inv
<1>a. plan[j] # {} => Min(plan[j]) \in plan[j]
  BY MinIsIn DEF TypeOK
<1>1. TypeOK'
  <2>1. (placeholder \subseteq Unhashed /\ allowed \in BOOLEAN)'
    BY <1>a DEF InPlace, Matches, FlushedBy, NextFile, Begin, Covers, Request, StopsAt, AskFor,
       Settles, Freed, disk, runVars, TypeOK, Busy, Shown
  <2>2. (dest \in [Files -> {"none", "stale", "whole", "wrong"}])'
    BY <1>a DEF InPlace, Matches, FlushedBy, NextFile, Begin, Covers, Request, StopsAt, AskFor,
       Settles, Freed, disk, runVars, TypeOK, Busy, Shown
  <2>3. (part \in [Files -> Contents])'
    BY <1>a DEF InPlace, Matches, FlushedBy, NextFile, Begin, Covers, Request, StopsAt, AskFor,
       Settles, Freed, disk, runVars, TypeOK, Busy, Shown
  <2>4. (flushed \in [Files -> [part : BOOLEAN, dest : BOOLEAN]])'
    BY <1>a DEF InPlace, Matches, FlushedBy, NextFile, Begin, Covers, Request, StopsAt, AskFor,
       Settles, Freed, disk, runVars, TypeOK, Busy, Shown
  <2>5. (status \in [Jobs -> Going \union {"none", "refused", "done", "failed", "cancelled",
     "gone"}])'
    BY <1>a DEF InPlace, Matches, FlushedBy, NextFile, Begin, Covers, Request, StopsAt, AskFor,
       Settles, Freed, disk, runVars, TypeOK, Busy, Shown
  <2>6. (at \in [Jobs -> Awaiting \union {"idle", "planning", "over"}])'
    BY <1>a DEF InPlace, Matches, FlushedBy, NextFile, Begin, Covers, Request, StopsAt, AskFor,
       Settles, Freed, disk, runVars, TypeOK, Busy, Shown
  <2>7. (plan \in [Jobs -> SUBSET Files] /\ file \in [Jobs -> Files \union {None}])'
    BY <1>a DEF InPlace, Matches, FlushedBy, NextFile, Begin, Covers, Request, StopsAt, AskFor,
       Settles, Freed, disk, runVars, TypeOK, Busy, Shown
  <2>8. (ranged \in [Jobs -> BOOLEAN] /\ why \in [Jobs -> {None, "fresh", "settle",
     "offset"}])'
    BY ZenonT(40), <1>a DEF InPlace, Matches, FlushedBy, NextFile, Begin, Covers, Request, StopsAt, AskFor,
       Settles, Freed, disk, runVars, TypeOK, Busy, Shown
  <2>9. (aborted \in [Jobs -> BOOLEAN])'
    BY ZenonT(40), <1>a DEF InPlace, Matches, FlushedBy, NextFile, Begin, Covers, Request, StopsAt, AskFor,
       Settles, Freed, disk, runVars, TypeOK, Busy, Shown
  <2>10. (active \in Jobs \union {None} /\ starting \in BOOLEAN)'
    BY <1>a DEF InPlace, Matches, FlushedBy, NextFile, Begin, Covers, Request, StopsAt, AskFor,
       Settles, Freed, disk, runVars, TypeOK, Busy, Shown
  <2>11. (offSince \in BOOLEAN /\ due \in Jobs \union {None})'
    BY <1>a DEF InPlace, Matches, FlushedBy, NextFile, Begin, Covers, Request, StopsAt, AskFor,
       Settles, Freed, disk, runVars, TypeOK, Busy, Shown
  <2> QED
    BY <2>1, <2>2, <2>3, <2>4, <2>5, <2>6, <2>7, <2>8, <2>9, <2>10, <2>11 DEF TypeOK
<1>2. Busy'
  BY <1>a DEF InPlace, Matches, FlushedBy, NextFile, Begin, Covers, Request, StopsAt, AskFor,
     Settles, Freed, disk, runVars, TypeOK, Busy, Shown
<1>3. Shown'
  BY <1>a DEF InPlace, Matches, FlushedBy, NextFile, Begin, Covers, Request, StopsAt, AskFor,
     Settles, Freed, disk, runVars, TypeOK, Busy, Shown
<1>4. Offline'
  BY <1>a DEF InPlace, Matches, FlushedBy, NextFile, Begin, Covers, Request, StopsAt, AskFor,
     Settles, Freed, disk, runVars, TypeOK, Busy, Shown, Offline
<1>5. OnDevice'
  BY <1>a DEF InPlace, Matches, FlushedBy, NextFile, Begin, Covers, Request, StopsAt, AskFor,
     Settles, Freed, disk, runVars, TypeOK, Busy, Shown, OnDevice
<1>6. Needed'
  BY <1>a DEF InPlace, Matches, FlushedBy, NextFile, Begin, Covers, Request, StopsAt, AskFor,
     Settles, Freed, disk, runVars, TypeOK, Busy, Shown, Needed
<1>7. InPlaceIsWhole'
  BY <1>a DEF InPlace, Matches, FlushedBy, NextFile, Begin, Covers, Request, StopsAt, AskFor,
     Settles, Freed, disk, runVars, TypeOK, Busy, Shown, InPlaceIsWhole, OnDevice
<1>8. Remaining'
  BY <1>a DEF InPlace, Matches, FlushedBy, NextFile, Begin, Covers, Request, StopsAt, AskFor,
     Settles, Freed, disk, runVars, TypeOK, Busy, Shown, Remaining, OnDevice, Usable
<1> QED
  BY <1>1, <1>2, <1>3, <1>4, <1>5, <1>6, <1>7, <1>8

LEMMA HashDiffersInv == ASSUME Inv, NEW j \in Jobs, HashDiffers(j) PROVE Inv'
<1> USE DEF Inv
<1>1. TypeOK'
  BY DEF HashDiffers, Matches, disk, runVars, TypeOK, Busy, Shown
<1>2. Busy'
  BY DEF HashDiffers, Matches, disk, runVars, TypeOK, Busy, Shown
<1>3. Shown'
  BY DEF HashDiffers, Matches, disk, runVars, TypeOK, Busy, Shown
<1>4. Offline'
  BY DEF HashDiffers, Matches, disk, runVars, TypeOK, Busy, Shown, Offline
<1>5. OnDevice'
  BY DEF HashDiffers, Matches, disk, runVars, TypeOK, Busy, Shown, OnDevice
<1>6. Needed'
  BY DEF HashDiffers, Matches, disk, runVars, TypeOK, Busy, Shown, Needed
<1>7. InPlaceIsWhole'
  BY DEF HashDiffers, Matches, disk, runVars, TypeOK, Busy, Shown, InPlaceIsWhole, OnDevice
<1>8. Remaining'
  BY DEF HashDiffers, Matches, disk, runVars, TypeOK, Busy, Shown, Remaining, OnDevice, Usable
<1> QED
  BY <1>1, <1>2, <1>3, <1>4, <1>5, <1>6, <1>7, <1>8

LEMMA CheckFailsInv == ASSUME Inv, NEW j \in Jobs, CheckFails(j) PROVE Inv'
<1> USE DEF Inv
<1>1. TypeOK'
  BY DEF CheckFails, FailJob, FailedUnless, Settles, Freed, disk, runVars, TypeOK, Busy, Shown
<1>2. Busy'
  BY DEF CheckFails, FailJob, FailedUnless, Settles, Freed, disk, runVars, TypeOK, Busy, Shown
<1>3. Shown'
  BY DEF CheckFails, FailJob, FailedUnless, Settles, Freed, disk, runVars, TypeOK, Busy, Shown
<1>4. Offline'
  BY DEF CheckFails, FailJob, FailedUnless, Settles, Freed, disk, runVars, TypeOK, Busy, Shown,
     Offline
<1>5. OnDevice'
  BY DEF CheckFails, FailJob, FailedUnless, Settles, Freed, disk, runVars, TypeOK, Busy, Shown,
     OnDevice
<1>6. Needed'
  BY DEF CheckFails, FailJob, FailedUnless, Settles, Freed, disk, runVars, TypeOK, Busy, Shown,
     Needed
<1>7. InPlaceIsWhole'
  BY DEF CheckFails, FailJob, FailedUnless, Settles, Freed, disk, runVars, TypeOK, Busy, Shown,
     InPlaceIsWhole, OnDevice
<1>8. Remaining'
  BY DEF CheckFails, FailJob, FailedUnless, Settles, Freed, disk, runVars, TypeOK, Busy, Shown,
     Remaining, OnDevice, Usable
<1> QED
  BY <1>1, <1>2, <1>3, <1>4, <1>5, <1>6, <1>7, <1>8

LEMMA DeletedInv == ASSUME Inv, NEW j \in Jobs, Deleted(j) PROVE Inv'
<1> USE DEF Inv
<1>a. \A b \in BOOLEAN : [flushed EXCEPT ![file[j]].part = b]
                            \in [Files -> [part : BOOLEAN, dest : BOOLEAN]]
  BY FlushedTyped DEF Deleted, TypeOK, Busy, Shown
<1>1. TypeOK'
  BY ZenonT(40), <1>a DEF Deleted, CancelSeen, Request, StopsAt, AskFor, Settles, Freed, FailedUnless,
     disk, runVars, TypeOK, Busy, Shown
<1>2. Busy'
  <2>1. CASE at' = [at EXCEPT ![j] = "over"] /\ active' = Freed(j)
    BY <2>1 DEF Deleted, Freed, TypeOK, Busy
  <2>2. CASE at' = [at EXCEPT ![j] = "asked"] /\ active' = active
    BY <2>2 DEF Deleted, TypeOK, Busy
  <2> QED
    BY <2>1, <2>2 DEF Deleted, CancelSeen, Request, AskFor, Settles
<1>3. Shown'
  BY DEF Deleted, CancelSeen, Request, StopsAt, AskFor, Settles, Freed, FailedUnless, disk,
     runVars, TypeOK, Busy, Shown
<1>4. Offline'
  BY DEF Deleted, CancelSeen, Request, StopsAt, AskFor, Settles, Freed, FailedUnless, disk,
     runVars, TypeOK, Busy, Shown, Offline
<1>5. OnDevice'
  BY DEF Deleted, CancelSeen, Request, StopsAt, AskFor, Settles, Freed, FailedUnless, disk,
     runVars, TypeOK, Busy, Shown, OnDevice
<1>6. Needed'
  BY DEF Deleted, CancelSeen, Request, StopsAt, AskFor, Settles, Freed, FailedUnless, disk,
     runVars, TypeOK, Busy, Shown, Needed
<1>7. InPlaceIsWhole'
  BY DEF Deleted, CancelSeen, Request, StopsAt, AskFor, Settles, Freed, FailedUnless, disk,
     runVars, TypeOK, Busy, Shown, InPlaceIsWhole, OnDevice
<1>8. Remaining'
  BY DEF Deleted, CancelSeen, Request, StopsAt, AskFor, Settles, Freed, FailedUnless, disk,
     runVars, TypeOK, Busy, Shown, Remaining, OnDevice, Usable
<1> QED
  BY <1>1, <1>2, <1>3, <1>4, <1>5, <1>6, <1>7, <1>8

LEMMA DeleteFailsInv == ASSUME Inv, NEW j \in Jobs, DeleteFails(j) PROVE Inv'
<1> USE DEF Inv
<1>1. TypeOK'
  BY DEF DeleteFails, FailJob, FailedUnless, Settles, Freed, disk, runVars, TypeOK, Busy, Shown
<1>2. Busy'
  BY DEF DeleteFails, FailJob, FailedUnless, Settles, Freed, disk, runVars, TypeOK, Busy, Shown
<1>3. Shown'
  BY DEF DeleteFails, FailJob, FailedUnless, Settles, Freed, disk, runVars, TypeOK, Busy, Shown
<1>4. Offline'
  BY DEF DeleteFails, FailJob, FailedUnless, Settles, Freed, disk, runVars, TypeOK, Busy,
     Shown, Offline
<1>5. OnDevice'
  BY DEF DeleteFails, FailJob, FailedUnless, Settles, Freed, disk, runVars, TypeOK, Busy,
     Shown, OnDevice
<1>6. Needed'
  BY DEF DeleteFails, FailJob, FailedUnless, Settles, Freed, disk, runVars, TypeOK, Busy,
     Shown, Needed
<1>7. InPlaceIsWhole'
  BY DEF DeleteFails, FailJob, FailedUnless, Settles, Freed, disk, runVars, TypeOK, Busy,
     Shown, InPlaceIsWhole, OnDevice
<1>8. Remaining'
  BY DEF DeleteFails, FailJob, FailedUnless, Settles, Freed, disk, runVars, TypeOK, Busy,
     Shown, Remaining, OnDevice, Usable
<1> QED
  BY <1>1, <1>2, <1>3, <1>4, <1>5, <1>6, <1>7, <1>8

-----------------------------------------------------------------------------
(* The user and the machine. *)

LEMMA CancelInv == ASSUME Inv, NEW j \in Jobs, Cancel(j) PROVE Inv'
<1> USE DEF Inv
<1>1. TypeOK'
  BY DEF Cancel, disk, runVars, TypeOK, Busy, Shown
<1>2. Busy'
  BY DEF Cancel, disk, runVars, TypeOK, Busy, Shown
<1>3. Shown'
  BY DEF Cancel, disk, runVars, TypeOK, Busy, Shown
<1>4. Offline'
  BY DEF Cancel, disk, runVars, TypeOK, Busy, Shown, Offline
<1>5. OnDevice'
  BY DEF Cancel, disk, runVars, TypeOK, Busy, Shown, OnDevice
<1>6. Needed'
  BY DEF Cancel, disk, runVars, TypeOK, Busy, Shown, Needed
<1>7. InPlaceIsWhole'
  BY DEF Cancel, disk, runVars, TypeOK, Busy, Shown, InPlaceIsWhole, OnDevice
<1>8. Remaining'
  BY DEF Cancel, disk, runVars, TypeOK, Busy, Shown, Remaining, OnDevice, Usable
<1> QED
  BY <1>1, <1>2, <1>3, <1>4, <1>5, <1>6, <1>7, <1>8

LEMMA SwitchOffInv == ASSUME Inv, SwitchOff PROVE Inv'
<1> USE DEF Inv
<1>1. TypeOK'
  <2>1. CASE active # None /\ status[active] = "downloading"
    BY <2>1 DEF SwitchOff, disk, runVars, TypeOK
  <2>2. CASE ~(active # None /\ status[active] = "downloading")
    BY <2>2 DEF SwitchOff, disk, runVars, TypeOK
  <2> QED
    BY <2>1, <2>2
<1>2. Busy'
  BY DEF SwitchOff, disk, runVars, TypeOK, Busy, Shown
<1>3. Shown'
  BY DEF SwitchOff, disk, runVars, TypeOK, Busy, Shown
<1>4. Offline'
  BY DEF SwitchOff, disk, runVars, TypeOK, Busy, Shown, Offline
<1>5. OnDevice'
  BY DEF SwitchOff, disk, runVars, TypeOK, Busy, Shown, OnDevice
<1>6. Needed'
  BY DEF SwitchOff, disk, runVars, TypeOK, Busy, Shown, Needed
<1>7. InPlaceIsWhole'
  BY DEF SwitchOff, disk, runVars, TypeOK, Busy, Shown, InPlaceIsWhole, OnDevice
<1>8. Remaining'
  BY DEF SwitchOff, disk, runVars, TypeOK, Busy, Shown, Remaining, OnDevice, Usable
<1> QED
  BY <1>1, <1>2, <1>3, <1>4, <1>5, <1>6, <1>7, <1>8

LEMMA SwitchOnInv == ASSUME Inv, SwitchOn PROVE Inv'
<1> USE DEF Inv
<1>1. TypeOK'
  BY DEF SwitchOn, disk, runVars, TypeOK, Busy, Shown
<1>2. Busy'
  BY DEF SwitchOn, disk, runVars, TypeOK, Busy, Shown
<1>3. Shown'
  BY DEF SwitchOn, disk, runVars, TypeOK, Busy, Shown
<1>4. Offline'
  BY DEF SwitchOn, disk, runVars, TypeOK, Busy, Shown, Offline
<1>5. OnDevice'
  BY DEF SwitchOn, disk, runVars, TypeOK, Busy, Shown, OnDevice
<1>6. Needed'
  BY DEF SwitchOn, disk, runVars, TypeOK, Busy, Shown, Needed
<1>7. InPlaceIsWhole'
  BY DEF SwitchOn, disk, runVars, TypeOK, Busy, Shown, InPlaceIsWhole, OnDevice
<1>8. Remaining'
  BY DEF SwitchOn, disk, runVars, TypeOK, Busy, Shown, Remaining, OnDevice, Usable
<1> QED
  BY <1>1, <1>2, <1>3, <1>4, <1>5, <1>6, <1>7, <1>8

LEMMA PowerCutInv == ASSUME Inv, PowerCut PROVE Inv'
<1> USE DEF Inv
<1>1. TypeOK'
  <2>1. (placeholder \subseteq Unhashed /\ allowed \in BOOLEAN)'
    BY DEF PowerCut, Torn, disk, runVars, TypeOK, Busy, Shown
  <2>2. (dest \in [Files -> {"none", "stale", "whole", "wrong"}])'
    BY DEF PowerCut, Torn, disk, runVars, TypeOK, Busy, Shown
  <2>3. (part \in [Files -> Contents])'
    BY DEF PowerCut, Torn, disk, runVars, TypeOK, Busy, Shown
  <2>4. (flushed \in [Files -> [part : BOOLEAN, dest : BOOLEAN]])'
    BY DEF PowerCut, Torn, disk, runVars, TypeOK, Busy, Shown
  <2>5. (status \in [Jobs -> Going \union {"none", "refused", "done", "failed", "cancelled",
     "gone"}])'
    BY DEF PowerCut, Torn, disk, runVars, TypeOK, Busy, Shown
  <2>6. (at \in [Jobs -> Awaiting \union {"idle", "planning", "over"}])'
    BY DEF PowerCut, Torn, disk, runVars, TypeOK, Busy, Shown
  <2>7. (plan \in [Jobs -> SUBSET Files] /\ file \in [Jobs -> Files \union {None}])'
    BY DEF PowerCut, Torn, disk, runVars, TypeOK, Busy, Shown
  <2>8. (ranged \in [Jobs -> BOOLEAN] /\ why \in [Jobs -> {None, "fresh", "settle",
     "offset"}])'
    BY DEF PowerCut, Torn, disk, runVars, TypeOK, Busy, Shown
  <2>9. (aborted \in [Jobs -> BOOLEAN])'
    BY DEF PowerCut, Torn, disk, runVars, TypeOK, Busy, Shown
  <2>10. (active \in Jobs \union {None} /\ starting \in BOOLEAN)'
    BY DEF PowerCut, Torn, disk, runVars, TypeOK, Busy, Shown
  <2>11. (offSince \in BOOLEAN /\ due \in Jobs \union {None})'
    BY DEF PowerCut, Torn, disk, runVars, TypeOK, Busy, Shown
  <2> QED
    BY <2>1, <2>2, <2>3, <2>4, <2>5, <2>6, <2>7, <2>8, <2>9, <2>10, <2>11 DEF TypeOK
<1>2. Busy'
  BY DEF PowerCut, Torn, disk, runVars, TypeOK, Busy, Shown
<1>3. Shown'
  BY DEF PowerCut, Torn, disk, runVars, TypeOK, Busy, Shown
<1>4. Offline'
  BY DEF PowerCut, Torn, disk, runVars, TypeOK, Busy, Shown, Offline
<1>5. OnDevice'
  BY DEF PowerCut, Torn, disk, runVars, TypeOK, Busy, Shown, OnDevice
<1>6. Needed'
  BY DEF PowerCut, Torn, disk, runVars, TypeOK, Busy, Shown, Needed
<1>7. InPlaceIsWhole'
  BY DEF PowerCut, Torn, disk, runVars, TypeOK, Busy, Shown, InPlaceIsWhole, OnDevice
<1>8. Remaining'
  BY DEF PowerCut, Torn, disk, runVars, TypeOK, Busy, Shown, Remaining, OnDevice, Usable
<1> QED
  BY <1>1, <1>2, <1>3, <1>4, <1>5, <1>6, <1>7, <1>8

LEMMA StutterInv == ASSUME Inv, UNCHANGED vars PROVE Inv'
<1> USE DEF Inv, vars, disk, runVars
<1>1. TypeOK'
  BY DEF TypeOK
<1>2. Busy'
  BY DEF Busy
<1>3. Shown'
  BY DEF Shown
<1>4. Offline'
  BY DEF Offline
<1>5. OnDevice'
  BY DEF OnDevice
<1>6. Needed'
  BY DEF Needed
<1>7. InPlaceIsWhole'
  BY DEF InPlaceIsWhole
<1>8. Remaining'
  BY DEF Remaining, Usable
<1> QED
  BY <1>1, <1>2, <1>3, <1>4, <1>5, <1>6, <1>7, <1>8

-----------------------------------------------------------------------------
(* The theorems. *)

LEMMA StepInv == Inv /\ [Next]_vars => Inv'
<1> SUFFICES ASSUME Inv, [Next]_vars PROVE Inv'
  OBVIOUS
<1>1. ASSUME NEW j \in Jobs, Start(j) \/ RunStep(j) \/ Cancel(j) PROVE Inv'
  BY <1>1, StartInv, PlannedInv, FromStartInv, RangeInv, ElsewhereInv, UnsatisfiableInv,
     BytesInv, StreamEndsInv, TransferFailsInv, InPlaceInv, HashDiffersInv, CheckFailsInv,
     DeletedInv, DeleteFailsInv, CancelInv DEF RunStep
<1>2. CASE SwitchOff \/ SwitchOn \/ PowerCut
  BY <1>2, SwitchOffInv, SwitchOnInv, PowerCutInv
<1>3. CASE UNCHANGED vars
  BY <1>3, StutterInv
<1> QED
  BY <1>1, <1>2, <1>3 DEF Next

LEMMA AlwaysInv == Spec => []Inv
BY InitInv, StepInv, PTL DEF Spec

\* For every model and any number of starts, at most one start or run is under
\* way (startDownload and its `starting` latch), and every variable keeps its
\* type.
THEOREM OneRunAtATime == Spec => [](TypeOK /\ OneWriter)
<1>1. ASSUME Inv, NEW i \in Jobs, NEW j \in Jobs, Running(i), Running(j) PROVE i = j
  BY <1>1 DEF Inv, TypeOK, Busy, Running
<1>2. Inv => OneWriter
  <2> SUFFICES ASSUME Inv PROVE OneWriter
    OBVIOUS
  <2> DEFINE R == {j \in Jobs : Running(j)}
  <2>1. CASE R = {}
    BY <2>1, FS_EmptySet DEF OneWriter
  <2>2. ASSUME NEW j \in R PROVE OneWriter
    <3>1. R = {j}
      BY <1>1
    <3> QED
      BY <3>1, FS_Singleton DEF OneWriter
  <2> QED
    BY <2>1, <2>2
<1> QED
  BY <1>2, AlwaysInv, PTL DEF Inv

\* What a hash vouched for is whole in its place and a power cut does not tear
\* it (flushToDevice comes before the rename on every path).
THEOREM PlacesAreWhole == Spec => []InPlaceIsWhole
BY AlwaysInv, PTL DEF Inv

\* A job that reads done left every file of the model usable.
THEOREM DoneMeansComplete == Spec => []DoneIsComplete
<1>1. Inv => DoneIsComplete
  BY DEF Inv, Remaining, Usable, DoneIsComplete
<1> QED
  BY <1>1, AlwaysInv, PTL

\* No late answer, hash, delete or failure overwrites a cancel.
THEOREM CancelsStand == Spec => CancelStands
<1>1. Inv /\ [Next]_vars => \A j \in Jobs : status[j] = "cancelled" => status'[j] \in {"cancelled", "gone"}
  <2> SUFFICES ASSUME Inv, [Next]_vars, NEW k \in Jobs, status[k] = "cancelled"
               PROVE  status'[k] \in {"cancelled", "gone"}
    OBVIOUS
  <2> USE DEF Inv, TypeOK, Busy, Shown, disk, runVars
  <2>1. ASSUME NEW j \in Jobs, Planned(j) PROVE status'[k] = "cancelled"
    BY <2>1, PlannedShape DEF Planned, Refuses, BeginsWith
  <2>2. ASSUME NEW j \in Jobs, InPlace(j) PROVE status'[k] = "cancelled"
    BY <2>2 DEF InPlace, NextFile, Begin, Request, AskFor, Settles
  <2>3. ASSUME NEW j \in Jobs, Deleted(j) PROVE status'[k] = "cancelled"
    BY <2>3 DEF Deleted, CancelSeen, Request, AskFor, FailedUnless, Settles
  <2>4. ASSUME NEW j \in Jobs, TransferFails(j) \/ CheckFails(j) \/ DeleteFails(j)
        PROVE  status'[k] = "cancelled"
    BY <2>4 DEF TransferFails, CheckFails, DeleteFails, FailJob, FailedUnless
  <2>5. ASSUME NEW j \in Jobs,
               \/ Start(j) \/ Cancel(j) \/ AnswersFromStart(j) \/ AnswersRange(j)
               \/ AnswersElsewhere(j) \/ AnswersUnsatisfiable(j) \/ BytesArrive(j)
               \/ StreamEnds(j) \/ HashDiffers(j)
        PROVE  status'[k] = "cancelled"
    BY <2>5 DEF Start, Cancel, AnswersFromStart, AnswersRange, AnswersElsewhere,
                AnswersUnsatisfiable, BytesArrive, StreamEnds, HashDiffers
  <2>6. CASE SwitchOff \/ SwitchOn \/ PowerCut \/ UNCHANGED vars
    BY <2>6 DEF SwitchOff, SwitchOn, PowerCut, vars
  <2> QED
    BY <2>1, <2>2, <2>3, <2>4, <2>5, <2>6 DEF Next, RunStep
<1> QED
  BY <1>1, AlwaysInv, PTL DEF Spec, CancelStands

\* While internet access is off no request begins: not from a start that was
\* planning, not from a run that was hashing or deleting when it went off.
THEOREM OfflineAsksNothing == Spec => NoRequestWhileOff
<1>1. Inv /\ [Next]_vars => \A j \in Jobs : at[j] # "asked" /\ at'[j] = "asked" => allowed
  <2> SUFFICES ASSUME Inv, [Next]_vars, NEW k \in Jobs, at[k] # "asked", at'[k] = "asked"
               PROVE  allowed
    OBVIOUS
  <2> USE DEF Inv, TypeOK, Busy, Shown, Offline, disk, runVars
  <2>1. ASSUME NEW j \in Jobs, Planned(j) PROVE allowed
    BY <2>1, PlannedShape DEF Planned, Refuses, BeginsWith, StillAllowed
  <2>2. ASSUME NEW j \in Jobs, InPlace(j) PROVE allowed
    BY <2>2 DEF InPlace, NextFile, Begin, Request, StopsAt, AskFor, Settles
  <2>3. ASSUME NEW j \in Jobs, Deleted(j) PROVE allowed
    BY <2>3 DEF Deleted, CancelSeen, Request, StopsAt, AskFor, Settles
  <2>4. ASSUME NEW j \in Jobs, TransferFails(j) \/ CheckFails(j) \/ DeleteFails(j)
        PROVE  FALSE
    BY <2>4 DEF TransferFails, CheckFails, DeleteFails, FailJob, Settles
  <2>5. ASSUME NEW j \in Jobs,
               \/ Start(j) \/ Cancel(j) \/ AnswersFromStart(j) \/ AnswersRange(j)
               \/ AnswersElsewhere(j) \/ AnswersUnsatisfiable(j) \/ BytesArrive(j)
               \/ StreamEnds(j) \/ HashDiffers(j)
        PROVE  FALSE
    BY <2>5 DEF Start, Cancel, AnswersFromStart, AnswersRange, AnswersElsewhere,
                AnswersUnsatisfiable, BytesArrive, StreamEnds, HashDiffers
  <2>6. CASE SwitchOff \/ SwitchOn \/ PowerCut \/ UNCHANGED vars
    BY <2>6 DEF SwitchOff, SwitchOn, PowerCut, vars
  <2> QED
    BY <2>1, <2>2, <2>3, <2>4, <2>5, <2>6 DEF Next, RunStep
<1> QED
  BY <1>1, AlwaysInv, PTL DEF Spec, NoRequestWhileOff

\* A complete .part of a declared size leaves only into its place.
THEOREM WholePartsStay == Spec => WholePartIsKept
<1>1. Inv /\ [Next]_vars =>
        \A f \in Declared : part[f] = "whole" /\ part'[f] # "whole" => dest'[f] = "whole" \/ PowerCut
  <2> SUFFICES ASSUME Inv, [Next]_vars, NEW f \in Declared, part[f] = "whole",
                      part'[f] # "whole", ~PowerCut
               PROVE  dest'[f] = "whole"
    OBVIOUS
  <2> USE DEF Inv, TypeOK, Busy, Shown, Needed, disk, runVars
  <2>1. ASSUME NEW j \in Jobs, InPlace(j) PROVE dest'[f] = "whole"
    BY <2>1 DEF InPlace
  <2>2. ASSUME NEW j \in Jobs,
               AnswersFromStart(j) \/ AnswersRange(j) \/ BytesArrive(j) \/ Deleted(j)
        PROVE  FALSE
    <3>1. CASE AnswersFromStart(j) \/ AnswersRange(j)
      BY <3>1 DEF AnswersFromStart, AnswersRange, Spoilt
    <3>2. CASE BytesArrive(j)
      <4>1. CASE f = file[j]
        BY <3>2, <4>1 DEF BytesArrive, Grown
      <4>2. CASE f # file[j]
        BY <3>2, <4>2 DEF BytesArrive
      <4> QED
        BY <4>1, <4>2
    <3>3. CASE Deleted(j)
      BY <3>3 DEF Deleted
    <3> QED
      BY <2>2, <3>1, <3>2, <3>3
  <2>3. ASSUME NEW j \in Jobs,
               \/ Start(j) \/ Cancel(j) \/ Planned(j) \/ AnswersElsewhere(j)
               \/ AnswersUnsatisfiable(j) \/ StreamEnds(j) \/ TransferFails(j)
               \/ HashDiffers(j) \/ CheckFails(j) \/ DeleteFails(j)
        PROVE  FALSE
    BY <2>3 DEF Start, Cancel, Planned, AnswersElsewhere, AnswersUnsatisfiable, StreamEnds,
                TransferFails, HashDiffers, CheckFails, DeleteFails
  <2>4. CASE SwitchOff \/ SwitchOn \/ UNCHANGED vars
    BY <2>4 DEF SwitchOff, SwitchOn, vars
  <2> QED
    BY <2>1, <2>2, <2>3, <2>4 DEF Next, RunStep
<1> QED
  BY <1>1, AlwaysInv, PTL DEF Spec, WholePartIsKept
=============================================================================
