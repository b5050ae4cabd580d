----------------------------- MODULE LockProofs -----------------------------
(***************************************************************************)
(* What a lock and a quit leave behind, for any number of documents,       *)
(* images and translation jobs and any mix of work: no answer is lost, no  *)
(* decrypted copy stays, a password change finds no file under way, and    *)
(* nothing a teardown stopped comes back; and how translation servers      *)
(* follow one another, which the teardowns rely on.                        *)
(*                                                                         *)
(* Turns, documents, the image model, the embedder and the translation     *)
(* server each have a part of the invariant; all of them rest on the latch *)
(* (Latched), which is what keeps new work out between two stages.         *)
(***************************************************************************)
EXTENDS LockTeardown, TLAPS

\* Whoever is admitted finds no lock under way.
Latched == lockAt # "idle" => locking

\* What each stage of a re-ask has to fall back on.
Kept ==
    again => /\ stage = "parked" => tail = "previous"
             /\ stage \in {"searching", "streaming"} => shelf
             /\ stage = "saved" => tail = "fresh"

\* A turn that goes on behind the wait, or behind a closed handle, was not
\* waited for.
Waited ==
    stage # "idle" /\ (lockAt \in {"plain", "seal"} \/ quitAt = "plain" \/ turnStale \/ ~db)
        => hurried

TurnInv == Latched /\ Kept /\ Waited /\ AnswersSurvive

\* The lease is a job's, and without a job nothing is prepared.
Leased ==
    /\ current <= last
    /\ job = "none" => lease = 0 /\ current = 0 /\ \A d \in Docs : ~InPrepare(d)
    /\ job # "none" => lease = 1

\* A decrypted copy belongs to a re-index that prepares its document.
Owned == \A d \in Docs : copy[d] # "none" => InPrepare(d) /\ job = "reindex"

\* What the sweep took, and nothing that could be decrypted after it.
Clean == \A d \in Docs :
    /\ copy[d] \in {"none", "swept"}
    /\ phase[d] = "opening" /\ job = "reindex" => copy[d] # "none"
SweptOnce ==
    /\ lockAt = "seal" \/ (~db /\ app = "alive") => Clean
    /\ app = "exited" => \A d \in Docs : copy[d] \in {"none", "swept"}

DocsInv == Latched /\ Leased /\ Owned /\ SweptOnce

\* A stopped image model has nobody left who could build it again.
Down ==
    /\ ~vision
    /\ app = "alive" => \A i \in Images : image[i] # "none" => i \in stopped
ImageInv ==
    /\ Latched
    /\ dying = "lock" => lockAt = "stops"
    /\ dying = "quit" => quitAt # "idle"
    /\ ~db => lockAt = "idle" \/ app # "alive"
    /\ app # "alive" => dying = None
    /\ lockAt \in {"stops", "streams", "plain", "seal"} \/ ~db => Down

EmbInv ==
    /\ quitAt \in {"stops", "streams", "plain"} => embStopped
    /\ embStopped /\ ~embTearing => emb = "down"
    /\ NoRespawnOnQuit

USE NoneAssumption, DocCountAssumption DEF Docs, Preparing, InPrepare, LockStages, Alive

-----------------------------------------------------------------------------
(* Types. *)

LEMMA InitTypes == Init => TypeOK
<1> SUFFICES ASSUME Init PROVE TypeOK
  OBVIOUS
<1>1. TurnTypes /\ SessionTypes
  BY DEF Init, TurnInit, TurnTypes, SessionTypes, Replies, Begun, Causes
<1>2. WorkTypes
  <2>1. job \in {"none", "import", "reindex"} /\ cancelled \in BOOLEAN
    BY DEF Init, WorkInit
  <2>2. current \in 0..DocCount /\ last \in Docs /\ lease \in 0..1
    BY DEF Init, WorkInit
  <2>3. phase \in [Docs -> Preparing \union {"waiting", "ready", "embedding", "over"}]
    BY DEF Init, WorkInit
  <2>4. copy \in [Docs -> {"none", "part", "clear", "swept"}] /\ docStale \in [Docs -> BOOLEAN]
    BY DEF Init, WorkInit
  <2>5. emb \in {"down", "starting", "up"} /\ embTearing \in BOOLEAN /\ embStopped \in BOOLEAN
    BY DEF Init, WorkInit
  <2> QED
    BY <2>1, <2>2, <2>3, <2>4, <2>5 DEF WorkTypes
<1>3. VisionTypes
  BY DEF Init, VisionInit, VisionTypes
<1>4. TransTypes
  BY DEF Init, TransInit, TransTypes, Places
<1> QED
  BY <1>1, <1>2, <1>3, <1>4 DEF Init, TypeOK

LEMMA TurnTypesStep ==
  ASSUME TurnTypes, SessionTypes, [Next]_vars
  PROVE  TurnTypes' /\ SessionTypes'
<1> USE DEF TurnTypes, SessionTypes, Replies, Begun, Causes, turnVars, session
<1>1. CASE Asks
  <2>1. UNCHANGED session
    BY <1>1 DEF Asks
  <2>2. CASE TurnAsked
    BY <2>1, <2>2 DEF TurnAsked, Send, SendAgain, Regenerate, Registers
  <2>3. CASE UNCHANGED turnVars
    BY <2>1, <2>3
  <2> QED
    BY <1>1, <2>2, <2>3 DEF Asks
<1>2. CASE Turn
  <2>0. UNCHANGED session
    BY <1>2 DEF Turn
  <2>1. CASE StopButton \/ StopsModel
    BY <2>0, <2>1 DEF StopButton, StopsModel, Aborted, CausedBy
  <2>2. CASE TurnedAway
    BY <2>0, <2>2 DEF TurnedAway
  <2>3. CASE Begin
    BY <2>0, <2>3 DEF Begin, ClearedMark
  <2>4. CASE Searched
    BY <2>0, <2>4 DEF Searched
  <2>9. CASE Token
    BY <2>0, <2>9 DEF Token
  <2>5. CASE SearchThrows \/ StreamThrows
    <3>1. stage' = "idle" /\ UNCHANGED <<again, shelf, cause, token, turnStale>>
      BY <2>5 DEF SearchThrows, StreamThrows, EndsWithout, Ends
    <3>2. tail' \in Replies \union {"question"}
      BY <2>5 DEF SearchThrows, StreamThrows, EndsWithout, Restores
    <3>3. mark' \in Causes \union {None}
      BY <2>5 DEF SearchThrows, StreamThrows, EndsWithout
    <3> QED
      BY <2>0, <3>1, <3>2, <3>3
  <2>6. CASE StreamCut
    <3>1. stage' = "idle" /\ UNCHANGED <<mark, again, shelf, cause, token, turnStale>>
      BY <2>6 DEF StreamCut, Ends
    <3>2. tail' \in Replies \union {"question"}
      BY <2>6 DEF StreamCut
    <3> QED
      BY <2>0, <3>1, <3>2
  <2>7. CASE StreamSaved
    BY <2>0, <2>7 DEF StreamSaved
  <2>8. CASE TurnOver
    BY <2>0, <2>8 DEF TurnOver, Ends
  <2> QED
    BY <1>2, <2>1, <2>2, <2>3, <2>4, <2>5, <2>6, <2>7, <2>8, <2>9 DEF Turn, TurnRuns
<1>3. CASE SearchEmbeds \/ Documents \/ Image \/ Text \/ Stopping \/ UNCHANGED vars
  BY <1>3 DEF SearchEmbeds, Documents, Image, Text, Stopping, vars
<1>4. CASE LockStarts \/ QuitStarts
  <2>1. locking' = TRUE /\ UNCHANGED <<db, tail, mark, stage, again, shelf, token, turnStale>>
    BY <1>4 DEF LockStarts, QuitStarts, ArmsAndAborts, ArmLatch
  <2>2. cause' \in Causes \union {None}
    BY <1>4 DEF LockStarts, QuitStarts, ArmsAndAborts, CausedBy
  <2> QED
    BY <2>1, <2>2
<1>5. CASE LockStep
  <2>1. CASE UNCHANGED <<session, turnVars>>
    BY <2>1
  <2>2. ASSUME NEW sealed \in BOOLEAN, LockSeals(sealed) PROVE TurnTypes' /\ SessionTypes'
    BY <2>2 DEF LockSeals, AfterLock, TurnAfterSeal
  <2>3. LockStep => UNCHANGED <<session, turnVars>> \/ \E sealed \in BOOLEAN : LockSeals(sealed)
    BY DEF LockStep, LockStops, LockStopped, LockTurns, LockSweeps, work
  <2> QED
    BY <1>5, <2>1, <2>2, <2>3
<1>6. CASE QuitStep \/ SessionEnds
  <2>1. UNCHANGED turnVars
    BY <1>6 DEF QuitStep, QuitStops, QuitStopped, QuitTurns, QuitEnds, SessionEnds, Exits, work
  <2>2. CASE QuitStops \/ QuitStopped \/ QuitTurns
    <3>1. UNCHANGED session
      BY <2>2 DEF QuitStops, QuitStopped, QuitTurns
    <3> QED
      BY <2>1, <3>1
  <2>3. CASE QuitEnds
    <3>1. db' = FALSE /\ locking' = locking
      BY <2>3 DEF QuitEnds, Exits
    <3>2. SessionTypes'
      BY <3>1
    <3>3. TurnTypes'
      BY <2>1
    <3> QED
      BY <3>2, <3>3
  <2>4. CASE SessionEnds
    <3>1. db' = FALSE /\ locking' = TRUE
      BY <2>4 DEF SessionEnds, Exits, ArmLatch
    <3>2. SessionTypes'
      BY <3>1
    <3>3. TurnTypes'
      BY <2>1
    <3> QED
      BY <3>2, <3>3
  <2> QED
    BY <1>6, <2>2, <2>3, <2>4 DEF QuitStep
<1> QED
  BY <1>1, <1>2, <1>3, <1>4, <1>5, <1>6 DEF Next

LEMMA OwnTypesStep ==
  ASSUME TypeOK, [Next]_vars
  PROVE  (lockAt \in LockStages /\ quitAt \in LockStages \ {"seal"}
          /\ app \in {"alive", "exited", "killed"} /\ hurried \in BOOLEAN /\ uses \in Mixes)'
<1> USE DEF TypeOK, ownVars
<1>1. CASE Asks
  <2>1. UNCHANGED <<lockAt, quitAt, app, uses>>
    BY <1>1 DEF Asks
  <2>2. hurried' \in BOOLEAN
    BY <1>1 DEF Asks
  <2> QED
    BY <2>1, <2>2
<1>2. CASE Turn \/ SearchEmbeds \/ Documents \/ Image \/ Text \/ Stopping \/ UNCHANGED vars
  BY <1>2 DEF Turn, SearchEmbeds, Documents, Image, Text, Stopping, vars
<1>3. CASE LockStarts \/ QuitStarts
  BY <1>3 DEF LockStarts, QuitStarts, ArmsAndAborts, Step
<1>4. CASE LockStep
  <2>1. CASE LockStops \/ LockStopped
    BY <2>1 DEF LockStops, LockStopped, Step
  <2>2. CASE LockTurns
    BY <2>2 DEF LockTurns, Step, TurnsOver
  <2>3. CASE LockSweeps
    BY <2>3 DEF LockSweeps, Step
  <2>4. CASE \E sealed \in BOOLEAN : LockSeals(sealed)
    BY <2>4 DEF LockSeals, Step
  <2> QED
    BY <1>4, <2>1, <2>2, <2>3, <2>4 DEF LockStep
<1>5. CASE QuitStep \/ SessionEnds
  <2>1. CASE QuitStops \/ QuitStopped
    BY <2>1 DEF QuitStops, QuitStopped, Step
  <2>2. CASE QuitTurns
    BY <2>2 DEF QuitTurns, Step, TurnsOver
  <2>3. CASE QuitEnds
    BY <2>3 DEF QuitEnds, Exits
  <2>4. CASE SessionEnds
    BY <2>4 DEF SessionEnds, Exits
  <2> QED
    BY <1>5, <2>1, <2>2, <2>3, <2>4 DEF QuitStep
<1> QED
  BY <1>1, <1>2, <1>3, <1>4, <1>5 DEF Next

\* The documents and the embedder keep their types; the lease's needs Leased.
LEMMA DocsTypesStep ==
  ASSUME TypeOK, DocsInv, [Next]_vars
  PROVE  WorkTypes'
<1> USE DEF TypeOK, WorkTypes, docVars, jobVars, embVars, workVars
<1>1. CASE Asks
  <2>1. CASE \E kind \in {"import", "reindex"}, end \in Docs : TakesJob(kind, end)
    <3>1. PICK kind \in {"import", "reindex"}, end \in Docs : TakesJob(kind, end)
      BY <2>1
    <3>2. lease' \in 0..1 /\ current' \in 0..DocCount /\ last' \in Docs
      BY <3>1 DEF TakesJob, DocsInv, Leased
    <3>3. phase' \in [Docs -> Preparing \union {"waiting", "ready", "embedding", "over"}]
      BY <3>1 DEF TakesJob, Opened, AllWaiting
    <3>4. docStale' \in [Docs -> BOOLEAN]
      BY <3>1 DEF TakesJob, Handles
    <3> QED
      BY <3>1, <3>2, <3>3, <3>4 DEF TakesJob
  <2>2. CASE UNCHANGED workVars
    BY <2>2
  <2> QED
    BY <1>1, <2>1, <2>2 DEF Asks
<1>2. CASE SearchEmbeds
  BY <1>2 DEF SearchEmbeds
<1>3. CASE Documents
  <2>1. CASE CancelReindex
    BY <2>1 DEF CancelReindex
  <2>2. CASE NextDocument
    <3>1. current' \in 0..DocCount /\ current + 1 \in Docs
      BY <2>2 DEF NextDocument, Stops, DocsInv, Leased
    <3>2. Opened(ToOpen(job, current + 1, last), phase)
             \in [Docs -> Preparing \union {"waiting", "ready", "embedding", "over"}]
      BY DEF Opened
    <3>3. phase' \in [Docs -> Preparing \union {"waiting", "ready", "embedding", "over"}]
      BY <2>2, <3>1, <3>2 DEF NextDocument, Finalizes
    <3>4. docStale' \in [Docs -> BOOLEAN]
      BY <2>2 DEF NextDocument, Handles
    <3>5. emb' \in {"down", "starting", "up"}
      BY <2>2 DEF NextDocument, Finalizes
    <3> QED
      BY <2>2, <3>1, <3>3, <3>4, <3>5 DEF NextDocument
  <2>3. CASE JobStops \/ JobDrained
    <3>1. CASE JobOver
      <4>1. job # "none"
        BY <2>3 DEF JobStops, JobDrained, DocsInv, Leased
      <4>2. lease' \in 0..1
        BY <3>1, <4>1 DEF JobOver, LeaseAfter, DocsInv, Leased
      <4>3. phase' \in [Docs -> Preparing \union {"waiting", "ready", "embedding", "over"}]
        BY <3>1 DEF JobOver
      <4> QED
        BY <3>1, <4>2, <4>3 DEF JobOver
    <3>2. CASE current' = 0 /\ UNCHANGED <<job, last, cancelled, lease, docVars, embVars>>
      BY <3>2
    <3> QED
      BY <2>3, <3>1, <3>2 DEF JobStops, JobDrained
  <2>4. CASE EmbedderUp
    BY <2>4 DEF EmbedderUp
  <2>5. CASE EmbedderDies
    BY <2>5 DEF EmbedderDies, EmbedderGone
  <2>6. ASSUME NEW d \in Docs, DocStep(d) PROVE WorkTypes'
    <3>1. CASE Decrypting(d)
      BY <3>1 DEF Decrypting, Copies
    <3>2. CASE OpensFile(d)
      <4>1. copy' \in [Docs -> {"none", "part", "clear", "swept"}]
        BY <3>2 DEF OpensFile, Copies
      <4> QED
        BY <3>2, <4>1 DEF OpensFile, Moves
    <3>3. CASE Prepared(d)
      <4>1. phase' \in [Docs -> Preparing \union {"waiting", "ready", "embedding", "over"}]
        BY <3>3 DEF Prepared, Moves, Finalizes
      <4>2. emb' \in {"down", "starting", "up"}
        BY <3>3 DEF Prepared, Finalizes
      <4> QED
        BY <3>3, <4>1, <4>2 DEF Prepared, Copies
    <3>4. CASE PrepareFails(d)
      BY <3>4 DEF PrepareFails, Moves, Copies
    <3>5. CASE Embedded(d)
      BY <3>5 DEF Embedded, Moves
    <3> QED
      BY <2>6, <3>1, <3>2, <3>3, <3>4, <3>5 DEF DocStep
  <2> QED
    BY <1>3, <2>1, <2>2, <2>3, <2>4, <2>5, <2>6 DEF Documents, JobStep
<1>4. CASE Turn \/ Image \/ Text \/ LockStarts \/ QuitStarts \/ UNCHANGED vars
  BY <1>4 DEF Turn, Image, Text, LockStarts, QuitStarts, ArmsAndAborts, vars
<1>5. CASE Stopping
  BY <1>5 DEF Stopping, EmbedderTornDown, EmbedderGone
<1>6. CASE LockStep
  <2>1. CASE LockStops
    BY <2>1 DEF LockStops, Suspend
  <2>2. CASE LockStopped \/ LockTurns
    BY <2>2 DEF LockStopped, LockTurns, work
  <2>3. CASE LockSweeps
    BY <2>3 DEF LockSweeps, Swept
  <2>4. CASE \E sealed \in BOOLEAN : LockSeals(sealed)
    <3>1. docStale' \in [Docs -> BOOLEAN]
      BY <2>4 DEF LockSeals, WorkAfterSeal
    <3> QED
      BY <2>4, <3>1 DEF LockSeals
  <2> QED
    BY <1>6, <2>1, <2>2, <2>3, <2>4 DEF LockStep
<1>7. CASE QuitStep
  <2>1. CASE QuitStops
    BY <2>1 DEF QuitStops, StopForGood
  <2>2. CASE QuitStopped \/ QuitTurns
    BY <2>2 DEF QuitStopped, QuitTurns, work
  <2>3. CASE QuitEnds
    BY <2>3 DEF QuitEnds, Exits, Swept
  <2> QED
    BY <1>7, <2>1, <2>2, <2>3 DEF QuitStep
<1>8. CASE SessionEnds
  BY <1>8 DEF SessionEnds, Exits
<1> QED
  BY <1>1, <1>2, <1>3, <1>4, <1>5, <1>6, <1>7, <1>8 DEF Next

LEMMA VisionTypesStep ==
  ASSUME TypeOK, [Next]_vars
  PROVE  VisionTypes'
<1> USE DEF TypeOK, VisionTypes, visionVars
<1>1. CASE Asks
  <2>1. CASE \E i \in Images : Analyze(i)
    BY <2>1 DEF Analyze
  <2>2. CASE UNCHANGED visionVars
    BY <2>2
  <2> QED
    BY <1>1, <2>1, <2>2 DEF Asks
<1>2. CASE Image
  <2>1. ASSUME NEW i \in Images, Asked(i) PROVE VisionTypes'
    BY <2>1 DEF Asked
  <2>2. ASSUME NEW i \in Images, ImageOver(i) PROVE VisionTypes'
    BY <2>2 DEF ImageOver, JobEnds
  <2>3. ASSUME NEW i \in Images, CancelImage(i) PROVE VisionTypes'
    BY <2>3 DEF CancelImage
  <2>4. CASE VisionGoes
    BY <2>4 DEF VisionGoes
  <2> QED
    BY <1>2, <2>1, <2>2, <2>3, <2>4 DEF Image, ImageStep
<1>3. CASE Turn \/ SearchEmbeds \/ Documents \/ Text \/ LockStarts \/ QuitStarts \/ UNCHANGED vars
  BY <1>3 DEF Turn, SearchEmbeds, Documents, Text, LockStarts, QuitStarts, ArmsAndAborts, vars
<1>4. CASE Stopping
  BY <1>4 DEF Stopping, VisionStopped
<1>5. CASE LockStep
  <2>1. CASE LockStops
    BY <2>1 DEF LockStops, StopVision
  <2>2. CASE LockStopped \/ LockTurns \/ LockSweeps
    BY <2>2 DEF LockStopped, LockTurns, LockSweeps, work
  <2>3. CASE \E sealed \in BOOLEAN : LockSeals(sealed)
    BY <2>3 DEF LockSeals
  <2> QED
    BY <1>5, <2>1, <2>2, <2>3 DEF LockStep
<1>6. CASE QuitStep \/ SessionEnds
  <2>1. CASE QuitStops
    BY <2>1 DEF QuitStops, StopVision
  <2>2. CASE QuitStopped \/ QuitTurns
    BY <2>2 DEF QuitStopped, QuitTurns, work
  <2>3. CASE QuitEnds
    BY <2>3 DEF QuitEnds, Exits
  <2>4. CASE SessionEnds
    BY <2>4 DEF SessionEnds, Exits
  <2> QED
    BY <1>6, <2>1, <2>2, <2>3, <2>4 DEF QuitStep
<1> QED
  BY <1>1, <1>2, <1>3, <1>4, <1>5, <1>6 DEF Next

-----------------------------------------------------------------------------
(* The translation server. *)

Spots == {"none", "next", "queued", "soft", "start", "asking"}

\* What a step of anyone does to it.
TextMoves ==
    \/ UNCHANGED transVars
    \/ TransStep \/ ChatStarts \/ TearGoesOn \/ ServerReaped
    \/ \E c \in Callers : StartsText(c)
    \/ /\ StopsText(Callers) /\ activeJob' = None
       /\ UNCHANGED <<call, retried, serverVars, chat>>
    \/ (\E good \in BOOLEAN : StopsServer(good)) /\ UNCHANGED <<jobsVars, chat>>

JobTypes ==
    /\ call \in [Callers -> Spots] /\ retried \subseteq Callers /\ halted \subseteq Callers
    /\ activeJob \in Jobs \union {None}

\* Nobody is set going, and a stopped caller stays stopped until it has left.
NoneSetGoing ==
    \A d \in Callers : /\ call[d] = "none" => call'[d] = "none"
                       /\ d \in halted /\ call'[d] # "none" => d \in halted'

\* A window of c is over: c goes on or is done, the others are where they were.
Ended(c) ==
    /\ JobTypes' /\ NoneSetGoing /\ call'[c] \in {"none", "next"}
    /\ \A d \in Callers \ {c} : call'[d] = call[d]

\* What taking the slot, waiting for a soft teardown and asking come to.
Outcome(c) ==
    /\ c \notin halted /\ call[c] # "none" /\ chat' = chat
    /\ \/ /\ Ended(c) /\ idleTimer' = Armed(call', server, start)
          /\ UNCHANGED <<server, start, soft, tear, latched, fellBack, forGood>>
       \/ /\ call' = [call EXCEPT ![c] = "asking"] \/ call' = [call EXCEPT ![c] = "soft"]
          /\ UNCHANGED <<retried, halted, activeJob, serverVars>>
       \/ ~Refusing /\ server = "none" /\ soft = "none" /\ Joins(c)

StartOutcome ==
    /\ JobTypes' /\ NoneSetGoing /\ UNCHANGED <<soft, tear, forGood, chat>> /\ start # "none"
    /\ latched' \in BOOLEAN /\ fellBack' \in BOOLEAN
    /\ \/ server' = server /\ start = "hook" /\ start' = "card" /\ idleTimer' = idleTimer
       \/ server' = server /\ start = "card" /\ start' = "cpu" /\ idleTimer' = idleTimer
       \/ /\ start \in {"card", "cpu"} /\ server' \in {start, "cpu"}
          /\ start' = "none" /\ idleTimer' = Armed(call', server', "none")
       \/ server' = server /\ start' = "none" /\ idleTimer' = Armed(call', "none", "none")

LEMMA TextMovesStep == ASSUME [Next]_vars PROVE TextMoves
<1> USE DEF TextMoves, transVars
<1>1. CASE Asks
  BY <1>1 DEF Asks
<1>2. CASE Turn \/ SearchEmbeds \/ Documents \/ Image \/ UNCHANGED vars
  BY <1>2 DEF Turn, SearchEmbeds, Documents, Image, vars
<1>3. CASE Text
  BY <1>3 DEF Text
<1>4. CASE Stopping
  BY <1>4 DEF Stopping
<1>5. CASE LockStarts \/ QuitStarts
  BY <1>5 DEF LockStarts, QuitStarts, ArmsAndAborts
<1>6. CASE LockStep
  BY <1>6 DEF LockStep, LockStops, LockStopped, LockTurns, LockSweeps, LockSeals, work
<1>7. CASE QuitStep \/ SessionEnds
  BY <1>7 DEF QuitStep, QuitStops, QuitStopped, QuitTurns, QuitEnds, SessionEnds, Exits, work
<1> QED
  BY <1>1, <1>2, <1>3, <1>4, <1>5, <1>6, <1>7 DEF Next

LEMMA WindowEnds ==
  ASSUME TransTypes, NEW c \in Callers, call[c] # "none",
         TextOver(c) \/ WindowOver(c) \/ WindowLost(c) \/ WindowFails(c)
  PROVE  Ended(c)
<1> USE DEF TransTypes, Ended, JobTypes, NoneSetGoing, Spots
<1>1. CASE TextOver(c)
  BY <1>1 DEF TextOver
<1>2. CASE WindowOver(c)
  BY <1>1, <1>2 DEF WindowOver
<1>3. CASE WindowLost(c)
  BY <1>1, <1>2, <1>3 DEF WindowLost
<1>4. CASE WindowFails(c)
  BY <1>3, <1>4 DEF WindowFails
<1> QED
  BY <1>1, <1>2, <1>3, <1>4

LEMMA Outcomes ==
  ASSUME TransTypes, NEW c \in Callers, TakesSlot(c) \/ AfterSoft(c) \/ Replied(c)
  PROVE  Outcome(c)
<1> USE DEF Outcome, Leaves, Goes
<1>1. CASE TakesSlot(c)
  BY <1>1, WindowEnds DEF TakesSlot, SoftPending
<1>2. CASE AfterSoft(c)
  BY <1>2, WindowEnds DEF AfterSoft
<1>3. CASE Replied(c)
  BY <1>3, WindowEnds DEF Replied
<1> QED
  BY <1>1, <1>2, <1>3

LEMMA StartOutcomes ==
  ASSUME TransTypes, StartStep
  PROVE  StartOutcome
<1> DEFINE JobsMove == JobTypes' /\ NoneSetGoing
<1>1. ASSUME UNCHANGED jobsVars PROVE JobsMove
  BY <1>1 DEF TransTypes, jobsVars, JobTypes, NoneSetGoing, Spots
<1>2. ASSUME NEW c \in Waiting, TextOver(c) \/ WindowFails(c) PROVE JobsMove
  BY <1>2, WindowEnds DEF Ended, Waiting
<1>3. ASSUME NEW c \in Waiting, call' = [call EXCEPT ![c] = "asking"],
             UNCHANGED <<retried, halted, activeJob>>
      PROVE  JobsMove
  BY <1>3 DEF TransTypes, Waiting, JobTypes, NoneSetGoing, Spots
<1> HIDE DEF JobsMove
<1>4. JobsMove
  BY <1>1, <1>2, <1>3 DEF StartStep, HookOver, StartLands, StartBreaks, StartLatches, CardFails,
                          StartFails
<1>5. CASE HookOver
  BY <1>4, <1>5 DEF JobsMove, StartOutcome, HookOver, TransTypes
<1>6. CASE StartLands
  BY <1>4, <1>6 DEF JobsMove, StartOutcome, StartLands, StartOver, TimedFrom, TransTypes
<1>7. CASE StartBreaks
  BY <1>4, <1>7 DEF JobsMove, StartOutcome, StartBreaks, StartFails, StartOver, TimedFrom, TransTypes
<1>8. CASE StartLatches
  BY <1>4, <1>8 DEF JobsMove, StartOutcome, StartLatches, StartOver, TimedFrom, TransTypes
<1>9. CASE CardFails
  BY <1>4, <1>9 DEF JobsMove, StartOutcome, CardFails, StartFails, StartOver, TimedFrom, TransTypes
<1> QED
  BY <1>5, <1>6, <1>7, <1>8, <1>9 DEF StartStep

LEMMA TransTypesStep ==
  ASSUME TransTypes, TextMoves
  PROVE  TransTypes'
<1> USE DEF TransTypes, Spots, Places, JobTypes, jobsVars, serverVars, transVars
<1>1. ASSUME NEW c \in Callers, CancelText(c) PROVE TransTypes'
  BY <1>1 DEF CancelText, StopsText
<1>2. ASSUME NEW c \in Callers, Unwinds(c) PROVE TransTypes'
  <2>1. Ended(c)
    BY <1>2, WindowEnds DEF Unwinds
  <2>2. idleTimer' \in BOOLEAN
    BY <1>2 DEF Unwinds, Armed
  <2> QED
    BY <1>2, <2>1, <2>2 DEF Unwinds, Ended
<1>3. ASSUME NEW c \in Callers, Queues(c) PROVE TransTypes'
  BY <1>3 DEF Queues
<1>4. ASSUME NEW c \in Callers, Outcome(c) PROVE TransTypes'
  <2>1. CASE /\ Ended(c) /\ idleTimer' = Armed(call', server, start)
             /\ UNCHANGED <<server, start, soft, tear, latched, fellBack, forGood, chat>>
    <3>1. idleTimer' \in BOOLEAN
      BY <2>1 DEF Armed
    <3> QED
      BY <2>1, <3>1 DEF Ended
  <2>2. CASE /\ call' = [call EXCEPT ![c] = "asking"] \/ call' = [call EXCEPT ![c] = "soft"]
             /\ UNCHANGED <<retried, halted, activeJob, serverVars, chat>>
    BY <2>2
  <2>3. CASE Joins(c) /\ chat' = chat
    BY <2>3 DEF Joins, Postures
  <2> QED
    BY <1>4, <2>1, <2>2, <2>3 DEF Outcome
<1>5. ASSUME NEW c \in Callers, Hangs(c) PROVE TransTypes'
  <2>1. Ended(c)
    BY <1>5, WindowEnds DEF Hangs
  <2> QED
    BY <1>5, <2>1 DEF Hangs, SoftTeardown, Ended
<1>6. CASE StartStep
  <2>1. StartOutcome
    BY <1>6, StartOutcomes
  <2>2. idleTimer' \in BOOLEAN
    BY <2>1 DEF StartOutcome, Armed
  <2> QED
    BY <2>1, <2>2 DEF StartOutcome
<1>7. CASE ServerDies \/ IdleFires \/ SoftOver \/ Replaced
  <2>1. CASE ServerDies
    <3>1. fellBack' \in BOOLEAN
      BY <2>1 DEF ServerDies
    <3> QED
      BY <2>1, <3>1 DEF ServerDies
  <2>2. CASE IdleFires
    BY <2>2 DEF IdleFires, SoftTeardown
  <2>3. CASE SoftOver
    BY <2>3 DEF SoftOver
  <2>4. CASE Replaced
    <3>1. latched' \in BOOLEAN /\ fellBack' \in BOOLEAN
      BY <2>4 DEF Replaced
    <3>2. UNCHANGED <<call, retried, halted, activeJob, server, start, soft, tear, forGood,
                      idleTimer, chat>>
      BY <2>4 DEF Replaced
    <3> QED
      BY <3>1, <3>2
  <2> QED
    BY <1>7, <2>1, <2>2, <2>3, <2>4
<1>8. CASE ChatStep \/ ChatStarts
  BY <1>8 DEF ChatStep, ChatStarts, ChatGoes, ChatLooks, SoftTeardown
<1>9. CASE TearGoesOn
  BY <1>9 DEF TearGoesOn, TearsDown
<1>10. CASE ServerReaped
  BY <1>10 DEF ServerReaped
<1>11. ASSUME NEW c \in Callers, StartsText(c) PROVE TransTypes'
  BY <1>11 DEF StartsText, Callers
<1>12. CASE /\ StopsText(Callers) /\ activeJob' = None
            /\ UNCHANGED <<call, retried, serverVars, chat>>
  BY <1>12 DEF StopsText
<1>13. CASE (\E good \in BOOLEAN : StopsServer(good)) /\ UNCHANGED <<jobsVars, chat>>
  BY <1>13 DEF StopsServer, TearsDown
<1>14. CASE TransStep
  BY <1>1, <1>2, <1>3, <1>4, <1>5, <1>6, <1>7, <1>8, <1>14, Outcomes DEF TransStep
<1> QED
  BY <1>8, <1>9, <1>10, <1>11, <1>12, <1>13, <1>14 DEF TextMoves

\* What OneTranslator, IdleReclaims and CardIsChats take together: a chat start
\* that waits for the card has seen every server off it.
CardPromised ==
    chat \in {"soft", "kill", "loading"} /\ ~Refusing
        => server # "card" /\ start \notin {"hook", "card"}

ServerInv == OneTranslator /\ IdleReclaims /\ CardPromised /\ CardIsChats

LEMMA ServerInvStep ==
  ASSUME TransTypes, ServerInv, TextMoves
  PROVE  ServerInv'
<1> USE DEF TransTypes, ServerInv, OneTranslator, IdleReclaims, CardPromised, CardIsChats,
            Refusing, Armed, Places
<1>1. ASSUME NEW c \in Callers, CancelText(c) PROVE ServerInv'
  BY <1>1 DEF CancelText, InCall, serverVars
<1>2. ASSUME NEW c \in Callers, Unwinds(c) PROVE ServerInv'
  <2>1. UNCHANGED <<server, start, soft, tear, forGood, chat>>
    BY <1>2 DEF Unwinds
  <2>2. IdleReclaims'
    <3>1. CASE call[c] # "next"
      BY <1>2, <3>1 DEF Unwinds
    <3>2. CASE call[c] = "next"
      <4>1. InCall(call') = InCall(call)
        BY <1>2, <3>2 DEF Unwinds, TextOver, InCall
      <4> QED
        BY <1>2, <2>1, <3>2, <4>1 DEF Unwinds
    <3> QED
      BY <3>1, <3>2
  <2> QED
    BY <2>1, <2>2
<1>3. ASSUME NEW c \in Callers, Queues(c) PROVE ServerInv'
  <2>1. c \in InCall(call')
    BY <1>3 DEF Queues, InCall
  <2> QED
    BY <1>3, <2>1 DEF Queues
<1>4. ASSUME NEW c \in Callers, Outcome(c) PROVE ServerInv'
  <2>1. CASE /\ Ended(c) /\ idleTimer' = Armed(call', server, start)
             /\ UNCHANGED <<server, start, soft, tear, latched, fellBack, forGood, chat>>
    BY <2>1
  <2>2. CASE /\ call' = [call EXCEPT ![c] = "asking"] \/ call' = [call EXCEPT ![c] = "soft"]
             /\ UNCHANGED <<retried, halted, activeJob, serverVars, chat>>
    <3>1. c \in InCall(call')
      BY <2>2 DEF InCall
    <3> QED
      BY <2>2, <3>1 DEF serverVars
  <2>3. CASE Joins(c) /\ ~Refusing /\ server = "none" /\ soft = "none" /\ chat' = chat
    BY <2>3 DEF Joins, Postures
  <2> QED
    BY <1>4, <2>1, <2>2, <2>3 DEF Outcome
<1>5. ASSUME NEW c \in Callers, Hangs(c) PROVE ServerInv'
  BY <1>5 DEF Hangs, SoftTeardown
<1>6. CASE StartStep
  <2>1. StartOutcome
    BY <1>6, StartOutcomes
  <2> QED
    BY <2>1 DEF StartOutcome
<1>7. CASE ServerDies \/ SoftOver
  BY <1>7 DEF ServerDies, SoftOver, jobsVars
<1>8. CASE IdleFires \/ Replaced
  BY <1>8 DEF IdleFires, Replaced, SoftTeardown, jobsVars
<1>9. CASE ChatStep \/ ChatStarts
  BY <1>9 DEF ChatStep, ChatStarts, ChatGoes, ChatLooks, SoftTeardown, jobsVars
<1>10. CASE TearGoesOn
  BY <1>10 DEF TearGoesOn, TearsDown, jobsVars
<1>11. CASE ServerReaped
  BY <1>11 DEF ServerReaped
<1>12. ASSUME NEW c \in Callers, StartsText(c) PROVE ServerInv'
  <2>1. InCall(call') = InCall(call)
    BY <1>12 DEF StartsText, InCall
  <2> QED
    BY <1>12, <2>1 DEF StartsText, serverVars
<1>13. CASE UNCHANGED <<call, serverVars, chat>>
  BY <1>13 DEF serverVars
<1>14. CASE (\E good \in BOOLEAN : StopsServer(good)) /\ UNCHANGED <<jobsVars, chat>>
  BY <1>14 DEF StopsServer, TearsDown, jobsVars
<1>15. CASE TransStep
  BY <1>1, <1>2, <1>3, <1>4, <1>5, <1>6, <1>7, <1>8, <1>9, <1>15, Outcomes DEF TransStep
<1> QED
  BY <1>9, <1>10, <1>11, <1>12, <1>13, <1>14, <1>15 DEF TextMoves, transVars, jobsVars

\* Between the first act of a teardown and the next open workspace nobody who
\* was stopped is set going again, and behind it no server comes up.
Torn == lockAt \in {"stops", "streams", "plain", "seal"} \/ quitAt \in {"stops", "streams", "plain"}
AllHalted == \A c \in Callers : call[c] # "none" => c \in halted
DownInv ==
    /\ Latched
    /\ lockAt # "idle" \/ ~db => AllHalted
    /\ app = "alive" /\ quitAt \in {"stops", "streams", "plain"} => forGood
    /\ Torn /\ tear = "none" => NoServer
    /\ TranslationStaysDown

\* Without a caller that is going, or once stop() was called, nothing starts.
LEMMA NothingStarts ==
  ASSUME TransTypes, TransStep, AllHalted \/ forGood
  PROVE  /\ tear' = tear /\ forGood' = forGood
         /\ NoServer => NoServer'
<1> USE DEF TransTypes, NoServer, AllHalted, Refusing
<1>1. ASSUME NEW c \in Callers, CancelText(c) \/ Unwinds(c) \/ Queues(c)
      PROVE  UNCHANGED <<tear, forGood, server, start, soft>>
  BY <1>1 DEF CancelText, Unwinds, Queues, serverVars
<1>2. ASSUME NEW c \in Callers, Outcome(c)
      PROVE  UNCHANGED <<tear, forGood, server, start, soft>>
  BY <1>2 DEF Outcome, serverVars
<1>3. ASSUME NEW c \in Callers, Hangs(c) PROVE UNCHANGED <<tear, forGood>> /\ server # "none"
  BY <1>3 DEF Hangs
<1>4. CASE StartStep
  BY <1>4, StartOutcomes DEF StartOutcome
<1>5. CASE ServerDies \/ IdleFires \/ SoftOver \/ Replaced
  BY <1>5 DEF ServerDies, IdleFires, SoftTeardown, SoftOver, Replaced
<1>6. CASE ChatStep
  BY <1>6 DEF ChatStep, ChatGoes, ChatLooks, SoftTeardown
<1> QED
  BY <1>1, <1>2, <1>3, <1>4, <1>5, <1>6, Outcomes DEF TransStep

LEMMA AllHaltedStep ==
  ASSUME TransTypes, AllHalted, TransStep
  PROVE  AllHalted'
<1> USE DEF AllHalted, TransTypes
<1>1. ASSUME NEW c \in Callers, CancelText(c) PROVE AllHalted'
  BY <1>1 DEF CancelText, StopsText
<1>2. ASSUME NEW c \in Callers, Unwinds(c) PROVE AllHalted'
  BY <1>2 DEF Unwinds, TextOver
<1>3. ASSUME NEW c \in Callers, Queues(c) \/ Outcome(c) \/ Hangs(c) PROVE FALSE
  BY <1>3 DEF Queues, Outcome, Hangs
<1>4. CASE StartStep
  BY <1>4, StartOutcomes DEF StartOutcome, NoneSetGoing
<1>5. CASE ServerDies \/ IdleFires \/ SoftOver \/ Replaced \/ ChatStep
  <2>1. UNCHANGED <<call, halted>>
    BY <1>5 DEF ServerDies, IdleFires, SoftOver, Replaced, ChatStep, ChatGoes, ChatLooks, jobsVars
  <2> QED
    BY <2>1
<1> QED
  BY <1>1, <1>2, <1>3, <1>4, <1>5, Outcomes DEF TransStep

-----------------------------------------------------------------------------
(* The latch and the turns. *)

LEMMA LatchStep ==
  ASSUME TypeOK, Latched, [Next]_vars
  PROVE  Latched'
<1> USE DEF Latched, session, ownVars
<1>1. CASE Asks \/ Turn \/ SearchEmbeds \/ Documents \/ Image \/ Text \/ Stopping \/ UNCHANGED vars
  BY <1>1 DEF Asks, Turn, SearchEmbeds, Documents, Image, Text, Stopping, vars
<1>2. CASE LockStarts \/ QuitStarts
  BY <1>2 DEF LockStarts, QuitStarts, ArmsAndAborts, ArmLatch
<1>3. CASE LockStep
  BY <1>3 DEF LockStep, LockStops, LockStopped, LockTurns, LockSweeps, LockSeals, Step
<1>4. CASE QuitStep \/ SessionEnds
  BY <1>4 DEF QuitStep, QuitStops, QuitStopped, QuitTurns, QuitEnds, SessionEnds, Exits, ArmLatch
<1> QED
  BY <1>1, <1>2, <1>3, <1>4 DEF Next

LEMMA DownInvStep ==
  ASSUME TypeOK, ServerInv, DownInv, [Next]_vars, Latched'
  PROVE  DownInv'
<1> USE DEF TypeOK, DownInv, Torn, TranslationStaysDown, Sealing, NoServer
<1>1. CASE Asks
  <2>1. ASSUME NEW c \in Callers, StartsText(c), UNCHANGED <<session, ownVars>> PROVE DownInv'
    <3>1. db /\ lockAt = "idle" /\ UNCHANGED <<db, lockAt, quitAt, app, serverVars>>
      BY <2>1 DEF StartsText, AdmitsText, Admits, Latched, session, ownVars
    <3> QED
      BY <3>1 DEF serverVars
  <2>2. CASE ChatStarts /\ UNCHANGED <<session, ownVars>>
    <3>1. db /\ lockAt = "idle" /\ UNCHANGED <<db, lockAt, quitAt, app, tear, forGood>>
      BY <2>2 DEF ChatStarts, ChatGoes, ChatLooks, Admits, Latched, session, ownVars
    <3>2. NoServer => NoServer'
      BY <2>2 DEF ChatStarts, ChatGoes, ChatLooks, SoftTeardown
    <3> QED
      BY <3>1, <3>2
  <2>3. CASE UNCHANGED <<session, transVars, lockAt, quitAt, app>>
    BY <2>3 DEF session, transVars, jobsVars, serverVars, AllHalted
  <2> QED
    BY <1>1, <2>1, <2>2, <2>3 DEF Asks, ownVars
<1>2. CASE Turn \/ SearchEmbeds \/ Documents \/ Image \/ UNCHANGED vars
  <2>1. UNCHANGED <<session, transVars, ownVars>>
    BY <1>2 DEF Turn, SearchEmbeds, Documents, Image, vars
  <2> QED
    BY <2>1 DEF session, transVars, jobsVars, serverVars, ownVars, AllHalted
<1>3. CASE Alive /\ Text
  <2>1. TransStep /\ UNCHANGED <<db, locking, lockAt, quitAt, app>> /\ app = "alive"
    BY <1>3 DEF Text, session, ownVars
  <2>2. lockAt # "idle" \/ ~db => AllHalted'
    BY <2>1, AllHaltedStep
  <2>3. Torn \/ ~db => AllHalted \/ forGood
    BY <2>1
  <2>4. ASSUME Torn \/ ~db
        PROVE  tear' = tear /\ forGood' = forGood /\ (NoServer => NoServer')
    BY <2>1, <2>3, <2>4, NothingStarts
  <2> QED
    BY <2>1, <2>2, <2>4
<1>4. CASE Stopping
  <2>0. UNCHANGED <<db, lockAt, quitAt, app>>
    BY <1>4 DEF Stopping, session, ownVars
  <2>1. CASE UNCHANGED transVars
    BY <2>0, <2>1 DEF transVars, jobsVars, serverVars, AllHalted
  <2>2. CASE TearGoesOn
    <3>1. UNCHANGED <<call, halted, forGood>>
      BY <2>2 DEF TearGoesOn, jobsVars
    <3>2. (NoServer => NoServer') /\ (tear' = "none" => NoServer')
      BY <2>2 DEF TearGoesOn, TearsDown, ServerInv, OneTranslator
    <3> QED
      BY <2>0, <2>2, <3>1, <3>2 DEF AllHalted, TearGoesOn
  <2> QED
    BY <1>4, <2>1, <2>2 DEF Stopping
<1>5. CASE LockStarts \/ QuitStarts
  <2>1. AllHalted' /\ UNCHANGED <<db, app, serverVars>>
    BY <1>5 DEF LockStarts, QuitStarts, ArmsAndAborts, StopsText, AllHalted
  <2>2. \/ lockAt' = "api" /\ quitAt' = quitAt /\ quitAt = "idle" /\ db
        \/ lockAt' = lockAt /\ quitAt' = "api"
    BY <1>5 DEF LockStarts, QuitStarts, Step
  <2> QED
    BY <2>1, <2>2 DEF serverVars
<1>6. CASE LockStops \/ QuitStops
  <2>1. (NoServer => NoServer') /\ (tear' = "none" => tear = "none" /\ NoServer')
    BY <1>6 DEF LockStops, QuitStops, StopsServer, TearsDown, ServerInv, OneTranslator
  <2>2. /\ UNCHANGED <<db, app, call, halted>>
        /\ forGood => forGood'
        /\ \/ lockAt = "api" /\ lockAt' = "stops" /\ quitAt' = quitAt
           \/ lockAt' = lockAt /\ quitAt = "api" /\ quitAt' = "stops" /\ forGood'
    BY <1>6 DEF LockStops, QuitStops, StopsServer, Step, session, jobsVars
  <2> QED
    BY <2>1, <2>2 DEF AllHalted
<1>7. CASE LockStopped \/ QuitStopped \/ LockTurns \/ QuitTurns \/ LockSweeps
  <2>1. UNCHANGED <<db, app, transVars>>
    BY <1>7 DEF LockStopped, QuitStopped, LockTurns, QuitTurns, LockSweeps, session, work
  <2>2. \/ lockAt = "stops" /\ lockAt' = "streams" /\ quitAt' = quitAt /\ tear = "none"
        \/ lockAt' = lockAt /\ quitAt = "stops" /\ quitAt' = "streams" /\ tear = "none"
        \/ lockAt \in {"streams", "plain"} /\ lockAt' \in {"plain", "seal"} /\ quitAt' = quitAt
        \/ lockAt' = lockAt /\ quitAt = "streams" /\ quitAt' = "plain"
    BY <1>7 DEF LockStopped, QuitStopped, LockTurns, QuitTurns, LockSweeps, Step, ServersStopped
  <2> QED
    BY <2>1, <2>2 DEF transVars, jobsVars, serverVars, AllHalted
<1>8. ASSUME NEW sealed \in BOOLEAN, LockSeals(sealed) PROVE DownInv'
  <2>1. lockAt = "seal" /\ lockAt' = "idle" /\ UNCHANGED <<transVars, quitAt, app>>
    BY <1>8 DEF LockSeals, Step
  <2> QED
    BY <2>1 DEF transVars, jobsVars, serverVars, AllHalted
<1>9. CASE QuitEnds \/ SessionEnds
  <2>1. ServerReaped /\ app' # "alive"
    BY <1>9 DEF QuitEnds, SessionEnds, Exits
  <2>2. AllHalted' /\ NoServer'
    BY <2>1 DEF ServerReaped, AllHalted
  <2> QED
    BY <2>1, <2>2
<1> QED
  BY <1>1, <1>2, <1>3, <1>4, <1>5, <1>6, <1>7, <1>8, <1>9 DEF Next, LockStep, QuitStep

LEMMA TurnStep ==
  ASSUME TypeOK, TurnInv, [Next]_vars
  PROVE  Kept' /\ Waited' /\ AnswersSurvive'
<1> USE DEF TypeOK, TurnTypes, Replies, Begun, Causes, TurnInv, Kept, Waited, AnswersSurvive,
            turnVars, session
<1>1. CASE Asks
  <2>1. CASE TurnAsked /\ quitAt = "idle" /\ hurried' = FALSE
             /\ UNCHANGED <<session, workVars, visionVars, transVars, lockAt, quitAt, app, uses>>
    <3>1. db /\ lockAt = "idle" /\ stage' = "parked" /\ turnStale' = FALSE
      BY <2>1 DEF TurnAsked, Send, SendAgain, Regenerate, Registers, Admits, Latched
    <3>2. again' => tail' = "previous"
      BY <2>1 DEF TurnAsked, Send, SendAgain, Regenerate
    <3> QED
      BY <2>1, <3>1, <3>2
  <2>2. CASE UNCHANGED <<session, turnVars, ownVars>>
    BY <2>2 DEF ownVars
  <2> QED
    BY <1>1, <2>1, <2>2 DEF Asks
<1>2. CASE Turn
  <2>0. UNCHANGED <<db, lockAt, quitAt, hurried>>
    BY <1>2 DEF Turn, ownVars
  <2>1. CASE StopButton \/ StopsModel
    <3>1. stage # "idle" /\ UNCHANGED <<tail, stage, again, shelf, turnStale>>
      BY <2>1 DEF StopButton, StopsModel, Aborted
    <3> QED
      BY <2>0, <3>1
  <2>2. CASE TurnedAway
    BY <2>0, <2>2 DEF TurnedAway
  <2>3. CASE Begin
    BY <2>0, <2>3 DEF Begin
  <2>4. CASE Searched
    BY <2>0, <2>4 DEF Searched
  <2>5. CASE Token
    BY <2>0, <2>5 DEF Token
  <2>6. CASE SearchThrows \/ StreamThrows
    <3>1. stage \in {"searching", "streaming"} /\ stage' = "idle" /\ UNCHANGED <<again, turnStale>>
      BY <2>6 DEF SearchThrows, StreamThrows, EndsWithout, Ends
    <3>2. ~turnStale /\ again => tail' = "previous"
      BY <2>6, <3>1 DEF SearchThrows, StreamThrows, EndsWithout, Restores
    <3> QED
      BY <2>0, <3>1, <3>2
  <2>7. CASE StreamCut
    <3>1. stage = "streaming" /\ stage' = "idle" /\ UNCHANGED <<again, cause, turnStale>>
      BY <2>7 DEF StreamCut, Ends
    <3>2. ~turnStale /\ again => tail' = "previous" \/ (tail' = "partial" /\ cause = "user")
      BY <2>7, <3>1 DEF StreamCut, CutCauses
    <3> QED
      BY <2>0, <3>1, <3>2
  <2>8. CASE StreamSaved
    BY <2>0, <2>8 DEF StreamSaved
  <2>9. CASE TurnOver
    BY <2>0, <2>9 DEF TurnOver, Ends
  <2> QED
    BY <1>2, <2>1, <2>2, <2>3, <2>4, <2>5, <2>6, <2>7, <2>8, <2>9 DEF Turn, TurnRuns
<1>3. CASE SearchEmbeds \/ Documents \/ Image \/ Text \/ Stopping \/ UNCHANGED vars
  BY <1>3 DEF SearchEmbeds, Documents, Image, Text, Stopping, vars, ownVars
<1>4. CASE LockStarts \/ QuitStarts
  <2>1. /\ UNCHANGED <<db, tail, stage, again, shelf, turnStale, hurried>>
        /\ stage = "idle" => cause' = cause
    BY <1>4 DEF LockStarts, QuitStarts, ArmsAndAborts, CausedBy
  <2>2. /\ lockAt' \notin {"plain", "seal"} \/ lockAt' = lockAt
        /\ quitAt' # "plain" \/ quitAt' = quitAt
    BY <1>4 DEF LockStarts, QuitStarts, Step
  <2> QED
    BY <2>1, <2>2
<1>5. CASE LockStep
  <2>1. CASE LockStops \/ LockStopped
    <3>1. UNCHANGED <<session, turnVars, quitAt, hurried>> /\ lockAt' \in {"stops", "streams"}
      BY <2>1 DEF LockStops, LockStopped, Step, work
    <3> QED
      BY <3>1
  <2>2. CASE LockTurns
    BY <2>2 DEF LockTurns, TurnsOver, Step, work
  <2>3. CASE LockSweeps
    BY <2>3 DEF LockSweeps, Step
  <2>4. ASSUME NEW sealed \in BOOLEAN, LockSeals(sealed)
        PROVE  Kept' /\ Waited' /\ AnswersSurvive'
    <3>1. lockAt = "seal" /\ UNCHANGED <<tail, stage, again, shelf, cause, quitAt, hurried>>
      BY <2>4 DEF LockSeals, Step
    <3>2. stage # "idle" => hurried
      BY <3>1
    <3> QED
      BY <3>1, <3>2
  <2> QED
    BY <1>5, <2>1, <2>2, <2>3, <2>4 DEF LockStep
<1>6. CASE QuitStep
  <2>1. CASE QuitStops \/ QuitStopped
    <3>1. UNCHANGED <<session, turnVars, lockAt, hurried>> /\ quitAt' \in {"stops", "streams"}
      BY <2>1 DEF QuitStops, QuitStopped, Step, work
    <3> QED
      BY <3>1
  <2>2. CASE QuitTurns
    BY <2>2 DEF QuitTurns, TurnsOver, Step, work
  <2>3. CASE QuitEnds
    <3>1. UNCHANGED <<tail, stage, again, shelf, cause>>
      BY <2>3 DEF QuitEnds, Exits
    <3>2. stage # "idle" => hurried'
      BY <2>3 DEF QuitEnds
    <3>3. hurried => hurried'
      BY <2>3 DEF QuitEnds
    <3> QED
      BY <3>1, <3>2, <3>3
  <2> QED
    BY <1>6, <2>1, <2>2, <2>3 DEF QuitStep
<1>7. CASE SessionEnds
  <2>1. UNCHANGED <<tail, stage, again, shelf, cause>>
    BY <1>7 DEF SessionEnds, Exits
  <2>2. (stage # "idle" => hurried') /\ (hurried => hurried')
    BY <1>7 DEF SessionEnds
  <2> QED
    BY <2>1, <2>2
<1> QED
  BY <1>1, <1>2, <1>3, <1>4, <1>5, <1>6, <1>7 DEF Next

-----------------------------------------------------------------------------
(* Documents: the lease, the decrypted copies and the sweep. *)

LEMMA DocsStep ==
  ASSUME TypeOK, DocsInv, [Next]_vars, WorkTypes'
  PROVE  Leased' /\ Owned' /\ SweptOnce'
<1> USE DEF TypeOK, WorkTypes, DocsInv, Leased, Owned, SweptOnce, Clean
<1>1. CASE Asks
  <2>1. CASE \E kind \in {"import", "reindex"}, end \in Docs : TakesJob(kind, end)
                                                       /\ UNCHANGED <<session, ownVars>>
    <3>1. PICK kind \in {"import", "reindex"}, end \in Docs : TakesJob(kind, end)
      BY <2>1
    <3>2. db' = db /\ db /\ lockAt' = lockAt /\ lockAt = "idle" /\ app' = app
      BY <2>1, <3>1 DEF TakesJob, Admits, Latched, session, ownVars
    <3>3. Leased'
      BY <3>1 DEF TakesJob
    <3>4. Owned'
      BY <3>1 DEF TakesJob
    <3>5. SweptOnce'
      BY <3>1, <3>2 DEF TakesJob
    <3> QED
      BY <3>3, <3>4, <3>5
  <2>2. CASE UNCHANGED <<session, workVars, lockAt, app>>
    BY <2>2 DEF session, workVars, jobVars, docVars
  <2> QED
    BY <1>1, <2>1, <2>2 DEF Asks, ownVars
<1>2. CASE Turn \/ SearchEmbeds \/ Image \/ Text \/ UNCHANGED vars
  BY <1>2 DEF Turn, SearchEmbeds, Image, Text, vars, session, ownVars, workVars, jobVars, docVars
<1>3. CASE Alive /\ Documents
  <2>0. UNCHANGED <<db, locking, lockAt, app>> /\ app = "alive"
    BY <1>3 DEF Documents, session, ownVars
  <2>1. CASE CancelReindex \/ EmbedderUp
    BY <2>0, <2>1 DEF CancelReindex, EmbedderUp, docVars, jobVars
  <2>2. CASE NextDocument
    <3>1. db /\ ~locking /\ lockAt = "idle" /\ current # 0 /\ current # last
      BY <2>2 DEF NextDocument, Stops, Admits, Latched
    <3>2. current + 1 \in Docs /\ current + 1 <= last
      BY <3>1
    <3>3. \A d \in Docs : InPrepare(d) => phase'[d] = phase[d]
      <4> DEFINE opened == Opened(ToOpen(job, current + 1, last), phase)
      <4>1. \A d \in Docs : InPrepare(d) => opened[d] = phase[d]
        BY DEF Opened
      <4>2. opened = [d \in Docs |-> opened[d]]
        BY DEF Opened
      <4>3. \/ phase[current + 1] = "ready" /\ \E to : phase' = [opened EXCEPT ![current + 1] = to]
            \/ phase' = opened
        BY <2>2 DEF NextDocument, Finalizes
      <4> HIDE DEF opened
      <4> QED
        BY <3>2, <4>1, <4>2, <4>3
    <3>4. UNCHANGED <<job, last, lease, copy>> /\ current' = current + 1
      BY <2>2 DEF NextDocument, docVars, jobVars
    <3>5. job # "none"
      BY <3>1
    <3>6. Leased'
      BY <3>2, <3>4, <3>5
    <3>7. Owned'
      BY <3>3, <3>4
    <3>8. SweptOnce'
      BY <2>0, <3>1, <3>4
    <3> QED
      BY <3>6, <3>7, <3>8
  <2>3. CASE JobStops \/ JobDrained
    <3>1. CASE JobOver /\ Settled
      <4>1. job # "none"
        BY <2>3 DEF JobStops, JobDrained
      <4>2. \A d \in Docs : copy[d] = "none" /\ phase'[d] = "waiting"
        BY <3>1 DEF JobOver, Settled
      <4>3. job' = "none" /\ lease' = 0 /\ current' = 0 /\ copy' = copy /\ last' = last
        BY <3>1, <4>1 DEF JobOver, LeaseAfter
      <4> QED
        BY <2>0, <4>2, <4>3
    <3>2. CASE current' = 0 /\ UNCHANGED <<job, last, cancelled, lease, docVars, embVars>>
      BY <2>0, <2>3, <3>2 DEF docVars
    <3> QED
      BY <2>3, <3>1, <3>2 DEF JobStops, JobDrained, Drained
  <2>4. CASE EmbedderDies
    BY <2>0, <2>4 DEF EmbedderDies, EmbedderGone, jobVars
  <2>5. ASSUME NEW d \in Docs, DocStep(d) PROVE Leased' /\ Owned' /\ SweptOnce'
    <3>0. UNCHANGED jobVars
      BY <2>5 DEF DocStep, Decrypting, OpensFile, Prepared, PrepareFails, Embedded
    <3>1. CASE Decrypting(d)
      BY <2>0, <3>0, <3>1 DEF Decrypting, Copies, jobVars
    <3>2. CASE OpensFile(d)
      <4>1. /\ phase[d] = "opening" /\ phase' = [phase EXCEPT ![d] = "parsing"]
            /\ job = "reindex" => copy[d] = "part" /\ copy' = [copy EXCEPT ![d] = "clear"]
            /\ job # "reindex" => copy' = [copy EXCEPT ![d] = "none"]
        BY <3>2 DEF OpensFile, Moves, Copies
      <4> QED
        BY <2>0, <3>0, <4>1 DEF jobVars
    <3>3. CASE Prepared(d)
      <4>1. \A e \in Docs : e # d => phase'[e] = phase[e]
        BY <3>3 DEF Prepared, Moves, Finalizes
      <4>2. phase'[d] \notin Preparing /\ copy' = [copy EXCEPT ![d] = "none"]
        BY <3>3 DEF Prepared, Moves, Finalizes, Copies
      <4> QED
        BY <2>0, <3>0, <4>1, <4>2 DEF jobVars
    <3>4. CASE PrepareFails(d)
      BY <2>0, <3>0, <3>4 DEF PrepareFails, Moves, Copies, jobVars
    <3>5. CASE Embedded(d)
      BY <2>0, <3>0, <3>5 DEF Embedded, Moves, jobVars
    <3> QED
      BY <2>5, <3>1, <3>2, <3>3, <3>4, <3>5 DEF DocStep
  <2> QED
    BY <1>3, <2>1, <2>2, <2>3, <2>4, <2>5 DEF Documents, JobStep
<1>4. CASE Stopping
  BY <1>4 DEF Stopping, EmbedderTornDown, EmbedderGone, VisionStopped, session, ownVars, workVars,
              jobVars, docVars
<1>5. CASE LockStarts \/ QuitStarts
  BY <1>5 DEF LockStarts, QuitStarts, ArmsAndAborts, Step, workVars, jobVars, docVars
<1>6. CASE LockStep
  <2>1. CASE LockStops \/ LockStopped \/ LockTurns
    BY <2>1 DEF LockStops, LockStopped, LockTurns, Step, work, session, workVars, jobVars, docVars
  <2>2. CASE LockSweeps
    <3>1. copy' = Swept /\ UNCHANGED <<jobVars, phase, db, app>> /\ (Settled \/ OpenedByThen)
      BY <2>2 DEF LockSweeps, session
    <3>2. Clean'
      BY <3>1 DEF Swept, Settled, OpenedByThen, jobVars
    <3>3. Owned' /\ Leased'
      BY <3>1 DEF Swept, jobVars
    <3>4. \A d \in Docs : copy'[d] \in {"none", "swept"}
      BY <3>2
    <3> QED
      BY <3>2, <3>3, <3>4
  <2>3. ASSUME NEW sealed \in BOOLEAN, LockSeals(sealed) PROVE Leased' /\ Owned' /\ SweptOnce'
    <3>1. lockAt = "seal" /\ lockAt' = "idle" /\ UNCHANGED <<jobVars, phase, copy, app>>
      BY <2>3 DEF LockSeals, Step
    <3> QED
      BY <3>1 DEF jobVars
  <2> QED
    BY <1>6, <2>1, <2>2, <2>3 DEF LockStep
<1>7. CASE QuitStep
  <2>1. CASE QuitStops \/ QuitStopped \/ QuitTurns
    BY <2>1 DEF QuitStops, QuitStopped, QuitTurns, work, session, workVars, jobVars, docVars
  <2>2. CASE QuitEnds
    <3>1. copy' = Swept /\ UNCHANGED <<jobVars, phase, lockAt>> /\ app' = "exited"
      BY <2>2 DEF QuitEnds, Exits
    <3>2. \A d \in Docs : copy'[d] \in {"none", "swept"}
      BY <3>1 DEF Swept
    <3>3. Owned' /\ Leased'
      BY <3>1 DEF Swept, jobVars
    <3>4. lockAt = "seal" => Clean'
      BY <3>1 DEF Swept, jobVars
    <3> QED
      BY <3>1, <3>2, <3>3, <3>4
  <2> QED
    BY <1>7, <2>1, <2>2 DEF QuitStep
<1>8. CASE SessionEnds
  <2>1. UNCHANGED <<jobVars, phase, copy, lockAt>> /\ app' = "killed"
    BY <1>8 DEF SessionEnds, Exits
  <2> QED
    BY <2>1 DEF jobVars
<1> QED
  BY <1>1, <1>2, <1>3, <1>4, <1>5, <1>6, <1>7, <1>8 DEF Next

-----------------------------------------------------------------------------
(* The image model and the embedder. *)

LEMMA ImageInvStep ==
  ASSUME TypeOK, ImageInv, [Next]_vars, Latched'
  PROVE  ImageInv'
<1> USE DEF TypeOK, VisionTypes, ImageInv, Down
<1>1. CASE Asks
  <2>1. CASE \E i \in Images : Analyze(i) /\ UNCHANGED <<session, ownVars>>
    <3>1. db /\ lockAt = "idle" /\ UNCHANGED <<db, dying, lockAt, quitAt, app>>
      BY <2>1 DEF Analyze, AdmitsImage, Admits, Latched, session, ownVars
    <3> QED
      BY <3>1
  <2>2. CASE UNCHANGED <<session, visionVars, lockAt, quitAt, app>>
    BY <2>2 DEF session, visionVars
  <2> QED
    BY <1>1, <2>1, <2>2 DEF Asks, ownVars
<1>2. CASE Alive /\ Image
  <2>0. UNCHANGED <<db, lockAt, quitAt, app>> /\ app = "alive"
    BY <1>2 DEF Image, session, ownVars
  <2>1. ASSUME NEW i \in Images, Asked(i) PROVE ImageInv'
    BY <2>0, <2>1 DEF Asked
  <2>2. ASSUME NEW i \in Images, ImageOver(i) PROVE ImageInv'
    BY <2>0, <2>2 DEF ImageOver, JobEnds
  <2>3. ASSUME NEW i \in Images, CancelImage(i) PROVE ImageInv'
    BY <2>0, <2>3 DEF CancelImage
  <2>4. CASE VisionGoes
    BY <2>0, <2>4 DEF VisionGoes
  <2> QED
    BY <1>2, <2>1, <2>2, <2>3, <2>4 DEF Image, ImageStep
<1>3. CASE Turn \/ SearchEmbeds \/ Documents \/ Text \/ UNCHANGED vars
  BY <1>3 DEF Turn, SearchEmbeds, Documents, Text, vars, session, visionVars, ownVars
<1>4. CASE Stopping
  BY <1>4 DEF Stopping, VisionStopped, session, visionVars, ownVars
<1>5. CASE LockStarts \/ QuitStarts
  BY <1>5 DEF LockStarts, QuitStarts, ArmsAndAborts, Step, visionVars
<1>6. CASE Alive /\ LockStep
  <2>1. CASE LockStops
    BY <1>6, <2>1 DEF LockStops, Step, StopVision, session
  <2>2. CASE LockStopped
    BY <2>2 DEF LockStopped, Step, work, session, visionVars
  <2>3. CASE LockTurns \/ LockSweeps
    BY <2>3 DEF LockTurns, LockSweeps, Step, work, session, visionVars
  <2>4. ASSUME NEW sealed \in BOOLEAN, LockSeals(sealed) PROVE ImageInv'
    BY <2>4 DEF LockSeals, Step, visionVars
  <2> QED
    BY <1>6, <2>1, <2>2, <2>3, <2>4 DEF LockStep
<1>7. CASE Alive /\ (QuitStep \/ SessionEnds)
  <2>1. CASE QuitStops
    BY <1>7, <2>1 DEF QuitStops, Step, StopVision, session
  <2>2. CASE QuitStopped \/ QuitTurns
    BY <2>2 DEF QuitStopped, QuitTurns, Step, work, session, visionVars
  <2>3. CASE QuitEnds
    <3>1. app' = "exited" /\ dying' = None /\ ~vision'
      BY <2>3 DEF QuitEnds, Exits
    <3> QED
      BY <3>1
  <2>4. CASE SessionEnds
    <3>1. app' = "killed" /\ dying' = None /\ ~vision'
      BY <2>4 DEF SessionEnds, Exits
    <3> QED
      BY <3>1
  <2> QED
    BY <1>7, <2>1, <2>2, <2>3, <2>4 DEF QuitStep
<1> QED
  BY <1>1, <1>2, <1>3, <1>4, <1>5, <1>6, <1>7 DEF Next

LEMMA EmbInvStep ==
  ASSUME TypeOK, EmbInv, [Next]_vars
  PROVE  EmbInv'
<1> USE DEF TypeOK, WorkTypes, EmbInv, NoRespawnOnQuit, embVars
<1>1. CASE Asks \/ Turn \/ Image \/ Text \/ UNCHANGED vars
  <2>1. UNCHANGED <<embVars, quitAt>>
    BY <1>1 DEF Asks, TakesJob, Turn, Image, Text, vars, workVars, ownVars
  <2> QED
    BY <2>1
<1>2. CASE SearchEmbeds
  BY <1>2 DEF SearchEmbeds, Embeddable, ownVars
<1>3. CASE Documents
  <2>0. quitAt' = quitAt
    BY <1>3 DEF Documents, ownVars
  <2>1. CASE CancelReindex \/ JobStops \/ JobDrained
    BY <2>0, <2>1 DEF CancelReindex, JobStops, JobDrained, JobOver
  <2>2. CASE NextDocument
    BY <2>0, <2>2 DEF NextDocument, Finalizes, Embeddable
  <2>3. CASE EmbedderUp
    BY <2>0, <2>3 DEF EmbedderUp
  <2>4. CASE EmbedderDies
    BY <2>0, <2>4 DEF EmbedderDies, EmbedderGone
  <2>5. ASSUME NEW d \in Docs, DocStep(d) PROVE EmbInv'
    <3>1. CASE Prepared(d)
      BY <2>0, <3>1 DEF Prepared, Finalizes, Embeddable
    <3>2. CASE UNCHANGED embVars
      BY <2>0, <3>2
    <3> QED
      BY <2>5, <3>1, <3>2 DEF DocStep, Decrypting, OpensFile, PrepareFails, Embedded
  <2> QED
    BY <1>3, <2>1, <2>2, <2>3, <2>4, <2>5 DEF Documents, JobStep
<1>4. CASE Stopping
  BY <1>4 DEF Stopping, EmbedderTornDown, EmbedderGone, VisionStopped, workVars, ownVars
<1>5. CASE LockStarts \/ QuitStarts
  BY <1>5 DEF LockStarts, QuitStarts, ArmsAndAborts, Step, workVars
<1>6. CASE LockStep
  <2>1. CASE LockStops
    BY <2>1 DEF LockStops, Suspend
  <2>2. CASE LockStopped \/ LockTurns \/ LockSweeps
    BY <2>2 DEF LockStopped, LockTurns, LockSweeps, work, workVars
  <2>3. ASSUME NEW sealed \in BOOLEAN, LockSeals(sealed) PROVE EmbInv'
    BY <2>3 DEF LockSeals
  <2> QED
    BY <1>6, <2>1, <2>2, <2>3 DEF LockStep
<1>7. CASE QuitStep \/ SessionEnds
  <2>1. CASE QuitStops
    BY <2>1 DEF QuitStops, StopForGood, Step
  <2>2. CASE QuitStopped
    BY <2>2 DEF QuitStopped, Step, work, workVars
  <2>3. CASE QuitTurns
    BY <2>3 DEF QuitTurns, Step, work, workVars
  <2>4. CASE QuitEnds \/ SessionEnds
    <3>1. emb' = "down" /\ UNCHANGED <<embStopped, quitAt>>
      BY <2>4 DEF QuitEnds, SessionEnds, Exits
    <3> QED
      BY <3>1
  <2> QED
    BY <1>7, <2>1, <2>2, <2>3, <2>4 DEF QuitStep
<1> QED
  BY <1>1, <1>2, <1>3, <1>4, <1>5, <1>6, <1>7 DEF Next

-----------------------------------------------------------------------------
(* Theorems. *)

LockInv == TypeOK /\ TurnInv /\ DocsInv /\ ImageInv /\ EmbInv /\ ServerInv /\ DownInv

LEMMA InitLock == Init => LockInv
<1> SUFFICES ASSUME Init PROVE LockInv
  OBVIOUS
<1>1. TypeOK
  BY InitTypes
<1>2. TurnInv
  BY DEF Init, TurnInit, TurnInv, Latched, Kept, Waited, AnswersSurvive
<1>3. DocsInv
  BY DEF Init, WorkInit, DocsInv, Latched, Leased, Owned, SweptOnce
<1>4. ImageInv
  BY DEF Init, VisionInit, ImageInv, Latched
<1>5. EmbInv
  BY DEF Init, WorkInit, EmbInv, NoRespawnOnQuit
<1>6. ServerInv
  BY DEF Init, TransInit, ServerInv, OneTranslator, IdleReclaims, CardPromised, CardIsChats
<1>7. DownInv
  BY DEF Init, TransInit, DownInv, Latched, Torn, TranslationStaysDown, Sealing
<1> QED
  BY <1>1, <1>2, <1>3, <1>4, <1>5, <1>6, <1>7 DEF LockInv

LEMMA LockInvStep == LockInv /\ [Next]_vars => LockInv'
<1> SUFFICES ASSUME LockInv, [Next]_vars PROVE LockInv'
  OBVIOUS
<1> USE DEF LockInv
<1>1. (TurnTypes /\ SessionTypes)'
  BY TurnTypesStep DEF TypeOK
<1>2. WorkTypes' /\ VisionTypes'
  BY DocsTypesStep, VisionTypesStep
<1>3. TypeOK'
  BY <1>1, <1>2, OwnTypesStep, TextMovesStep, TransTypesStep DEF TypeOK
<1>4. Latched'
  BY LatchStep DEF TurnInv
<1>5. TurnInv'
  BY <1>4, TurnStep DEF TurnInv
<1>6. DocsInv'
  BY <1>2, <1>4, DocsStep DEF DocsInv
<1>7. ImageInv' /\ EmbInv'
  BY <1>4, ImageInvStep, EmbInvStep
<1>8. ServerInv' /\ DownInv'
  BY <1>4, TextMovesStep, ServerInvStep, DownInvStep DEF TypeOK
<1> QED
  BY <1>3, <1>5, <1>6, <1>7, <1>8

\* The invariant of a lock and a quit, and with it the type of every variable,
\* holds for any number of documents and images.
THEOREM LockKeepsOrder == Spec => []LockInv
<1> QED
  BY InitLock, LockInvStep, PTL DEF Spec

\* A re-ask never loses the answer it deletes, unless a lock or a quit could
\* not wait for it (restore in chat-stream.ts, the bounded settle of the lock).
THEOREM NoAnswerIsLost == Spec => []AnswersSurvive
<1>1. LockInv => AnswersSurvive
  BY DEF LockInv, TurnInv
<1> QED
  BY <1>1, LockKeepsOrder, PTL

\* When a lock or a quit is over no decrypted copy of a document is left, and
\* none appears behind it (settleAndSweepPlaintextOps).
THEOREM NothingLeftDecrypted == Spec => []PlaintextGoneWhenLocked
<1>1. LockInv => PlaintextGoneWhenLocked
  BY DEF LockInv, TypeOK, DocsInv, SweptOnce, Clean, PlaintextGoneWhenLocked
<1> QED
  BY <1>1, LockKeepsOrder, PTL

\* A password change finds no document that is being opened or parsed
\* (beginDocumentWork, the drain of the look-ahead).
THEOREM LeaseHeldWhileWorking == Spec => []LeaseCoversWork
<1>1. LockInv => LeaseCoversWork
  BY DEF LockInv, TypeOK, WorkTypes, DocsInv, Leased, LeaseCoversWork
<1> QED
  BY <1>1, LockKeepsOrder, PTL

\* The image model a lock stopped is not built again (workspaceAdmitsWork in
\* analyze(), the signal after the status await).
THEOREM VisionIsNotRevived == Spec => []VisionStaysDown
<1>1. LockInv => VisionStaysDown
  BY DEF LockInv, TypeOK, VisionTypes, ImageInv, Down, VisionStaysDown, Sealing
<1> QED
  BY <1>1, LockKeepsOrder, PTL

\* The embedder a quit stopped does not come back (stop() latches).
THEOREM EmbedderIsNotRevived == Spec => []NoRespawnOnQuit
<1>1. LockInv => NoRespawnOnQuit
  BY DEF LockInv, EmbInv
<1> QED
  BY <1>1, LockKeepsOrder, PTL

\* Once a lock or a quit has stopped the translation server nothing brings it
\* back, for any number of jobs (teardown() in translation/runtime.ts).
THEOREM TranslationIsNotRevived == Spec => []TranslationStaysDown
<1>1. LockInv => TranslationStaysDown
  BY DEF LockInv, DownInv
<1> QED
  BY <1>1, LockKeepsOrder, PTL

\* There are never two translation servers, a dying one included
\* (ensureStarted and softTeardown in translation/runtime.ts).
THEOREM ServersNeverOverlap == Spec => []OneTranslator
<1>1. LockInv => OneTranslator
  BY DEF LockInv, ServerInv
<1> QED
  BY <1>1, LockKeepsOrder, PTL

\* A translation server nobody uses is timed (armIdleTimer behind each start
\* and each window).
THEOREM IdleServersAreTimed == Spec => []IdleReclaims
<1>1. LockInv => IdleReclaims
  BY DEF LockInv, ServerInv
<1> QED
  BY <1>1, LockKeepsOrder, PTL

\* No translation comes onto the card a chat start was promised (yieldGpu and
\* the posture of a start beside it).
THEOREM CardStaysWithChat == Spec => []CardIsChats
<1>1. LockInv => CardIsChats
  BY DEF LockInv, ServerInv
<1> QED
  BY <1>1, LockKeepsOrder, PTL
=============================================================================
