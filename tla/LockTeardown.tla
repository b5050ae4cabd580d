---------------------------- MODULE LockTeardown ----------------------------
(***************************************************************************)
(* "Lock now" (ipc/registerWorkspaceIpc.ts), the quit and the end of the   *)
(* OS session (shutdown.ts), against an answer, an import, an image        *)
(* question and translations that are under way or asked for meanwhile.    *)
(*                                                                         *)
(* Lock and quit go through the same stages, each an await others run in:  *)
(*   "api"      the local API stops                                        *)
(*   "stops"    the sidecars stop                                          *)
(*   "streams"  the aborted turns settle, or the bound elapses             *)
(*   "plain"    the plaintext operations settle, or the bound elapses      *)
(*   "seal"     (lock) the knowledge packs' operations settle              *)
(* and end with the seal.  A quit may overtake a lock; a session end waits *)
(* for nothing.  One session is modelled: an unlock is WorkspaceVault's.   *)
(***************************************************************************)
EXTENDS AnswerTurn, DocumentWork, VisionService, Translation

CONSTANT Mixes   \* which kinds of work share a behaviour

VARIABLES
    lockAt, quitAt,   \* the stage each is in
    app,      \* "alive", or how it ended
    hurried,  \* a turn was not waited for to its end
    uses      \* the kinds of work of this behaviour

ownVars == <<lockAt, quitAt, app, hurried, uses>>
vars    == <<session, turnVars, workVars, visionVars, transVars, ownVars>>

LockStages == {"idle", "api", "stops", "streams", "plain", "seal"}

TypeOK ==
    /\ SessionTypes /\ TurnTypes /\ WorkTypes /\ VisionTypes /\ TransTypes
    /\ lockAt \in LockStages /\ quitAt \in LockStages \ {"seal"}
    /\ app \in {"alive", "exited", "killed"} /\ hurried \in BOOLEAN
    /\ uses \in Mixes

Init ==
    /\ db = TRUE /\ locking = FALSE
    /\ TurnInit /\ WorkInit /\ VisionInit /\ TransInit
    /\ lockAt = "idle" /\ quitAt = "idle" /\ app = "alive" /\ hurried = FALSE
    /\ uses \in Mixes

Alive == app = "alive"

----------------------------------------------------------------------------
(* The work. *)

Asks ==
    \/ /\ "turn" \in uses /\ quitAt = "idle" /\ TurnAsked /\ hurried' = FALSE
       /\ UNCHANGED <<session, workVars, visionVars, transVars, lockAt, quitAt, app, uses>>
    \/ /\ "docs" \in uses
       /\ \E kind \in {"import", "reindex"}, end \in Docs : TakesJob(kind, end)
       /\ UNCHANGED <<session, turnVars, visionVars, transVars, ownVars>>
    \/ /\ "image" \in uses /\ \E i \in Images : Analyze(i)
       /\ UNCHANGED <<session, turnVars, workVars, transVars, ownVars>>
    \/ /\ "text" \in uses /\ ((\E c \in Callers : StartsText(c)) \/ ChatStarts)
       /\ UNCHANGED <<session, turnVars, workVars, visionVars, ownVars>>

Turn == TurnRuns /\ UNCHANGED <<session, workVars, visionVars, transVars, ownVars>>

\* A question is embedded to search the documents, unless its turn was aborted.
SearchEmbeds ==
    /\ stage = "searching" /\ cause = None /\ emb = "down" /\ Embeddable
    /\ emb' = "starting"
    /\ UNCHANGED <<session, turnVars, jobVars, docVars, embTearing, embStopped, visionVars, transVars, ownVars>>

Documents ==
    /\ \/ CancelReindex \/ JobStep \/ EmbedderUp \/ EmbedderDies
       \/ \E d \in Docs : DocStep(d)
    /\ UNCHANGED <<session, turnVars, visionVars, transVars, ownVars>>

Image == ImageStep /\ UNCHANGED <<session, turnVars, workVars, transVars, ownVars>>

Text == TransStep /\ UNCHANGED <<session, turnVars, workVars, visionVars, ownVars>>

Stopping ==
    \/ EmbedderTornDown /\ UNCHANGED <<session, turnVars, visionVars, transVars, ownVars>>
    \/ VisionStopped /\ UNCHANGED <<session, turnVars, workVars, transVars, ownVars>>
    \/ TearGoesOn /\ UNCHANGED <<session, turnVars, workVars, visionVars, ownVars>>

----------------------------------------------------------------------------
(* Lock and quit, stage by stage. *)

Step(at, from, to) == at = from /\ at' = to

work == <<turnVars, workVars, visionVars, transVars>>

\* The latch first, before any await; then every turn and translation is aborted.
ArmsAndAborts ==
    /\ ArmLatch /\ cause' = CausedBy("lock") /\ StopsText(Callers) /\ activeJob' = None
    /\ UNCHANGED <<db, tail, mark, stage, again, shelf, token, turnStale, workVars, visionVars,
                   call, retried, serverVars, chat, app, hurried, uses>>

\* variant: no bound on the wait for the turns
BoundNever == FALSE

\* Five seconds.
BoundElapses == TRUE

\* The aborted turns have settled, or are not waited for any longer.
TurnsOver ==
    /\ stage = "idle" \/ BoundElapses
    /\ hurried' = (hurried \/ stage # "idle")

LockStarts ==
    db /\ quitAt = "idle" /\ Step(lockAt, "idle", "api") /\ ArmsAndAborts /\ UNCHANGED quitAt

LockStops ==
    /\ Step(lockAt, "api", "stops") /\ Suspend /\ StopVision("lock") /\ StopsServer(FALSE)
    /\ UNCHANGED <<session, turnVars, jobVars, docVars, jobsVars, chat, quitAt, app, hurried, uses>>

\* The translation server's teardown, and the chat model's stop.
ServersStopped == tear = "none" /\ chat = "none"

LockStopped ==
    /\ Step(lockAt, "stops", "streams") /\ ~embTearing /\ dying # "lock" /\ ServersStopped
    /\ UNCHANGED <<session, work, quitAt, app, hurried, uses>>

LockTurns ==
    /\ Step(lockAt, "streams", "plain") /\ TurnsOver
    /\ UNCHANGED <<session, work, quitAt, app, uses>>

LockSweeps ==
    /\ Step(lockAt, "plain", "seal")
    /\ Settled \/ OpenedByThen
    /\ copy' = Swept
    /\ UNCHANGED <<session, turnVars, jobVars, phase, docStale, embVars, visionVars, transVars,
                   quitAt, app, hurried, uses>>

\* A seal that fails has closed the handle too: the workspace is open again
\* behind another one.
LockSeals(sealed) ==
    /\ Step(lockAt, "seal", "idle")
    /\ db' = ~sealed /\ locking' = AfterLock(sealed)
    /\ TurnAfterSeal /\ WorkAfterSeal
    /\ UNCHANGED <<tail, mark, stage, again, shelf, cause, token, jobVars, phase, copy, embVars,
                   visionVars, transVars, quitAt, app, hurried, uses>>

LockStep ==
    \/ LockStops \/ LockStopped \/ LockTurns \/ LockSweeps
    \/ \E sealed \in BOOLEAN : LockSeals(sealed)

QuitStarts == Step(quitAt, "idle", "api") /\ ArmsAndAborts /\ UNCHANGED lockAt

QuitStops ==
    /\ Step(quitAt, "api", "stops") /\ StopForGood /\ StopVision("quit") /\ StopsServer(TRUE)
    /\ UNCHANGED <<session, turnVars, jobVars, docVars, jobsVars, chat, lockAt, app, hurried, uses>>

QuitStopped ==
    /\ Step(quitAt, "stops", "streams") /\ ~embTearing /\ dying # "quit" /\ ServersStopped
    /\ UNCHANGED <<session, work, lockAt, app, hurried, uses>>

QuitTurns ==
    /\ Step(quitAt, "streams", "plain") /\ TurnsOver
    /\ UNCHANGED <<session, work, lockAt, app, uses>>

\* The seal closes the database whether or not it succeeds, and every sidecar
\* still there is reaped.
Exits(how) ==
    /\ app' = how /\ db' = FALSE
    /\ emb' = "down" /\ vision' = FALSE /\ dying' = None /\ ServerReaped
    /\ UNCHANGED <<turnVars, jobVars, phase, docStale, embTearing, embStopped,
                   image, stopped, activeImage, visTearing, lockAt, quitAt, uses>>

\* After the last stage, or at the overall deadline in any of them.
QuitEnds ==
    /\ quitAt # "idle" /\ copy' = Swept /\ Exits("exited") /\ UNCHANGED locking
    /\ hurried' = (hurried \/ (quitAt # "plain" /\ stage # "idle"))

\* The OS ends the session: sealed at once, nothing swept.
SessionEnds ==
    /\ quitAt = "idle" /\ ArmLatch /\ UNCHANGED copy /\ Exits("killed")
    /\ hurried' = (hurried \/ stage # "idle")

QuitStep == QuitStops \/ QuitStopped \/ QuitTurns \/ QuitEnds

Next ==
    /\ Alive
    /\ \/ Asks \/ Turn \/ SearchEmbeds \/ Documents \/ Image \/ Text \/ Stopping
       \/ LockStarts \/ LockStep \/ QuitStarts \/ QuitStep \/ SessionEnds

Spec == Init /\ [][Next]_vars

DocumentsGo ==
    /\ JobStep \/ EmbedderUp \/ \E d \in Docs : DocStep(d)
    /\ UNCHANGED <<session, turnVars, visionVars, transVars, ownVars>>

ServersGo ==
    \/ Stopping
    \/ /\ StartStep \/ SoftOver \/ ChatStep
       /\ UNCHANGED <<session, turnVars, workVars, visionVars, ownVars>>

(* The teardowns, the documents and the servers go on; nobody need ask and no *)
(* turn need end.                                                             *)
FairSpec ==
    /\ Spec
    /\ WF_vars(Alive /\ LockStep) /\ WF_vars(Alive /\ QuitStep)
    /\ WF_vars(Alive /\ DocumentsGo) /\ WF_vars(Alive /\ ServersGo)

----------------------------------------------------------------------------
(* Properties. *)

Sealing == lockAt \in {"streams", "plain", "seal"} \/ ~db

\* A re-ask never loses the answer it deletes: when it is over, or the
\* workspace closes, the last row is that answer, its replacement, or a partial
\* one the user asked to stop at - unless somebody could not wait for it.
AnswersSurvive ==
    again /\ (stage = "idle" \/ ~db) =>
        \/ tail \in {"previous", "fresh"} \/ (tail = "partial" /\ cause = "user")
        \/ hurried

\* No decrypted copy of a document is on disk once a lock or a quit is over,
\* however long its parse goes on.
PlaintextGoneWhenLocked ==
    ~db /\ app # "killed" => \A d \in Docs : copy[d] \in {"none", "swept"}

\* Once a lock has stopped the image model it stays stopped.  (A quit that
\* overtakes it waits for the process itself; the lock then does not.)
VisionStaysDown == Sealing /\ quitAt = "idle" => ~vision /\ dying = None

\* Once a quit has stopped the embedder nothing brings it back.
NoRespawnOnQuit == quitAt \in {"streams", "plain"} => emb = "down"

\* Once a lock or a quit has stopped the translation server nothing brings it
\* back, whoever still waited for it or had a window to go.
TranslationStaysDown ==
    (Sealing \/ quitAt \in {"streams", "plain"}) => NoServer

TearingDown == Alive /\ (lockAt # "idle" \/ quitAt # "idle")

\* A lock ends, and a quit (which nothing but the end of the process ends),
\* whatever a turn, a document or a start of a server does.
TeardownsEnd == TearingDown ~> ~TearingDown

(* What the lock promises (registerWorkspaceIpc.ts:485): nothing derived from *)
(* the user's data runs in a locked workspace.                                *)
NothingOutlivesTheLock == ~db /\ Alive => emb = "down"
=============================================================================
