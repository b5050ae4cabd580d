----------------------------- MODULE AnswerTurn -----------------------------
(***************************************************************************)
(* One conversation and its turns (ipc/chat-stream.ts, services/chat.ts).  *)
(* A re-ask deletes the previous answer once it holds the model and must   *)
(* bring it back whenever nothing better takes its place: it is stopped,   *)
(* fails, comes out empty, or the model, a lock or a quit cuts it.         *)
(*                                                                         *)
(* Of the conversation only its last row is kept:                          *)
(*   "question"   a question without an answer, with its mark              *)
(*   "previous"   a complete answer, from before the turn under way        *)
(*   "partial"    the stopped reply of the last turn, marked with `cause`  *)
(*   "fresh"      the complete reply of the last turn                      *)
(* The database takes every write while its handle is open.                *)
(***************************************************************************)
EXTENDS Session

VARIABLES
    tail,   \* the last row
    mark,   \* the "Not answered" cause of a question
    stage,  \* the turn: idle, parked for the model, searching, streaming, saved
    again,  \* the last turn is a re-ask
    shelf,  \* it holds a snapshot of the answer it deleted
    cause,  \* why its signal was aborted
    token,  \* the model produced a token
    turnStale \* the handle it captured was closed

turnVars == <<tail, mark, stage, again, shelf, cause, token, turnStale>>

Causes  == {"user", "model", "lock"}
Replies == {"previous", "partial", "fresh"}
Begun   == {"searching", "streaming", "saved"}

TurnTypes ==
    /\ tail \in Replies \union {"question"}
    /\ mark \in Causes \union {None}
    /\ stage \in Begun \union {"idle", "parked"}
    /\ cause \in Causes \union {None}
    /\ again \in BOOLEAN /\ shelf \in BOOLEAN /\ token \in BOOLEAN /\ turnStale \in BOOLEAN

TurnInit ==
    /\ tail \in {"question", "previous"} /\ mark = None
    /\ stage = "idle" /\ again = FALSE /\ shelf = FALSE
    /\ cause = None /\ token = FALSE /\ turnStale = FALSE

----------------------------------------------------------------------------
(* A turn is asked for and gets the model. *)

Registers ==
    /\ stage = "idle" /\ Admits /\ stage' = "parked"
    /\ cause' = None /\ shelf' = FALSE /\ token' = FALSE /\ turnStale' = FALSE

\* A new question is written before the turn is registered.
Send ==
    /\ Registers /\ again' = FALSE /\ tail' = "question" /\ mark' = None

SendAgain == Registers /\ tail = "question" /\ again' = FALSE /\ UNCHANGED <<tail, mark>>

Regenerate ==
    /\ Registers /\ tail \in Replies /\ again' = TRUE
    /\ tail' = "previous" /\ UNCHANGED mark

\* The first abort of a turn gives its cause.
CausedBy(c) == IF stage # "idle" /\ cause = None THEN c ELSE cause

Aborted(c) == stage # "idle" /\ cause' = CausedBy(c)

StopButton == Aborted("user") /\ UNCHANGED <<tail, mark, stage, again, shelf, token, turnStale>>
StopsModel == Aborted("model") /\ UNCHANGED <<tail, mark, stage, again, shelf, token, turnStale>>

\* A stop while parked, a review that hangs on the answer, or a handle that is
\* gone: the turn ends with nothing deleted.
TurnedAway ==
    /\ stage = "parked" /\ (cause # None \/ again \/ turnStale)
    /\ stage' = "idle"
    /\ UNCHANGED <<tail, mark, again, shelf, cause, token, turnStale>>

\* An attempt that begins takes the mark of an earlier one off its question.
ClearedMark(row) == IF row = "question" THEN None ELSE mark

Begin ==
    /\ stage = "parked" /\ ~turnStale
    /\ stage' = "searching"
    /\ mark' = ClearedMark(tail)
    /\ tail' = IF again THEN "question" ELSE tail
    /\ shelf' = again
    /\ UNCHANGED <<again, cause, token, turnStale>>

----------------------------------------------------------------------------
(* How the turn ends: restore first, then mark a question left unanswered. *)

\* variant: an abort keeps the delete
RestoresFailure(c) == c = None

\* A turn that saved nothing in the place of the deleted answer restores it,
\* aborted or not.
Restores(c) == TRUE

\* These end the stream, not the wish for an answer.
CutCauses == {"model", "lock"}

Ends == stage' = "idle" /\ UNCHANGED <<again, shelf, cause, token, turnStale>>

\* Nothing was saved for this attempt.
EndsWithout ==
    LET row == IF shelf /\ Restores(cause) THEN "previous" ELSE tail IN
    /\ Ends
    /\ IF turnStale THEN UNCHANGED <<tail, mark>>
       ELSE /\ tail' = row
            /\ mark' = IF row = "question" /\ cause # None THEN cause ELSE mark

\* Documents are found, or the search throws: an abort, or a failure.
Searched ==
    /\ stage = "searching" /\ stage' = "streaming"
    /\ UNCHANGED <<tail, mark, again, shelf, cause, token, turnStale>>
SearchThrows == stage = "searching" /\ EndsWithout

Token ==
    /\ stage = "streaming" /\ ~token /\ token' = TRUE
    /\ UNCHANGED <<tail, mark, stage, again, shelf, cause, turnStale>>

\* An empty completion, a lost model, or a stop before the first token.
StreamThrows == stage = "streaming" /\ EndsWithout

\* A reply cut by a stop is saved, and put away again for the previous answer
\* unless the user stopped it.
StreamCut ==
    /\ stage = "streaming" /\ token /\ cause # None
    /\ Ends /\ UNCHANGED mark
    /\ tail' = IF turnStale THEN tail
               ELSE IF shelf /\ cause \in CutCauses THEN "previous" ELSE "partial"

\* A complete reply is saved; a step after it may still be awaited.
StreamSaved ==
    /\ stage = "streaming" /\ token /\ cause = None /\ ~turnStale
    /\ stage' = "saved" /\ tail' = "fresh"
    /\ UNCHANGED <<mark, again, shelf, cause, token, turnStale>>

\* The saved reply carries no mark, so a stop that comes now undoes nothing.
TurnOver == stage = "saved" /\ Ends /\ UNCHANGED <<tail, mark>>

TurnAsked == Send \/ SendAgain \/ Regenerate
TurnRuns ==
    \/ StopButton \/ StopsModel \/ TurnedAway \/ Begin
    \/ Searched \/ SearchThrows \/ Token \/ StreamThrows \/ StreamCut \/ StreamSaved \/ TurnOver

\* What a seal leaves of a turn that still runs.
TurnAfterSeal == turnStale' = (stage # "idle" \/ turnStale)
=============================================================================
