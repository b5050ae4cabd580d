----------------------------- MODULE Translation -----------------------------
(***************************************************************************)
(* Translation (services/translation/runtime.ts, jobs.ts and               *)
(* services/doctasks/handlers/translation.ts): one lazily started server   *)
(* for the jobs of the Translate view and the document task.  It is let go *)
(* when idle, when it hangs and when a chat model wants the graphics card  *)
(* (soft teardowns: the next window starts it again), and stopped by a     *)
(* lock or a quit (the teardown).                                          *)
(*                                                                         *)
(* A window takes the one slot, waits for a soft teardown that is under    *)
(* way, starts the server or joins a start, and asks.  A stopped caller    *)
(* leaves each of these waits, and a start it began goes on without it.    *)
(* The order in which callers get the slot is left out.                    *)
(***************************************************************************)
EXTENDS Session

CONSTANTS
    Jobs,      \* jobs of the view; one may be used again once it is over
    TaskCall   \* the document task, the other caller

ASSUME JobsAssumption == TaskCall \notin Jobs /\ None \notin Jobs

VARIABLES
    call,      \* per caller: where its window is
    retried,   \* callers in the second attempt at a window
    halted,    \* callers whose signal was aborted
    activeJob, \* the view's job
    server,    \* the current server runs on the "card", the "cpu" or is "none"
    start,     \* the start under way: waits for the reranker ("hook"), "card", "cpu"
    soft,      \* the server a soft teardown still waits for
    tear,      \* what the teardown waits for: a "start", a "soft" one, its own "kill"
    latched, fellBack, forGood, \* a start failed; the card is given up; stop() was called
    idleTimer,
    chat       \* a chat start: asks for the card, waits, has its word ("loading") or not ("beside")

jobsVars   == <<call, retried, halted, activeJob>>
serverVars == <<server, start, soft, tear, latched, fellBack, forGood, idleTimer>>
transVars  == <<jobsVars, serverVars, chat>>

Callers == Jobs \union {TaskCall}
Places  == {"none", "card", "cpu"}

TransTypes ==
    /\ call \in [Callers -> {"none", "next", "queued", "soft", "start", "asking"}]
    /\ retried \subseteq Callers /\ halted \subseteq Callers /\ activeJob \in Jobs \union {None}
    /\ server \in Places /\ soft \in Places /\ start \in Places \union {"hook"}
    /\ tear \in {"none", "start", "soft", "kill"}
    /\ {latched, fellBack, forGood, idleTimer} \subseteq BOOLEAN
    /\ chat \in {"none", "start", "soft", "kill", "loading", "beside"}

TransInit ==
    /\ call = [c \in Callers |-> "none"]
    /\ retried = {} /\ halted = {} /\ activeJob = None
    /\ server = "none" /\ start = "none" /\ soft = "none" /\ tear = "none"
    /\ latched = FALSE /\ fellBack = FALSE /\ forGood = FALSE /\ idleTimer = FALSE
    /\ chat = "none"

----------------------------------------------------------------------------
(* Jobs and their windows. *)

\* variant: asks for an open workspace alone
TextWhileOpen == db
AdmitsText    == Admits

\* The view's start(); the document task comes through its own queue.
StartsText(c) ==
    /\ AdmitsText /\ call[c] = "none"
    /\ IF c = TaskCall THEN UNCHANGED activeJob
       ELSE activeJob = None /\ call[TaskCall] = "none" /\ activeJob' = c
    /\ call' = [call EXCEPT ![c] = "next"]
    /\ UNCHANGED <<retried, halted, serverVars, chat>>

InCall(f) == {c \in Callers : f[c] \notin {"none", "next"}}

\* The idle clock runs for a server nobody uses.
Armed(f, srv, st) ==
    srv # "none" /\ st = "none" /\ tear = "none" /\ ~forGood /\ InCall(f) = {}

TextOver(c) ==
    /\ call' = [call EXCEPT ![c] = "none"]
    /\ activeJob' = IF activeJob = c THEN None ELSE activeJob
    /\ retried' = retried \ {c} /\ halted' = halted \ {c}

\* The next window, or the end.
WindowOver(c) ==
    \/ TextOver(c)
    \/ /\ call' = [call EXCEPT ![c] = "next"] /\ retried' = retried \ {c}
       /\ UNCHANGED <<halted, activeJob>>

\* The view gives its job up, the task marks the window.
WindowLost(c) == IF c = TaskCall THEN WindowOver(c) ELSE TextOver(c)

\* An error is tried once more, on whatever server there is by then.
WindowFails(c) ==
    IF c \in retried THEN WindowLost(c)
    ELSE /\ call' = [call EXCEPT ![c] = "next"] /\ retried' = retried \union {c}
         /\ UNCHANGED <<halted, activeJob>>

StopsText(C) == halted' = halted \union {c \in C : call[c] # "none"}

\* The view is free at once, while the cancelled job still unwinds.
CancelText(c) ==
    /\ call[c] # "none" /\ c \notin halted /\ StopsText({c})
    /\ activeJob' = IF activeJob = c THEN None ELSE activeJob
    /\ UNCHANGED <<call, retried, serverVars, chat>>

\* A stopped caller leaves wherever it waits; a server it leaves idle is timed.
Unwinds(c) ==
    /\ c \in halted /\ call[c] # "none" /\ TextOver(c)
    /\ idleTimer' = IF call[c] = "next" THEN idleTimer ELSE Armed(call', server, start)
    /\ UNCHANGED <<server, start, soft, tear, latched, fellBack, forGood, chat>>

----------------------------------------------------------------------------
(* translate(): the slot, ensureStarted() and the request. *)

Queues(c) ==
    /\ call[c] = "next" /\ c \notin halted
    /\ call' = [call EXCEPT ![c] = "queued"] /\ idleTimer' = FALSE
    /\ UNCHANGED <<retried, halted, activeJob, server, start, soft, tear, latched,
                   fellBack, forGood, chat>>

SlotFree == \A c \in Callers : call[c] \notin {"soft", "start", "asking"}

Refusing == forGood \/ tear # "none"

\* variant: a soft teardown is not waited for
NeverPending == FALSE
SoftPending  == soft # "none"

\* variant: a chat start counts only once it has loaded
PosturesAlone == IF fellBack THEN {"cpu"} ELSE {"cpu", "hook"}

\* While a chat model starts the card is its own; else settings and size decide.
Postures == IF fellBack \/ chat # "none" THEN {"cpu"} ELSE {"cpu", "hook"}

Leaves(c, how) ==
    /\ how /\ idleTimer' = Armed(call', server, start)
    /\ UNCHANGED <<server, start, soft, tear, latched, fellBack, forGood>>

Joins(c) ==
    /\ call' = [call EXCEPT ![c] = "start"]
    /\ start' \in IF start = "none" THEN Postures ELSE {start}
    /\ UNCHANGED <<retried, halted, activeJob, server, soft, tear, latched, fellBack,
                   forGood, idleTimer>>

Goes(c, to) ==
    /\ call' = [call EXCEPT ![c] = to]
    /\ UNCHANGED <<retried, halted, activeJob, serverVars>>

TakesSlot(c) ==
    /\ call[c] = "queued" /\ SlotFree /\ c \notin halted
    /\ \/ Refusing /\ Leaves(c, WindowFails(c))
       \/ ~Refusing /\ latched /\ Leaves(c, TextOver(c))
       \/ ~Refusing /\ ~latched /\ server # "none" /\ Goes(c, "asking")
       \/ ~Refusing /\ ~latched /\ server = "none" /\ SoftPending /\ Goes(c, "soft")
       \/ ~Refusing /\ ~latched /\ server = "none" /\ ~SoftPending /\ Joins(c)
    /\ UNCHANGED chat

AfterSoft(c) ==
    /\ call[c] = "soft" /\ soft = "none" /\ c \notin halted
    /\ \/ Refusing /\ Leaves(c, WindowFails(c))
       \/ ~Refusing /\ server # "none" /\ Goes(c, "asking")
       \/ ~Refusing /\ server = "none" /\ Joins(c)
    /\ UNCHANGED chat

\* A clean reply, a cut one, an error; a server that is gone answers nothing.
Replied(c) ==
    /\ call[c] = "asking" /\ c \notin halted
    /\ \/ server # "none" /\ Leaves(c, WindowOver(c) \/ WindowLost(c))
       \/ Leaves(c, WindowFails(c))
    /\ UNCHANGED chat

SoftTeardown == soft' = server /\ server' = "none"

\* A server that hangs is let go, and the retry starts another.
Hangs(c) ==
    /\ call[c] = "asking" /\ c \notin halted /\ server # "none"
    /\ SoftTeardown /\ WindowFails(c) /\ idleTimer' = FALSE
    /\ UNCHANGED <<start, tear, latched, fellBack, forGood, chat>>

----------------------------------------------------------------------------
(* The server. *)

\* variant: nobody times a start whose callers have all left
NotTimed(f, srv) == idleTimer
TimedFrom(f, srv) == Armed(f, srv, "none")

Waiting == {c \in Callers : call[c] = "start"}

\* The start is over; who waited for it gets an error.
StartOver(srv) == start' = "none" /\ idleTimer' = TimedFrom(call', srv)
StartFails ==
    /\ \/ Waiting = {} /\ UNCHANGED jobsVars
       \/ \E c \in Waiting : WindowFails(c)
    /\ StartOver("none")

HookOver ==
    /\ start = "hook" /\ tear # "start" /\ start' = "card"
    /\ UNCHANGED <<jobsVars, server, soft, tear, latched, fellBack, forGood, idleTimer, chat>>

\* On the card or, for want of one, on the processor.  A teardown that begins
\* as the server comes up finds it there.
StartLands ==
    /\ start \in {"card", "cpu"} /\ server' \in {start, "cpu"}
    /\ \/ Waiting = {} /\ UNCHANGED jobsVars
       \/ \E c \in Waiting :
             IF Refusing THEN WindowFails(c)
             ELSE call' = [call EXCEPT ![c] = "asking"] /\ UNCHANGED <<retried, halted, activeJob>>
    /\ StartOver(server')
    /\ UNCHANGED <<soft, tear, latched, fellBack, forGood, chat>>

\* The port was taken, or the teardown aborted the start.
StartBreaks ==
    /\ start \in {"card", "cpu"} \/ (start = "hook" /\ tear = "start")
    /\ StartFails
    /\ UNCHANGED <<server, soft, tear, latched, fellBack, forGood, chat>>

\* The program cannot run, or the processor's attempt failed too.
StartLatches ==
    /\ start \in {"card", "cpu"} /\ tear # "start" /\ latched' = TRUE
    /\ \/ Waiting = {} /\ UNCHANGED jobsVars
       \/ \E c \in Waiting : TextOver(c)
    /\ StartOver("none")
    /\ UNCHANGED <<server, soft, tear, fellBack, forGood, chat>>

\* The processor is tried in the same start, unless nobody waits for it.
CardFails ==
    /\ start = "card" /\ tear # "start" /\ fellBack' = TRUE
    /\ IF Refusing \/ InCall(call) = {} THEN StartFails
       ELSE start' = "cpu" /\ UNCHANGED <<jobsVars, idleTimer>>
    /\ UNCHANGED <<server, soft, tear, latched, forGood, chat>>

StartStep == HookOver \/ StartLands \/ StartBreaks \/ StartLatches \/ CardFails

ServerDies ==
    /\ server # "none" /\ server' = "none" /\ fellBack' = (fellBack \/ server = "card")
    /\ UNCHANGED <<jobsVars, start, soft, tear, latched, forGood, idleTimer, chat>>

IdleFires ==
    /\ idleTimer /\ idleTimer' = FALSE
    /\ IF Armed(call, server, start) THEN SoftTeardown ELSE UNCHANGED <<server, soft>>
    /\ UNCHANGED <<jobsVars, start, tear, latched, fellBack, forGood, chat>>

SoftOver ==
    /\ soft # "none" /\ soft' = "none"
    /\ UNCHANGED <<jobsVars, server, start, tear, latched, fellBack, forGood, idleTimer, chat>>

\* A weight downloaded anew replaces an instance whose start failed.
Replaced ==
    /\ latched /\ \A c \in Callers : call[c] = "none"
    /\ latched' = FALSE /\ fellBack' = FALSE
    /\ UNCHANGED <<jobsVars, server, start, soft, tear, forGood, idleTimer, chat>>

----------------------------------------------------------------------------
(* yieldGpu(): a chat model starts. *)

ChatGoes(to) == chat' = to /\ UNCHANGED <<jobsVars, server, start, soft, tear, latched, fellBack,
                                          forGood, idleTimer>>

\* A server on the card is let go, and a kill under way is waited for.
ChatLooks ==
    IF Refusing THEN ChatGoes("beside")
    ELSE /\ chat' = IF soft = "card" THEN "soft" ELSE IF server = "card" THEN "kill" ELSE "loading"
         /\ IF chat' = "kill" THEN SoftTeardown ELSE UNCHANGED <<server, soft>>
         /\ UNCHANGED <<jobsVars, start, tear, latched, fellBack, forGood, idleTimer>>

\* A start that holds the card is let finish.
ChatStarts ==
    /\ Admits /\ chat = "none"
    /\ IF start \in {"hook", "card"} THEN ChatGoes("start") ELSE ChatLooks

\* Up, failed or stopped; or thirty seconds over, before the start that was waited for.
ChatStep ==
    \/ chat = "start" /\ start # "none" /\ ChatGoes("beside")
    \/ chat = "start" /\ start = "none" /\ ChatLooks
    \/ chat \in {"soft", "kill"} /\ soft = "none" /\ ChatGoes(IF Refusing THEN "beside" ELSE "loading")
    \/ chat \in {"loading", "beside"} /\ ChatGoes("none")

TransStep ==
    \/ \E c \in Callers : CancelText(c) \/ Unwinds(c) \/ Queues(c) \/ TakesSlot(c)
                          \/ AfterSoft(c) \/ Replied(c) \/ Hangs(c)
    \/ StartStep \/ ServerDies \/ IdleFires \/ SoftOver \/ Replaced \/ ChatStep

----------------------------------------------------------------------------
(* The teardown of a lock (suspend) and of a quit (stop). *)

\* The stages in turn: the start, then a soft teardown, then the server.
TearsDown(st) ==
    /\ tear' = IF st # "none" THEN "start" ELSE IF soft # "none" THEN "soft"
               ELSE IF server # "none" THEN "kill" ELSE "none"
    /\ server' = IF tear' = "kill" THEN "none" ELSE server
    /\ UNCHANGED <<start, soft, latched, fellBack>>

\* A second teardown shares the first.
StopsServer(good) ==
    /\ forGood' = (forGood \/ good) /\ idleTimer' = FALSE
    /\ IF tear # "none" THEN UNCHANGED <<server, start, soft, tear, latched, fellBack>>
       ELSE TearsDown(start)

TearGoesOn ==
    /\ \/ tear = "start" /\ start = "none" /\ TearsDown(start)
       \/ tear = "soft" /\ soft = "none" /\ TearsDown(start)
       \/ tear = "kill" /\ tear' = "none" /\ UNCHANGED <<server, start, soft, latched, fellBack>>
    /\ UNCHANGED <<jobsVars, forGood, idleTimer, chat>>

\* The process of the application is gone, with all it held.
ServerReaped ==
    /\ call' = [c \in Callers |-> "none"]
    /\ retried' = {} /\ halted' = {} /\ activeJob' = None
    /\ server' = "none" /\ start' = "none" /\ soft' = "none" /\ tear' = "none"
    /\ latched' = FALSE /\ fellBack' = FALSE /\ forGood' = FALSE /\ idleTimer' = FALSE
    /\ chat' = "none"

NoServer == server = "none" /\ start = "none" /\ soft = "none" /\ tear # "kill"

----------------------------------------------------------------------------
(* Properties. *)

\* Two servers never share the memory: whichever is on its way in or out, a
\* window waits for it before it starts another (idle and hung teardowns, chat
\* starts, cancelled callers, a lock; runtime.ts, ensureStarted).
OneTranslator ==
    /\ server # "none" => start = "none" /\ soft = "none" /\ tear # "kill"
    /\ start # "none" => soft = "none" /\ tear # "kill"
    /\ soft # "none" => tear # "kill"

\* A server that nobody uses is always timed, or it would hold its memory until
\* the lock: also one whose start outlived every caller that waited for it.
IdleReclaims ==
    server # "none" /\ start = "none" /\ tear = "none" /\ ~forGood /\ InCall(call) = {}
        => idleTimer

\* A chat start that has been given the card keeps it: no window, retry or late
\* start brings a translation back onto it (unless the chat start could not wait).
CardIsChats ==
    chat = "loading" /\ ~Refusing
        => server # "card" /\ soft # "card" /\ start \notin {"hook", "card"}
=============================================================================
