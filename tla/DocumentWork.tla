---------------------------- MODULE DocumentWork ----------------------------
(***************************************************************************)
(* Imports and re-indexes (ipc/registerDocsIpc.ts,                         *)
(* services/ingestion/index.ts) and the embedder they feed                 *)
(* (services/embeddings/e5.ts).                                            *)
(*                                                                         *)
(* A job takes its documents in order under one document-work lease.  An   *)
(* import opens the next document while the current one is embedded; it    *)
(* reads the user's own file and writes an encrypted copy.  A re-index     *)
(* reads the encrypted copy through a decrypted one, which is registered   *)
(* for the sweep of a lock before it is written.                           *)
(***************************************************************************)
EXTENDS Session

CONSTANT DocCount   \* bound: documents of one job

ASSUME DocCountAssumption == DocCount \in Nat \ {0}

VARIABLES
    job,        \* "none", "import" or "reindex"
    current,    \* the document the loop waits for; 0 when it drains
    last,       \* the last document of the job
    cancelled,  \* the user cancelled the re-index
    lease,      \* document-work leases: a password change is refused
    phase,      \* per document
    copy,       \* per document: its decrypted copy on disk
    docStale,   \* per document: the handle it captured was closed
    emb, embTearing, embStopped  \* the sidecar; a teardown runs; it was the last

jobVars  == <<job, current, last, cancelled, lease>>
docVars  == <<phase, copy, docStale>>
embVars  == <<emb, embTearing, embStopped>>
workVars == <<jobVars, docVars, embVars>>

Docs == 1..DocCount
\* A document is a registered plaintext operation while it prepares.
Preparing    == {"opening", "parsing"}
InPrepare(d) == phase[d] \in Preparing

WorkTypes ==
    /\ job \in {"none", "import", "reindex"} /\ current \in 0..DocCount /\ last \in Docs
    /\ cancelled \in BOOLEAN /\ lease \in 0..1
    /\ phase \in [Docs -> Preparing \union {"waiting", "ready", "embedding", "over"}]
    /\ copy \in [Docs -> {"none", "part", "clear", "swept"}] /\ docStale \in [Docs -> BOOLEAN]
    /\ emb \in {"down", "starting", "up"} /\ embTearing \in BOOLEAN /\ embStopped \in BOOLEAN

WorkInit ==
    /\ job = "none" /\ current = 0 /\ last = DocCount /\ cancelled = FALSE /\ lease = 0
    /\ phase = [d \in Docs |-> "waiting"] /\ copy = [d \in Docs |-> "none"]
    /\ docStale = [d \in Docs |-> FALSE]
    /\ emb = "down" /\ embTearing = FALSE /\ embStopped = FALSE

----------------------------------------------------------------------------
(* One document: prepareDocument(), and finalizeDocument() in the same turn  *)
(* of the event loop when the loop waits for it.                             *)

Moves(d, to)  == phase' = [phase EXCEPT ![d] = to]
Copies(d, to) == copy' = [copy EXCEPT ![d] = to]

\* ensureStarted(): refused while it is torn down, or for good.
Embeddable == ~embTearing /\ ~embStopped

\* No look at the latch between the two halves, and no signal either.
Finalizes(d, before) ==
    /\ phase' = [before EXCEPT ![d] = IF Embeddable THEN "embedding" ELSE "over"]
    /\ emb' = IF Embeddable /\ emb = "down" THEN "starting" ELSE emb

\* The decrypted copy is written under another name first.
Decrypting(d) ==
    /\ phase[d] = "opening" /\ job = "reindex" /\ copy[d] = "none"
    /\ Copies(d, "part") /\ UNCHANGED <<phase, docStale, jobVars, embVars>>

\* A rename finds nothing when the sweep took the file.
OpensFile(d) ==
    /\ phase[d] = "opening" /\ (job = "reindex" => copy[d] = "part")
    /\ db /\ ~docStale[d]
    /\ Moves(d, "parsing") /\ Copies(d, IF job = "reindex" THEN "clear" ELSE "none")
    /\ UNCHANGED <<docStale, jobVars, embVars>>

\* The parse is over and its chunks are written.
Prepared(d) ==
    /\ phase[d] = "parsing" /\ db /\ ~docStale[d]
    /\ IF current = d THEN Finalizes(d, phase) ELSE Moves(d, "ready") /\ UNCHANGED emb
    /\ Copies(d, "none") /\ UNCHANGED <<docStale, jobVars, embTearing, embStopped>>

\* A bad file, an abort that a parser heeds, a swept copy, a closed handle.
PrepareFails(d) ==
    /\ InPrepare(d) /\ Moves(d, "over") /\ Copies(d, "none")
    /\ UNCHANGED <<docStale, jobVars, embVars>>

\* Indexed or failed, as far as the handle still takes it.
Embedded(d) ==
    /\ phase[d] = "embedding" /\ emb = "up" /\ Moves(d, "over")
    /\ UNCHANGED <<copy, docStale, jobVars, embVars>>

DocStep(d) == Decrypting(d) \/ OpensFile(d) \/ Prepared(d) \/ PrepareFails(d) \/ Embedded(d)

----------------------------------------------------------------------------
(* The loop of a job. *)

\* An import opens the document after this one too.
ToOpen(kind, d, end) == {e \in {d} \union (IF kind = "import" THEN {d + 1} ELSE {}) : e <= end}

Opened(ds, before) ==
    [e \in Docs |-> IF e \in ds /\ before[e] = "waiting" THEN "opening" ELSE before[e]]

\* What is opened now has the handle of now.
Handles(ds, before) ==
    docStale' = [e \in Docs |-> IF e \in ds /\ before[e] = "waiting" THEN FALSE ELSE docStale[e]]

AllWaiting == [d \in Docs |-> "waiting"]

TakesJob(kind, end) ==
    /\ job = "none" /\ Admits
    /\ job' = kind /\ current' = 1 /\ last' = end /\ cancelled' = FALSE /\ lease' = lease + 1
    /\ phase' = Opened(ToOpen(kind, 1, end), AllWaiting)
    /\ Handles(ToOpen(kind, 1, end), AllWaiting)
    /\ UNCHANGED <<copy, embVars>>

CancelReindex ==
    /\ job = "reindex" /\ ~cancelled /\ cancelled' = TRUE
    /\ UNCHANGED <<job, current, last, lease, docVars, embVars>>

Settled == \A d \in Docs : ~InPrepare(d)

\* variant: the look-ahead is not waited for
Undrained == TRUE

\* The look-ahead a lock interrupted is waited for.
Drained == Settled

\* The loop is over, by its last document, a cancel or a lock that has begun.
Stops == current = last \/ cancelled \/ ~Admits

\* The lease is given back in a `finally`.
LeaseAfter == lease - 1

JobOver ==
    /\ job' = "none" /\ current' = 0 /\ lease' = LeaseAfter
    /\ phase' = [d \in Docs |-> IF InPrepare(d) THEN phase[d] ELSE "waiting"]
    /\ UNCHANGED <<last, cancelled, copy, docStale, embVars>>

\* The current document is over: the next one, which may be ready by now.
NextDocument ==
    LET next == current + 1
        ds   == ToOpen(job, next, last)
    IN  /\ current # 0 /\ phase[current] = "over" /\ ~Stops
        /\ current' = next /\ Handles(ds, phase)
        /\ IF phase[next] = "ready" THEN Finalizes(next, Opened(ds, phase))
           ELSE phase' = Opened(ds, phase) /\ UNCHANGED emb
        /\ UNCHANGED <<job, last, cancelled, lease, copy, embTearing, embStopped>>

JobStops ==
    /\ current # 0 /\ phase[current] = "over" /\ Stops
    /\ IF Drained THEN JobOver
       ELSE current' = 0 /\ UNCHANGED <<job, last, cancelled, lease, docVars, embVars>>

JobDrained == job # "none" /\ current = 0 /\ Drained /\ JobOver

JobStep == NextDocument \/ JobStops \/ JobDrained

----------------------------------------------------------------------------
(* The embedder. *)

EmbedderUp ==
    /\ emb = "starting" /\ ~embTearing /\ emb' = "up"
    /\ UNCHANGED <<jobVars, docVars, embTearing, embStopped>>

\* Whoever waited for a process that is gone fails.
EmbedderGone ==
    /\ emb' = "down" /\ UNCHANGED <<copy, docStale, jobVars, embStopped>>
    /\ phase' = [d \in Docs |-> IF phase[d] = "embedding" THEN "over" ELSE phase[d]]

\* It did not come up, or it crashed.
EmbedderDies == emb # "down" /\ ~embTearing /\ UNCHANGED embTearing /\ EmbedderGone

----------------------------------------------------------------------------
(* What a lock and a quit ask of this part. *)

Suspend == embTearing' = TRUE /\ UNCHANGED <<emb, embStopped>>

StopForGood == embTearing' = TRUE /\ embStopped' = TRUE /\ UNCHANGED emb

EmbedderTornDown == embTearing /\ embTearing' = FALSE /\ EmbedderGone

\* Assumed: a decrypt creates its file within the bound a teardown waits.
OpenedByThen == \A d \in Docs : phase[d] = "opening" /\ job = "reindex" => copy[d] # "none"

\* variant: the sweep does not know the name a copy is staged under
SweptFinal ==
    [d \in Docs |-> IF InPrepare(d) /\ copy[d] = "clear" THEN "swept" ELSE copy[d]]

\* sweepRegistered() takes a copy under either name.
Swept == [d \in Docs |-> IF InPrepare(d) /\ copy[d] # "none" THEN "swept" ELSE copy[d]]

WorkAfterSeal == docStale' = [d \in Docs |-> phase[d] # "waiting" \/ docStale[d]]

\* The lease is out as long as a document is opened or parsed, so a password
\* change never rewrites the encrypted copies under it.
LeaseCoversWork == lease = 0 => \A d \in Docs : ~InPrepare(d)
=============================================================================
