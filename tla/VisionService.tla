---------------------------- MODULE VisionService ----------------------------
(***************************************************************************)
(* Image questions (services/vision/index.ts).  A job asks for the status  *)
(* first and builds the runtime after that await, or shares the one there  *)
(* is.  stop() aborts every job, takes the runtime away and waits for its  *)
(* process to end; unlike the embedder's it is not joined by a second one. *)
(***************************************************************************)
EXTENDS Session

CONSTANT Images   \* jobs; a job may be used again once it is over

VARIABLES
    image,     \* per job: none, asking for the status, running
    stopped,   \* jobs whose signal was aborted
    activeImage,
    vision,    \* the current runtime has a process
    dying,     \* whose stop() waits for the old process: lock, quit or None
    visTearing

visionVars == <<image, stopped, activeImage, vision, dying, visTearing>>

VisionTypes ==
    /\ image \in [Images -> {"none", "asking", "running"}] /\ stopped \subseteq Images
    /\ activeImage \in Images \union {None} /\ vision \in BOOLEAN
    /\ dying \in {"lock", "quit", None} /\ visTearing \in BOOLEAN

VisionInit ==
    /\ image = [i \in Images |-> "none"] /\ stopped = {} /\ activeImage = None
    /\ vision = FALSE /\ dying = None /\ visTearing = FALSE

\* variant: asks for an open workspace alone
AdmittedWhileOpen == db

\* A question is refused for the whole of a lock, not only while stop() runs.
AdmitsImage == Admits

\* run() goes up to the status in the same turn.
Analyze(i) ==
    /\ AdmitsImage /\ activeImage = None /\ image[i] = "none" /\ ~visTearing
    /\ image' = [image EXCEPT ![i] = "asking"] /\ activeImage' = i
    /\ stopped' = stopped \ {i}
    /\ UNCHANGED <<vision, dying, visTearing>>

JobEnds(i) ==
    /\ image' = [image EXCEPT ![i] = "none"]
    /\ activeImage' = IF activeImage = i THEN None ELSE activeImage
    /\ stopped' = stopped \ {i}

Asked(i) ==
    /\ image[i] = "asking" /\ i \notin stopped /\ ~visTearing
    /\ image' = [image EXCEPT ![i] = "running"] /\ vision' = TRUE
    /\ UNCHANGED <<stopped, activeImage, dying, visTearing>>

\* Cancelled, not available, answered or failed.
ImageOver(i) ==
    /\ image[i] # "none" /\ JobEnds(i)
    /\ UNCHANGED <<vision, dying, visTearing>>

\* A start that failed is thrown away, an idle process is let go.
VisionGoes ==
    /\ vision /\ vision' = FALSE
    /\ \A i \in Images : image[i] = "running" => i \in stopped
    /\ UNCHANGED <<image, stopped, activeImage, dying, visTearing>>

CancelImage(i) ==
    /\ image[i] # "none" /\ i \notin stopped /\ stopped' = stopped \union {i}
    /\ UNCHANGED <<image, activeImage, vision, dying, visTearing>>

ImageStep == 
    \/ \E i \in Images : Asked(i) \/ ImageOver(i) \/ CancelImage(i)
    \/ VisionGoes

\* stop(); without a process it is over in the same turn.
StopVision(by) ==
    /\ stopped' = {i \in Images : image[i] # "none"} /\ vision' = FALSE
    /\ IF vision THEN dying' = by /\ visTearing' = TRUE /\ UNCHANGED activeImage
       ELSE UNCHANGED dying /\ visTearing' = FALSE /\ activeImage' = None
    /\ UNCHANGED image

VisionStopped ==
    /\ dying # None /\ dying' = None /\ visTearing' = FALSE /\ activeImage' = None
    /\ UNCHANGED <<image, stopped, vision>>
=============================================================================
