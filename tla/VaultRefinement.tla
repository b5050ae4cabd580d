-------------------------- MODULE VaultRefinement --------------------------
(***************************************************************************)
(* The vault of WorkspaceVault implements VaultPromise: whatever the files *)
(* on the drive look like half-way through an operation, one of them is    *)
(* the saved database, and start-up recovery will find that one.           *)
(***************************************************************************)
EXTENDS WorkspaceVault

\* init() would move the working file aside and unlock() roll it forward.
WouldSalvage == MaybeFresh /\ HasHeader(db)

\* The descriptor is committed and its staged snapshot not yet moved in.
WouldMoveIn == desc.ver = "v2" /\ staged[DB] # NoFile

\* unlock() would roll the .recovery file forward, after that move.
WouldRollForward ==
  HasHeader(recovery) /\ (IF WouldMoveIn THEN StagedName \in older["recovery"] ELSE Fresher)

SealedCopy == IF WouldMoveIn THEN staged[DB].body ELSE cipher[DB].body

SavedCopy == IF WouldSalvage THEN db
             ELSE IF WouldRollForward THEN recovery
             ELSE SealedCopy

Promise == INSTANCE VaultPromise WITH
             None <- Absent,
             Broken <- Noise,
             saved <- SavedCopy,
             sealed <- SealedCopy,
             shown <- IF Locked THEN Absent ELSE live,
             promised <- durable

\* The vault keeps what it promises: one saved database, never lost or mixed.
KeepsPromise == Promise!Spec
=============================================================================
