\* Two requests beside one job, with stops, switches and crashes
\* of the model, key rotations, settings changes, locks and failed locks.
SPECIFICATION FairSpec
CONSTANTS
  chat = chat
  job = job
  r1 = r1
  r2 = r2
  Chats <- None
  Jobs <- OneJob
  Requests <- TwoRequests
  Nobody = Nobody
  MaxOps = 2
INVARIANTS
  LaneCountsLiveStreams InAppWaitsItsTurn NoStrandedWaiter
  OldKeyStopsWorking ListenerFollowsTheSetting
PROPERTIES EveryRequestAnswered
