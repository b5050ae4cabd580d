\* Three jobs (a queue behind a running one, and the extract a deep index
\* chains), two conversations, one document, with cancels, Stops, locks, model
\* stops, crashes and skill runs.
SPECIFICATION FairSpec
CONSTANTS
  j1 = j1
  j2 = j2
  j3 = j3
  c1 = c1
  c2 = c2
  d1 = d1
  Tasks <- ThreeJobs
  Chats <- TwoChats
  Docs <- OneDoc
  StartKinds = {"deep", "summary"}
  Nodes = 2
  NoTask = NoTask
INVARIANTS
  OneJobWithoutAQueue NoWaiterForgotten ParkedHasAWayBack
PROPERTIES
  NoAnswerIsStarved EveryTaskEnds
