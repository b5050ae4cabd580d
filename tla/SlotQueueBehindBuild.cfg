\* One build with a second one queued behind it, and one conversation.
SPECIFICATION Spec
CONSTANTS
  j1 = j1
  j2 = j2
  j3 = j3
  c1 = c1
  c2 = c2
  d1 = d1
  Tasks <- TwoJobs
  Chats <- OneChat
  Docs <- OneDoc
  StartKinds = {"tree"}
  Nodes = 2
  NoTask = NoTask
INVARIANT OneJobAtATime
