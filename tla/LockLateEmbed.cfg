\* A document whose parse ends during a lock starts the search model again.
SPECIFICATION Spec
CONSTANTS
    None = None
    DocCount = 1
    Images = {1}
    Jobs = {j1}
    TaskCall = task
    Mixes <- Alone
INVARIANT NothingOutlivesTheLock
CHECK_DEADLOCK FALSE
