\* One session, its locks, a quit and a session end, against a turn that searches,
\* an import or re-index of up to three documents, two image questions, or a job of
\* the Translate view beside a document translation and chat starts.
SPECIFICATION FairSpec
CONSTANTS
    None = None
    DocCount = 3
    Images = {1, 2}
    Jobs = {j1}
    TaskCall = task
    Mixes <- Alone
INVARIANTS
    AnswersSurvive PlaintextGoneWhenLocked LeaseCoversWork VisionStaysDown
    TranslationStaysDown OneTranslator IdleReclaims CardIsChats
PROPERTIES TeardownsEnd
CHECK_DEADLOCK FALSE
