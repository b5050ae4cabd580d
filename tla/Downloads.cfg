\* Two starts of a model of two files, every manifest, every leftover of an
\* earlier session, and a power cut at any point.
SPECIFICATION FairSpec
CONSTANTS
    None = None
    Files = {1, 2}
    Jobs = {1, 2}
    Declared = {2}
    Unhashed = {2}
INVARIANTS InPlaceIsWhole
PROPERTIES CancelStands NoRequestWhileOff WholePartIsKept EveryRunSettles
CHECK_DEADLOCK FALSE
