CONSTANTS
    Exceptions = {e1}
    NoExc = NoExc
    MaxFrames = 5
SPECIFICATION FairSpec
INVARIANTS
    ActiveFramesAlive
    FramesAccounted
    StackMatchesActivations
PROPERTY
    AbortEnds
CHECK_DEADLOCK FALSE
