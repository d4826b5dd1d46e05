CONSTANTS
    Methods <- AllMethods
    Progs <- MCProgs
    Code <- MCCode
    ReturnsValue <- MCReturnsValue
    Objects <- MCObjects
    NoExc = NoExc
    None = NoExc
    MaxEntered = 3
    MaxRounds = 3
SPECIFICATION FairSpec
INVARIANTS
    Conforms
    TypeOK
    DepthCoversDrains
    RaisedHasException
    UnhandledDrained
    DispatchConsistent
PROPERTY
    Terminates
CHECK_DEADLOCK FALSE
