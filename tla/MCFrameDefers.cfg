CONSTANTS
    Methods <- ConditionalReturn
    Progs <- MCProgs
    Code <- MCCode
    ReturnsValue <- MCReturnsValue
    Objects <- MCObjects
    NoExc = NoExc
    None = NoExc
    MaxEntered = 3
    MaxRounds = 3
SPECIFICATION Spec
INVARIANT ReturnedDrained
CHECK_DEADLOCK FALSE
