CONSTANTS
    Methods <- BreakInTry
    Progs <- MCProgs
    Code <- MCCode
    ReturnsValue <- MCReturnsValue
    Objects <- MCObjects
    NoExc = NoExc
    None = NoExc
    MaxEntered = 3
    MaxRounds = 3
SPECIFICATION Spec
INVARIANT HandlersMatchScope
CHECK_DEADLOCK FALSE
