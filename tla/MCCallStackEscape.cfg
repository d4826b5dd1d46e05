CONSTANTS
    Exceptions = {e1}
    NoExc = NoExc
    MaxFrames = 4
SPECIFICATION Spec
INVARIANT EscapedReported
CHECK_DEADLOCK FALSE
