CONSTANTS
    MaxObjects = 2
    MaxLocal = 1
    Statics = {s1}
    Literals = {l1}
    MaxFrames = 2
    MaxEval = 2
    MaxSteps = 9
SPECIFICATION Spec
INVARIANTS RefCountExact OwnedAlive
CHECK_DEADLOCK FALSE
