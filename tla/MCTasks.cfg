SPECIFICATION Spec
CONSTANTS
    TimerTasks = {d1}
    ThreadTasks = {w1}
    ScriptTasks = {s1}
    ScriptSettled = {s1}
    Continuations = {k1}
    MaxFrames = 2
    None = None
INVARIANTS RootedWhilePending FrameOwnersExact PendingHasSource SendsHitLiveHandle
PROPERTIES WaitEnds ScopesArePromises
CHECK_DEADLOCK FALSE
