SPECIFICATION Spec
CONSTANTS
    TimerTasks = {}
    ThreadTasks = {w1}
    ScriptTasks = {}
    ScriptSettled = {}
    Continuations = {k1}
    MaxFrames = 1
    None = None
INVARIANT AwaitersResumed
CHECK_DEADLOCK FALSE
