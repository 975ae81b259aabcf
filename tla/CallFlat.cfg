CONSTANTS
    Runtimes = {r1, r2}
    r1 = r1
    r2 = r2
    MaxCalls = 4
    MaxDepth = 1
    MaxOps = 2
    Faults = {"backend", "early", "sqlerror", "interrupt", "crash", "runon"}
SPECIFICATION Spec
CHECK_DEADLOCK FALSE
INVARIANTS
    ReplyFits
    ReadyWhenIdle
PROPERTIES
    CancelKillsContainer
