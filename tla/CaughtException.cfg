CONSTANTS
    Runtimes = {r1}
    r1 = r1
    MaxCalls = 3
    MaxDepth = 2
    MaxOps = 1
    Faults = {"catch"}
SPECIFICATION Spec
CHECK_DEADLOCK FALSE
INVARIANT NoMutualWait
