CONSTANTS
    Runtimes = {r1}
    r1 = r1
    MaxCalls = 4
    MaxDepth = 2
    MaxOps = 2
    Faults = {"backend", "early", "sqlerror", "interrupt", "crash", "catch", "raise", "runon", "lateplan"}
SPECIFICATION Spec
CHECK_DEADLOCK FALSE
INVARIANTS
    TypeOK
    SingleAnswer
PROPERTIES
    InnermostEndsFirst
