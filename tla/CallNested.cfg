CONSTANTS
    Runtimes = {r1, r2}
    r1 = r1
    r2 = r2
    MaxCalls = 3
    MaxDepth = 3
    MaxOps = 3
    Faults = {"backend", "early", "sqlerror", "crash"}
SPECIFICATION FairSpec
CHECK_DEADLOCK FALSE
INVARIANTS
    AnswerMatches
    AnswersReachAsker
    NoMutualWait
PROPERTIES
    SessionSpec
    EveryCallEnds
