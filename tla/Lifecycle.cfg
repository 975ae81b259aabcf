CONSTANTS
    MaxContainers = 2
    MAX_CONTAINER_NUMBER = 2
    StartTries = 2
    InspectTries = 2
    DeleteTries = 1
    CleanupTries = 2
    Faults = {"api", "start", "crash", "terminate", "kill"}

SPECIFICATION FairSpec

INVARIANT CleanerOutlivesContainer
INVARIANT RunningHasEntry
PROPERTY NoKillUnderQE
PROPERTY ContainersGoAway

CHECK_DEADLOCK FALSE
