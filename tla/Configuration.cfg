CONSTANTS
    Files <- MCFiles
    Unreadable <- MCUnreadable
    Sources <- MCSources
    Users = {"u1", "u2"}
    MemberOf <- MCMemberOf
    RUNTIME_ID_MAX_LENGTH = 4
    DefaultTag = "docker"
SPECIFICATION Spec
INVARIANTS
    TableAsRead
    ControlledAccess
    CreatedAsConfigured
