CONSTANTS
    PLC_BUFFER_SIZE = 5
    PLC_BUFFER_MIN_FREE = 1
    MaxChunk = 9
    Chunks = {1, 9}
    Parts = {3}
    MaxBytes = 16
SPECIFICATION Spec
INVARIANTS
    BoundsOK
    MoveIsDisjoint
    RecvHasRoom
    StreamIntact
    SizeBounded
