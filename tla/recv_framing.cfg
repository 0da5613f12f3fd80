SPECIFICATION Spec
CONSTANTS
    Size = 9
    HeaderSize = 2
    MaxLen = 4
    Word = 64
    Lens = {1, 2, 4, 5}
    Codes <- AllCodes
    MaxMessages = 4
CHECK_DEADLOCK FALSE
INVARIANTS TypeOK BufferIsStream RoomToReceive CutForAReason
PROPERTY DeliversStream
