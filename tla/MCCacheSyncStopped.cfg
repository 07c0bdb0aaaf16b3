SPECIFICATION Spec
CONSTANTS
    Rooms = {r1}
    Ctx = {c1, c2}
    NoCtx = NoCtx
    NoRoom = NoRoom
    BatchSize = 2
    MaxLen = 2
    MaxVer = 3
    MaxCrashes = 1
    MaxFaults = 1
CHECK_DEADLOCK FALSE
INVARIANT DeletedRoomStopped
