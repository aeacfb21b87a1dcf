SPECIFICATION Spec
CONSTANTS
    s1 = s1  s2 = s2  s3 = s3
    b0 = b0  b1 = b1  b2 = b2  b3 = b3  b4 = b4
    Sessions = {s1, s2, s3}
    Battles = {b0, b1, b2, b3, b4}
    ZeroId = b0
    MaxRooms = 3
    MaxSessions = 2
    FrameMod = 2
    None = None
SYMMETRY SessionsAndBattles
INVARIANTS RoutesAgree CapacityKept ManagerPresent InputOfOwnBattle TickedRoomHasPlayers
CHECK_DEADLOCK FALSE
