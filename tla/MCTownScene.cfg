SPECIFICATION FairSpec
CONSTANTS
    s1 = s1
    s2 = s2
    t1 = t1
    t2 = t2
    p1 = p1
    p2 = p2
    k1 = k1
    k2 = k2
    Sessions = {s1, s2}
    Players = {p1, p2}
    Keys = {k1, k2}
    Visits <- OneMoves
    States = {x}
    Tasks = {t1}
    Owner <- TaskOwner
    Dispatcher = dispatcher
    None = None
INVARIANTS
    SceneIdsSound
    PlayerIndexAgrees
    SessionIndexSound
PROPERTY
    TownFollowsGame
CHECK_DEADLOCK FALSE
