SPECIFICATION Spec
CONSTANTS
    s1 = s1
    g = g
    b = b
    b2 = b2
    Clients = {s1}
    Conns = {g, b}
    Services = {0, 1}
    Instances = {1}
    BoundServices = {1}
    Requesters = {g, b}
    RegReqs <- Contested
    Loads <- TwoLoads
    None = None
INVARIANTS
    OnlineReachesEveryBackend
    ClientSeesRegistered
    NoStaleInstanceEntry
CHECK_DEADLOCK FALSE
