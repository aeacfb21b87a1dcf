SPECIFICATION FairSpec
CONSTANTS
    s1 = s1
    g = g
    b = b
    b2 = b2
    Clients = {s1}
    Conns = {g}
    Services = {0, 1}
    Instances = {1}
    BoundServices = {1}
    Requesters = {g}
    RegReqs <- OwnEndpoint
    Loads <- OneLoad
    None = None
PROPERTIES
    UnauthenticatedClosed
    CloseTakesEffect
CHECK_DEADLOCK FALSE
