SPECIFICATION Spec
CONSTANTS
    s1 = s1
    g = g
    b = b
    b2 = b2
    Clients = {s1}
    Conns = {b, b2}
    Services = {0, 1}
    Instances = {1}
    BoundServices = {1}
    Requesters = {}
    RegReqs <- OwnEndpoint
    Loads <- OneLoad
    None = None
INVARIANT
    SingleRegistration
CHECK_DEADLOCK FALSE
