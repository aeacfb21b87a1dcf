SPECIFICATION FairSpec
CONSTANTS
    r1 = r1  r2 = r2  r3 = r3
    Requests = {r1, r2, r3}
    MaxId = 2
    None = None
INVARIANTS NoLeakedEntry NoWaitAcrossDisconnect OwnAnswer
PROPERTY EveryCallEnds
CHECK_DEADLOCK FALSE
