SPECIFICATION FairSpec
CONSTANTS
    s1 = s1  s2 = s2  s3 = s3  t1 = t1  t2 = t2  t3 = t3  a1 = a1  a2 = a2
    i1 = i1  i2 = i2  i3 = i3
    Tasks = {t1, t2}
    Sessions = {s1, s2}
    Accounts = {a1, a2}
    None = None
    SessionOf <- Pair
    Knows <- GoesOn
    Insts = {i1}
    InstsOf <- OneEach
    MaxFrames <- AloneDuel
    MaxEvents = 1
INVARIANT TypeOK
PROPERTY StoppedTaskEnds
CHECK_DEADLOCK FALSE
