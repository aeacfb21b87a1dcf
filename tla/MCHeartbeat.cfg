SPECIFICATION FairSpec
CONSTANTS
    Timeout = 3
    MaxPings = 3
    MaxPushes = 2
INVARIANT PingUnderway
PROPERTIES AnsweredNotClosed SilentPeerClosed
CHECK_DEADLOCK FALSE
