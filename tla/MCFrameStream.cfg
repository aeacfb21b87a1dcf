\* Frames shorter than a header, of the two legal lengths, and too long; a
\* receive buffer smaller than the longest frame.
CONSTANTS
    LenSize = 2
    HeaderSize = 3
    MaxLen = 4
    RdSize = 3
    Lens = {1, 2, 3, 4, 5}
    MaxFlight = 2
    MaxWire = 4
    None = 0
SPECIFICATION Spec
INVARIANTS
    TypeOK
    RoomToRead
PROPERTIES
    ImplementsFrameQueue
    ClosesForCause
    EveryFrameArrives
CHECK_DEADLOCK FALSE
