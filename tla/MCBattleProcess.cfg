SPECIFICATION Spec
CONSTANTS
    MaxSignals = 2
    MaxWire = 2
INVARIANTS TypeOK EventOrder HandleNotStale EndsAfterClose
PROPERTIES SignalWhileLooping LossEnds ImplementsBattleRooms
CHECK_DEADLOCK FALSE
