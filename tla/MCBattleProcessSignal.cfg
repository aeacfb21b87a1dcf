SPECIFICATION Spec
CONSTANTS
    MaxSignals = 1
    MaxWire = 1
PROPERTY SignalShutsDown
CHECK_DEADLOCK FALSE
