CONSTANTS
    FifoSize = 3
    Bytes <- MCBytes
    MaxTyped = 4
    MaxCycles = 6
SPECIFICATION Spec
INVARIANT TypeOK
PROPERTY HandshakeRefined
PROPERTY QueueRefined
PROPERTY FlagsSettledAfterJoin
PROPERTY StopCauseTerminates
