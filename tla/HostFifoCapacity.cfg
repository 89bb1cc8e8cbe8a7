CONSTANTS
    FifoSize = 4
    Bytes <- MCBytes
    MaxOffered = 7
SPECIFICATION Spec
PROPERTY DeclaredCapacity
\* The queue stands still once the host has sent its bytes and all were taken.
CHECK_DEADLOCK FALSE
