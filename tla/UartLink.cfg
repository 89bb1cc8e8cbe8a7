\* The loopback and a design transmitter with one extra stop cycle.
CONSTANTS
    ClkFreq = 7
    BaudRate = 2
    Bytes <- MCBytes
    Inputs <- MCInputs
    Designs <- MCDesigns
    MaxCycles <- MCMaxCycles
SPECIFICATION Spec
INVARIANT TypeOK
PROPERTY ByteStreamRefined
PROPERTY AllDelivered
