\* A design transmitter sending frames back to back after a stop bit of
\* exactly one bit time, as 8-N-1 permits.
CONSTANTS
    ClkFreq = 7
    BaudRate = 2
    Bytes <- MCBytes
    Inputs <- MCInputs
    Designs <- MCBackToBack
    MaxCycles <- MCMaxCycles
SPECIFICATION Spec
INVARIANT DrainedDelivered
