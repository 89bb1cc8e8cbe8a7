\* The harness's transmitter: how many get_tx_line calls a frame takes.
CONSTANTS
    ClkFreq = 7
    BaudRate = 2
    Bytes <- MCBytes
    Inputs <- MCInputs
    Designs <- MCLoopback
    MaxCycles <- MCMaxCycles
SPECIFICATION Spec
INVARIANT TxReadyAfterFrame
