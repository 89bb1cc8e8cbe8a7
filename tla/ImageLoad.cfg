\* The loader and the SRAM copy on files whose directives stay below the
\* top of the 5-bit address space: 7 is the last byte of the 8-byte buffer
\* (two SRAM words), 5 leaves room for a half-word but not for a word.
CONSTANTS
    AddrBits = 5
    BufSize = 8
    MCAddrs = {0, 5, 7}
    Files <- MCFiles
    SramInit <- MCSramInit
SPECIFICATION ImageSpec
INVARIANTS
    ImageTypeOK
    MatchesReference
    SramHoldsImage
