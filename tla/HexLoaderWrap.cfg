\* A directive two bytes below the top of the 5-bit address space: the
\* bounds check current_addr + bytes_to_write > buffer_size wraps.
CONSTANTS
    AddrBits = 5
    BufSize = 8
    MCAddrs = {0, 30}
    Files <- MCFiles
SPECIFICATION Spec
INVARIANT WritesInBounds
