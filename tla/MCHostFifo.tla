------------------------------ MODULE MCHostFifo ------------------------------
(* rx_fifo shrunk from 256 to 4 slots: the full/empty test is the same     *)
(* expression for every size, and 4 lets the indices wrap twice within     *)
(* MaxOffered = 7 bytes.  Two byte values tell order apart.                 *)
EXTENDS HostFifo

MCBytes == {1, 2}
=============================================================================
