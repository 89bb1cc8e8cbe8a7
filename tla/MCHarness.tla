------------------------------ MODULE MCHarness ------------------------------
(* rx_fifo shrunk to 2 slots (one usable), so that a byte typed while the   *)
(* design holds off the handshake is dropped; two byte values tell order    *)
(* apart; up to 3 bytes typed (Ctrl+D among the choices) over 6 iterations. *)
EXTENDS Harness

MCBytes == {1, 2}
=============================================================================
