----------------------------- MODULE MCUartLink -----------------------------
(* Model values for UartLink: cycles_per_bit = 7 \div 2 = 3 (an odd bit     *)
(* time, so the mid-bit sample falls at offset 1 and the floor of the       *)
(* division is exercised), three byte values whose bits differ (all low,   *)
(* alternating 0x5A, all high) and every sequence of at most two of them.   *)
EXTENDS UartLink

MCBytes == {0, 90, 255}

MCInputs == BoundedSeq(MCBytes, 2)

\* Two frames of 10 x 3 cycles plus the stop-bit extensions fit in 70.
MCMaxCycles == 70

\* The designs of the passing run: the loopback, and a transmitter whose
\* stop bit lasts one cycle longer than a bit time.
MCDesigns == {[kind |-> "loopback", gap |-> 0], [kind |-> "uart", gap |-> 1]}

\* A transmitter sending frames back to back after a stop bit of exactly
\* one bit time, as 8-N-1 permits.
MCBackToBack == {[kind |-> "uart", gap |-> 0]}

\* The loopback alone: the harness's own transmitter.
MCLoopback == {[kind |-> "loopback", gap |-> 0]}
=============================================================================
