------------------------------ MODULE UartLink ------------------------------
(***************************************************************************)
(* The bit-serial path of the simulation loop in main() (src/top.cc) with  *)
(* sim_use_par_txrx cleared: once per loop iteration the driver is ticked, *)
(* a queued host byte is handed to start_tx when the transmitter is idle,  *)
(* get_tx_line() drives the design's rx pin, the design is clocked, and    *)
(* sample_rx() decodes the design's tx pin.  Two kinds of design:          *)
(*   "loopback"  the design's tx pin follows its rx pin, so the harness's  *)
(*               own transmitter feeds its own receiver (spec.md section 8,*)
(*               first property);                                          *)
(*   "uart"      the design's own 8-N-1 transmitter sends a byte sequence *)
(*               to the harness's receiver, frames following each other    *)
(*               after a stop bit of cycles_per_bit + gap cycles.          *)
(* Designs is the set of designs considered, [kind, gap] records; which   *)
(* one is attached is chosen at the start.                                 *)
(* One step of Iteration is one iteration of the loop; the host bytes are  *)
(* all queued before the first iteration, the worst case for spacing.     *)
(***************************************************************************)
EXTENDS Integers, Sequences, SequencesExt

CONSTANTS
    ClkFreq, BaudRate,  \* constructor arguments of UARTBitDriver
    Bytes,              \* byte values the link carries
    Inputs,             \* byte sequences that are sent over the link
    Designs,            \* the designs whose tx pin the receiver decodes
    MaxCycles           \* bound on the loop iterations explored

ASSUME /\ Bytes \subseteq 0..255
       /\ Inputs \subseteq Seq(Bytes)
       /\ Designs \subseteq [kind : {"loopback", "uart"}, gap : Nat]
       /\ MaxCycles \in Nat

Drv == INSTANCE UartBitDriver

VARIABLES
    uart,           \* the UARTBitDriver object uart_driver
    pending,        \* host bytes queued for transmission (rx_fifo)
    dev,            \* the design's transmitter (design.kind = "uart")
    source,         \* the byte sequence carried to the harness's receiver
    out,            \* bytes sample_rx returned, in the order putchar wrote them
    framing_errors, \* frames sample_rx aborted
    tx_frame_start, \* cycle at which the current transmit frame started
    design          \* the design attached (never changes)

vars == <<uart, pending, dev, source, out, framing_errors, tx_frame_start, design>>

(***************************************************************************)
(* The design's transmitter: an 8-N-1 frame per byte, each bit held for    *)
(* cycles_per_bit clock cycles, the stop bit for design.gap cycles more,  *)
(* next frame's start bit right after.  cnt counts the cycles the current  *)
(* bit has been presented.  This is the environment, not harness code.     *)
(***************************************************************************)
DevBitLen(idx) == IF idx = Drv!StopBit THEN Drv!cycles_per_bit + design.gap
                  ELSE Drv!cycles_per_bit

DevStart(d) == [d EXCEPT !.q = Tail(d.q), !.cur = Head(d.q),
                         !.idx = Drv!StartBit, !.cnt = 1]

DevEdge(d) ==
    CASE d.idx = Drv!Idle /\ d.q # <<>>      -> DevStart(d)
      [] d.idx = Drv!Idle                    -> d
      [] d.cnt < DevBitLen(d.idx)            -> [d EXCEPT !.cnt = @ + 1]
      [] d.idx < Drv!StopBit                 -> [d EXCEPT !.idx = @ + 1, !.cnt = 1]
      [] d.q # <<>>                          -> DevStart(d)
      [] OTHER                               -> [d EXCEPT !.idx = Drv!Idle, !.cnt = 0]

DevLine(d) == IF d.idx = Drv!Idle THEN TRUE ELSE Drv!TxLevel(d.cur, d.idx)

Init ==
    /\ design \in Designs
    /\ uart \in Drv!NewDrivers(Bytes)
    /\ source \in Inputs
    /\ pending = IF design.kind = "loopback" THEN source ELSE <<>>
    /\ dev = [q   |-> IF design.kind = "uart" THEN source ELSE <<>>,
              cur |-> 0, idx |-> Drv!Idle, cnt |-> 0]
    /\ out = <<>>
    /\ framing_errors = 0
    /\ tx_frame_start = 0

(***************************************************************************)
(* One iteration of the while loop of main(), bit-serial branches:         *)
(*   uart_driver.tick();                                   (line 342)      *)
(*   if (fifo non-empty && uart_driver.is_idle())                          *)
(*       { start_tx(rx_fifo[head]); head++; }              (lines 382-385) *)
(*   dut->rx = uart_driver.get_tx_line();                  (line 389)      *)
(*   clk 0 / eval / clk 1 / eval                           (lines 391-394) *)
(*   received = uart_driver.sample_rx(dut->tx, &rx_byte);  (line 411)      *)
(*   if (received) putchar(rx_byte);                       (lines 413-416) *)
(***************************************************************************)
Iteration ==
    /\ uart.cycle_counter < MaxCycles
    /\ LET d0    == Drv!Tick(uart)
           start == pending # <<>> /\ Drv!IsIdle(d0)
           st    == IF start THEN Drv!StartTx(d0, Head(pending)) ELSE <<d0, FALSE>>
           tx    == Drv!GetTxLine(st[1])
           devN  == DevEdge(dev)
           pin   == IF design.kind = "loopback" THEN tx[2] ELSE DevLine(devN)
           rx    == Drv!SampleRx(tx[1], pin)
       IN  /\ uart' = rx.drv
           /\ pending' = IF start THEN Tail(pending) ELSE pending
           /\ dev' = devN
           /\ out' = IF rx.received THEN Append(out, rx.byte) ELSE out
           /\ framing_errors' = framing_errors + (IF rx.framing THEN 1 ELSE 0)
           /\ tx_frame_start' = IF st[2] THEN d0.cycle_counter ELSE tx_frame_start
           /\ UNCHANGED <<source, design>>

\* Nothing left to send on either side and the receiver idle: from here on
\* every further iteration only counts cycles and the line stays high.
Drained ==
    /\ pending = <<>> /\ Drv!IsIdle(uart)
    /\ dev.q = <<>> /\ dev.idx = Drv!Idle
    /\ uart.rx_bit_index = Drv!Idle

Quiescent == Drained /\ UNCHANGED vars

Next == Iteration \/ Quiescent

\* The loop runs one iteration after another for as long as it runs.
Spec == Init /\ [][Next]_vars /\ WF_vars(Iteration)

-----------------------------------------------------------------------------
TypeOK ==
    /\ uart \in Drv!DriverType
    /\ pending \in Seq(Bytes) /\ source \in Seq(Bytes) /\ out \in Seq(0..255)
    /\ dev.idx \in Drv!Idle..Drv!StopBit
    /\ framing_errors \in Nat
    /\ tx_frame_start \in Nat

\* The receiver's output is the byte sequence on the line, one byte at a
\* time, in order, none invented or repeated: the decoder implements the
\* ByteStream specification with the line's bytes as its input.
BS == INSTANCE ByteStream WITH input <- source, delivered <- out
ByteStreamRefined == BS!Spec

\* Every byte put on the line is eventually printed, with no frame
\* aborted on the way (sample_rx decodes back-to-back frames).
AllDelivered == <>[](out = source /\ framing_errors = 0)

\* Once both transmitters have finished and the receiver is idle, sample_rx
\* has returned every byte that was on the line.
DrainedDelivered == Drained => out = source

\* spec.md section 8: after start_tx and 10 x cycles_per_bit calls of
\* get_tx_line (one per cycle), the transmitter is ready for a new byte.
TxReadyAfterFrame ==
    ~Drv!IsIdle(uart) =>
        uart.cycle_counter - tx_frame_start + 1 < 10 * Drv!cycles_per_bit

=============================================================================
