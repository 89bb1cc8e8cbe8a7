---------------------------- MODULE UartBitDriver ----------------------------
(***************************************************************************)
(* The class UARTBitDriver of src/top.cc: a bit-level 8-N-1 serial codec   *)
(* driven by a cycle counter.  The object is a record whose fields are the *)
(* class's data members; every method is an operator from the object (and  *)
(* its arguments) to the object after the call, paired with the method's   *)
(* return value.  The modules that drive the codec (UartLink, Harness)     *)
(* call these operators in the order the simulation loop calls the methods.*)
(***************************************************************************)
EXTENDS Integers, Bitwise

CONSTANTS
    ClkFreq,    \* clk_freq argument of the constructor (default 50 MHz)
    BaudRate    \* baud_rate argument of the constructor (default 115200)

ASSUME ClkFreq \in Nat /\ BaudRate \in Nat \ {0}

\* tx_bit_index / rx_bit_index: -1 idle, 0 start, 1..8 data, 9 stop.
Idle    == -1
StartBit == 0
StopBit == 9
FrameEnd == 10

\* The constructor's integer division: floor(clk_freq / baud_rate).
cycles_per_bit == ClkFreq \div BaudRate

\* Bit k (0 = least significant) of a byte.
BitOf(byte, k) == (byte \div 2^k) % 2

\* The objects the constructor can produce.  tx_byte is not in the
\* constructor's initialiser list, so it holds whatever the stack held;
\* it is never read before start_tx writes it.
NewDrivers(ByteValues) ==
    { [cycle_counter      |-> 0,
       tx_byte            |-> b,
       tx_bit_index       |-> Idle,
       tx_bit_start_cycle |-> 0,
       rx_bit_index       |-> Idle,
       rx_bit_start_cycle |-> 0,
       rx_byte            |-> 0,
       rx_line_prev       |-> TRUE] : b \in ByteValues }

DriverType ==
    [cycle_counter : Nat, tx_byte : 0..255, tx_bit_index : Idle..StopBit,
     tx_bit_start_cycle : Nat, rx_bit_index : Idle..StopBit,
     rx_bit_start_cycle : Nat, rx_byte : 0..255, rx_line_prev : BOOLEAN]

\* tick(): one more clock cycle.
Tick(d) == [d EXCEPT !.cycle_counter = @ + 1]

\* is_idle(): no transmission in progress.
IsIdle(d) == d.tx_bit_index = Idle

\* start_tx(byte): refuses while a frame is in progress, otherwise latches
\* the byte and enters the start bit at the current cycle.
StartTx(d, byte) ==
    IF d.tx_bit_index # Idle
    THEN <<d, FALSE>>
    ELSE <<[d EXCEPT !.tx_byte = byte,
                     !.tx_bit_index = StartBit,
                     !.tx_bit_start_cycle = d.cycle_counter], TRUE>>

\* The level get_tx_line() presents for a bit index: start low, data bits
\* least significant first, stop (and the index -1 reached on completion) high.
TxLevel(byte, idx) ==
    CASE idx = StartBit -> FALSE
      [] idx \in 1..8   -> BitOf(byte, idx - 1) = 1
      [] OTHER          -> TRUE

\* get_tx_line(): advance at most one bit when a full bit time has elapsed
\* since the current bit began, then return the level of the (new) bit.
GetTxLine(d) ==
    IF d.tx_bit_index = Idle
    THEN <<d, TRUE>>
    ELSE LET advance == d.cycle_counter - d.tx_bit_start_cycle >= cycles_per_bit
             next    == d.tx_bit_index + 1
             idx     == IF ~advance THEN d.tx_bit_index
                        ELSE IF next >= FrameEnd THEN Idle ELSE next
         IN  <<[d EXCEPT !.tx_bit_index = idx,
                         !.tx_bit_start_cycle = IF advance THEN d.cycle_counter
                                                ELSE @],
               TxLevel(d.tx_byte, idx)>>

(***************************************************************************)
(* Plausible slips in the receive code, each replacing one of the three    *)
(* operators below in a check that the properties notice it: a window     *)
(* that never opens, bits stored one place too high, a frame that runs one *)
(* index too far.                                                          *)
(***************************************************************************)
RxMidBitEmpty(elapsed) ==
    elapsed >= cycles_per_bit \div 2 /\ elapsed < cycles_per_bit \div 2

RxSetBitShifted(byte, idx) == byte | 2^idx

RxFrameDoneLate(idx) == idx + 1 > FrameEnd

\* Line 174: the single-cycle sampling window at the middle of a bit.
RxMidBit(elapsed) ==
    elapsed >= cycles_per_bit \div 2 /\ elapsed < cycles_per_bit \div 2 + 1

\* Line 186: data bit idx (1..8) sampled high sets bit idx - 1 of rx_byte.
RxSetBit(byte, idx) == byte | 2^(idx - 1)

\* Line 203: advancing past the stop bit completes the frame.
RxFrameDone(idx) == idx + 1 >= FrameEnd

\* sample_rx(rx_line, &byte_out): falling-edge detection while idle, one
\* sample per bit in the single-cycle window at the middle of the bit, a
\* framing error on a high start bit or a low stop bit, and the decoded byte
\* returned when the stop bit's period has fully elapsed.  The result
\* carries the new object, the return value, *byte_out (meaningful only when
\* a byte was received) and whether a framing error aborted the frame.
SampleRx(d, rx_line) ==
    LET edge    == d.rx_bit_index = Idle /\ d.rx_line_prev /\ ~rx_line
        d1      == [d EXCEPT !.rx_bit_index       = IF edge THEN StartBit ELSE @,
                             !.rx_bit_start_cycle = IF edge THEN d.cycle_counter ELSE @,
                             !.rx_byte            = IF edge THEN 0 ELSE @,
                             !.rx_line_prev       = rx_line]
        idx     == d1.rx_bit_index
        elapsed == d1.cycle_counter - d1.rx_bit_start_cycle
        mid     == RxMidBit(elapsed)
        framing == mid /\ \/ idx = StartBit /\ rx_line
                          \/ idx = StopBit /\ ~rx_line
        acc     == IF mid /\ idx \in 1..8 /\ rx_line
                   THEN RxSetBit(d1.rx_byte, idx) ELSE d1.rx_byte
        advance == elapsed >= cycles_per_bit
        Result(obj, got, err) ==
            [drv |-> obj, received |-> got, byte |-> acc, framing |-> err]
    IN  CASE idx = Idle -> Result(d1, FALSE, FALSE)
          [] framing    -> Result([d1 EXCEPT !.rx_bit_index = Idle], FALSE, TRUE)
          [] advance /\ RxFrameDone(idx) ->
                Result([d1 EXCEPT !.rx_byte = acc, !.rx_bit_index = Idle,
                                  !.rx_bit_start_cycle = d1.cycle_counter], TRUE, FALSE)
          [] advance ->
                Result([d1 EXCEPT !.rx_byte = acc, !.rx_bit_index = idx + 1,
                                  !.rx_bit_start_cycle = d1.cycle_counter], FALSE, FALSE)
          [] OTHER   -> Result([d1 EXCEPT !.rx_byte = acc], FALSE, FALSE)

=============================================================================
