------------------------------ MODULE Harness ------------------------------
(***************************************************************************)
(* main() of src/top.cc with the threads it runs: the main thread (start-  *)
(* up, the cycle loop, shutdown), the EBREAK monitor thread                *)
(* ebreak_monitor_thread, and the SIGINT handler signal_handler, which     *)
(* share the flags interrupted and ebreak_hit.  The loop is modelled in    *)
(* the configuration the code sets at line 328, sim_use_par_txrx = 1: host *)
(* bytes go through rx_fifo to the design's parallel port par_rx under the *)
(* par_rx_valid / par_rx_ack handshake, and the design's par_tx /          *)
(* par_tx_valid are copied to stdout.  (The bit-serial branch is UartLink.)*)
(* In this branch uart_driver is only ticked and get_tx_line() returns the *)
(* idle level, so the driver is left out.                                  *)
(*                                                                         *)
(* The design is the environment.  It is assumed to take a presented byte  *)
(* at a clock edge when par_rx_valid is set and it did not acknowledge at  *)
(* the previous edge, raising par_rx_ack for exactly that edge; to echo    *)
(* every byte it takes on par_tx with a one-edge par_tx_valid pulse; and   *)
(* to raise break_hit (EBREAK, held) or $finish at any edge.               *)
(***************************************************************************)
EXTENDS Integers, Sequences, SequencesExt

CONSTANTS
    FifoSize,   \* length of rx_fifo (256 in the code)
    Bytes,      \* byte values the operator types, other than Ctrl+D
    MaxTyped,   \* bound on the bytes the operator types
    MaxCycles   \* bound on the loop iterations explored

CtrlD == 4      \* the byte that ends the simulation (line 360)
NoData == -1    \* read() returned 0 or -1: no byte this iteration

ASSUME /\ Bytes \subseteq 0..255 \ {CtrlD}
       /\ MaxTyped \in Nat /\ MaxCycles \in Nat

VARIABLES
    phase,          \* where the main thread is
    mon,            \* where the monitor thread is
    interrupted,    \* volatile sig_atomic_t interrupted
    ebreak_hit,     \* volatile sig_atomic_t ebreak_hit
    fifo,           \* rx_fifo, rx_fifo_head, rx_fifo_tail
    cycle,          \* int cycle
    par_rx, par_rx_valid,   \* design inputs the loop drives
    par_rx_ack,             \* design output the loop reads
    par_tx, par_tx_valid,   \* design outputs the loop copies to stdout
    break_hit, finish,      \* design's EBREAK output; Verilated::gotFinish()
    echo,           \* bytes the design has taken and not yet echoed
    typed,          \* every byte read() returned, in order
    queued,         \* the bytes that went into rx_fifo (not dropped)
    taken,          \* the bytes the design took from par_rx
    out             \* the bytes written to stdout

vars == <<phase, mon, interrupted, ebreak_hit, fifo, cycle, par_rx,
          par_rx_valid, par_rx_ack, par_tx, par_tx_valid, break_hit, finish,
          echo, typed, queued, taken, out>>

Q == INSTANCE HostFifo WITH fifo <- fifo, offered <- queued, handed <- taken,
                            MaxOffered <- MaxTyped

Init ==
    /\ phase = "start"
    /\ mon = "none"
    /\ interrupted = FALSE
    /\ ebreak_hit = FALSE
    /\ fifo \in Q!NewFifos
    /\ cycle = 0
    /\ par_rx \in Bytes             \* never initialised by the harness
    /\ par_rx_valid = FALSE         \* Verilator zero-initialises inputs
    /\ par_rx_ack = FALSE
    /\ par_tx = 0 /\ par_tx_valid = FALSE
    /\ break_hit = FALSE /\ finish = FALSE
    /\ echo = <<>> /\ typed = <<>> /\ queued = <<>> /\ taken = <<>> /\ out = <<>>

Alive == phase # "exited"     \* the process has not returned from main()

dut     == <<par_rx, par_rx_valid, par_rx_ack, par_tx, par_tx_valid, break_hit, finish, echo>>
ghosts  == <<typed, queued, taken, out>>

(***************************************************************************)
(* Main thread                                                             *)
(***************************************************************************)
\* Lines 284-288: global_dut = dut; pthread_create(ebreak_monitor_thread).
StartMonitor ==
    /\ phase = "start"
    /\ phase' = "open" /\ mon' = "check"
    /\ UNCHANGED <<interrupted, ebreak_hit, fifo, cycle, dut, ghosts>>

\* Lines 290-294: fopen of the trace file.  On failure main() returns 1 at
\* once: the monitor is neither stopped nor joined and the VCD not closed.
TraceOpenFails ==
    /\ phase = "open"
    /\ phase' = "exited"
    /\ UNCHANGED <<mon, interrupted, ebreak_hit, fifo, cycle, dut, ghosts>>

\* Lines 295-338: header, idle inputs, program load, the reset edges with
\* resetn low (the design's outputs come out of reset low), the parallel
\* path selected, the loop variables set.
TraceOpened ==
    /\ phase = "open"
    /\ phase' = "loop"
    /\ UNCHANGED <<mon, interrupted, ebreak_hit, fifo, cycle, dut, ghosts>>

\* The condition of the while loop (line 340).
Running == ~finish /\ ~interrupted /\ ~ebreak_hit

\* What read() can return this iteration (lines 348-350, non-blocking).
Reads == IF Len(typed) < MaxTyped THEN {NoData, CtrlD} \cup Bytes ELSE {NoData}

\* Lines 360-363: Ctrl+D read, the loop is left by break.
CtrlDRead ==
    /\ phase = "loop" /\ Running
    /\ CtrlD \in Reads
    /\ phase' = "stopping"
    /\ typed' = Append(typed, CtrlD)
    /\ UNCHANGED <<mon, interrupted, ebreak_hit, fifo, cycle, dut, queued, taken, out>>

\* A slip the handshake property must notice: presenting the next byte
\* without waiting for the design to take the one presented.
HandshakeEager(f, rx, valid, ack) ==
    LET load == ~Q!FifoEmpty(f)
    IN  [fifo |-> IF load THEN Q!FifoPop(f) ELSE f,
         par_rx |-> IF load THEN Q!FifoFront(f) ELSE rx,
         par_rx_valid |-> valid \/ load]

\* Lines 372-380: an acknowledge clears par_rx_valid; with par_rx_valid
\* clear, the byte at the head of rx_fifo is presented on par_rx.
Handshake(f, rx, valid, ack) ==
    LET v1   == valid /\ ~ack
        load == ~v1 /\ ~Q!FifoEmpty(f)
    IN  [fifo |-> IF load THEN Q!FifoPop(f) ELSE f,
         par_rx |-> IF load THEN Q!FifoFront(f) ELSE rx,
         par_rx_valid |-> v1 \/ load]

\* Lines 341-431, one iteration, for a read() result r other than Ctrl+D:
\* queue the byte (365-369), the handshake (372-380), one clock cycle in
\* which the design acts (391-394), the copy of par_tx to stdout (407-416).
\* accept: the design is ready to take a presented byte at this edge;
\* halt: the design raises break_hit or calls $finish at this edge.
Iteration ==
    /\ phase = "loop" /\ Running
    /\ cycle < MaxCycles
    /\ \E r \in Reads \ {CtrlD}, accept \in BOOLEAN, halt \in {"none", "break", "finish"} :
        LET f1   == IF r = NoData THEN fifo ELSE Q!FifoPush(fifo, r)
            hs   == Handshake(f1, par_rx, par_rx_valid, par_rx_ack)
            rx   == hs.par_rx
            take == hs.par_rx_valid /\ ~par_rx_ack /\ accept
            emit == echo # <<>>
        IN  /\ fifo' = hs.fifo
            /\ par_rx' = rx
            /\ par_rx_valid' = hs.par_rx_valid
            /\ par_rx_ack' = take
            /\ par_tx_valid' = emit
            /\ par_tx' = IF emit THEN Head(echo) ELSE par_tx
            /\ echo' = (IF emit THEN Tail(echo) ELSE echo) \o (IF take THEN <<rx>> ELSE <<>>)
            /\ break_hit' = (break_hit \/ halt = "break")
            /\ finish' = (finish \/ halt = "finish")
            /\ out' = IF emit THEN Append(out, Head(echo)) ELSE out
            /\ typed' = IF r = NoData THEN typed ELSE Append(typed, r)
            /\ queued' = IF r # NoData /\ f1 # fifo THEN Append(queued, r) ELSE queued
            /\ taken' = IF take THEN Append(taken, rx) ELSE taken
            /\ cycle' = cycle + 1
            /\ UNCHANGED <<phase, mon, interrupted, ebreak_hit>>

\* Line 340: the loop condition is false.
LoopExit ==
    /\ phase = "loop" /\ ~Running
    /\ phase' = "stopping"
    /\ UNCHANGED <<mon, interrupted, ebreak_hit, fifo, cycle, dut, ghosts>>

\* Line 434: interrupted = 1 to stop the monitor.
StopMonitor ==
    /\ phase = "stopping"
    /\ interrupted' = TRUE /\ phase' = "joining"
    /\ UNCHANGED <<mon, ebreak_hit, fifo, cycle, dut, ghosts>>

\* A slip the shutdown property must notice: going on without waiting for
\* the monitor (a detached thread, a missing pthread_join).
JoinNoWait ==
    /\ phase = "joining"
    /\ phase' = "final"
    /\ UNCHANGED <<mon, interrupted, ebreak_hit, fifo, cycle, dut, ghosts>>

\* Line 435: pthread_join returns once the monitor has returned.
Join ==
    /\ phase = "joining" /\ mon = "done"
    /\ phase' = "final"
    /\ UNCHANGED <<mon, interrupted, ebreak_hit, fifo, cycle, dut, ghosts>>

\* Lines 437-471: statistics, VCD closed, data memory dumped to the trace,
\* the design deleted, return 0.
Finalize ==
    /\ phase = "final"
    /\ phase' = "exited"
    /\ UNCHANGED <<mon, interrupted, ebreak_hit, fifo, cycle, dut, ghosts>>

(***************************************************************************)
(* Monitor thread (lines 69-82) and signal handler (lines 61-66)           *)
(***************************************************************************)
\* A slip the termination property must notice: a monitor loop that only
\* looks at ebreak_hit, never at interrupted.
MonitorCheckBreakOnly ==
    /\ Alive /\ mon = "check"
    /\ mon' = IF ebreak_hit THEN "done" ELSE "poll"
    /\ UNCHANGED <<phase, interrupted, ebreak_hit, fifo, cycle, dut, ghosts>>

\* The while condition: leave when either flag is set, else sleep(1).
MonitorCheck ==
    /\ Alive /\ mon = "check"
    /\ mon' = IF interrupted \/ ebreak_hit THEN "done" ELSE "poll"
    /\ UNCHANGED <<phase, interrupted, ebreak_hit, fifo, cycle, dut, ghosts>>

\* After the sleep: global_dut->break_hit read; if set, ebreak_hit = 1, break.
MonitorPoll ==
    /\ Alive /\ mon = "poll"
    /\ mon' = IF break_hit THEN "done" ELSE "check"
    /\ ebreak_hit' = (ebreak_hit \/ break_hit)
    /\ UNCHANGED <<phase, interrupted, fifo, cycle, dut, ghosts>>

\* SIGINT, delivered at any moment while the process runs.
SigInt ==
    /\ Alive /\ ~interrupted
    /\ interrupted' = TRUE
    /\ UNCHANGED <<phase, mon, ebreak_hit, fifo, cycle, dut, ghosts>>

\* The process has returned from main(): nothing runs any more.
Exited == ~Alive /\ UNCHANGED vars

MainThread == StartMonitor \/ TraceOpenFails \/ TraceOpened \/ CtrlDRead
              \/ Iteration \/ LoopExit \/ StopMonitor \/ Join \/ Finalize

MonitorThread == MonitorCheck \/ MonitorPoll

Next == MainThread \/ MonitorThread \/ SigInt \/ Exited

\* Both threads are scheduled whenever they can run.  What the operator
\* types, SIGINT and the design's choices come with no guarantee.
Spec == Init /\ [][Next]_vars /\ WF_vars(MainThread) /\ WF_vars(MonitorThread)

-----------------------------------------------------------------------------
TypeOK ==
    /\ phase \in {"start", "open", "loop", "stopping", "joining", "final", "exited"}
    /\ mon \in {"none", "check", "poll", "done"}
    /\ interrupted \in BOOLEAN /\ ebreak_hit \in BOOLEAN
    /\ Q!TypeOK
    /\ cycle \in 0..MaxCycles
    /\ par_rx \in Bytes /\ par_rx_valid \in BOOLEAN /\ par_rx_ack \in BOOLEAN
    /\ echo \in Seq(Bytes) /\ taken \in Seq(Bytes) /\ out \in Seq(Bytes)
    /\ typed \in Seq(Bytes \cup {CtrlD})

\* The handshake hands the design the bytes that entered rx_fifo, each
\* once, in order: none overwritten before the design took it, none
\* presented twice.
Handed == INSTANCE ByteStream WITH input <- queued, delivered <- taken
HandshakeRefined == Handed!Spec

\* The byte on par_rx that the design has not yet acknowledged.
Presented == IF par_rx_valid /\ ~par_rx_ack THEN <<par_rx>> ELSE <<>>

\* rx_fifo, pushed and popped within one loop iteration, is a first-in
\* first-out queue of FifoSize - 1 bytes of what read() returned, and what
\* leaves it is what par_rx presents: a byte typed while the ring is full
\* is dropped, and none is lost, overwritten, presented twice or ahead of
\* one typed earlier.
Ring == INSTANCE BoundedQueue WITH
            Capacity <- FifoSize - 1, Values <- Bytes,
            queue <- Q!FifoContents(fifo),
            offered <- SelectSeq(typed, LAMBDA b : b # CtrlD),
            handed <- taken \o Presented
QueueRefined == Ring!Spec

\* Once main() has joined the monitor (and while it writes the statistics,
\* the VCD and the trace) neither flag changes: no thread writes them.
FlagsSettledAfterJoin ==
    [][(phase \in {"final", "exited"}) =>
          (UNCHANGED <<interrupted, ebreak_hit>>)]_vars

\* A SIGINT, the design's EBREAK or $finish ends the run: the loop is left,
\* the monitor stops and is joined, and main() returns.
StopCauseTerminates ==
    (interrupted \/ break_hit \/ finish) ~> (phase = "exited")

=============================================================================
