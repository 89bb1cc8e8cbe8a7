------------------------------ MODULE HostFifo ------------------------------
(***************************************************************************)
(* The host-to-design byte queue of main() (src/top.cc): the array         *)
(* rx_fifo[256] with the indices rx_fifo_head and rx_fifo_tail, one slot   *)
(* kept empty to tell full from empty.  The queue is a record [buf, head,  *)
(* tail]; the push and pop code of the loop are operators on it, used by   *)
(* this module's stand-alone specification (a producer and a consumer      *)
(* taking turns in any order) and by the Harness module's loop iteration.  *)
(***************************************************************************)
EXTENDS Naturals, Sequences

CONSTANTS
    FifoSize,   \* length of rx_fifo (256 in the code)
    Bytes,      \* byte values the host sends
    MaxOffered  \* bound on the bytes the host sends

ASSUME FifoSize \in Nat \ {0} /\ MaxOffered \in Nat

\* The queues main() can start with: both indices 0 (line 336), the array
\* uninitialised (line 335, a local array), so any contents.
NewFifos == [buf : [0..FifoSize - 1 -> Bytes], head : {0}, tail : {0}]

FifoEmpty(f) == f.head = f.tail

\* A slip the order property must notice: handing on the byte stored last
\* (rx_fifo[rx_fifo_tail - 1]) instead of the oldest one.
FifoFrontNewest(f) == f.buf[(f.tail + FifoSize - 1) % FifoSize]

\* Lines 377 and 383: the byte at the head.
FifoFront(f) == f.buf[f.head]

\* Slips the properties must notice: storing without the full test, so a
\* byte overwrites the oldest waiting one; advancing the head without the
\* wrap-around.
FifoPushUnchecked(f, ch) ==
    [f EXCEPT !.buf[f.tail] = ch, !.tail = (@ + 1) % FifoSize]

FifoPopUnwrapped(f) == [f EXCEPT !.head = @ + 1]

\* Lines 365-369: store at the tail unless the slot after it is the head,
\* in which case the byte is silently dropped.
FifoPush(f, ch) ==
    LET next_tail == (f.tail + 1) % FifoSize
    IN  IF next_tail # f.head
        THEN [f EXCEPT !.buf[f.tail] = ch, !.tail = next_tail]
        ELSE f

\* Lines 379 and 384: advance the head past the byte just handed on.
FifoPop(f) == [f EXCEPT !.head = (@ + 1) % FifoSize]

\* The bytes waiting, front first.
FifoContents(f) ==
    [i \in 1..((f.tail - f.head) % FifoSize) |-> f.buf[(f.head + i - 1) % FifoSize]]

-----------------------------------------------------------------------------
\* Stand-alone specification: the host offers bytes, the consumer takes one.
VARIABLES fifo, offered, handed

vars == <<fifo, offered, handed>>

Init == fifo \in NewFifos /\ offered = <<>> /\ handed = <<>>

\* The loop read a byte other than Ctrl+D from the host (line 356).
Enqueue(ch) == /\ Len(offered) < MaxOffered
               /\ fifo' = FifoPush(fifo, ch)
               /\ offered' = Append(offered, ch)
               /\ UNCHANGED handed

\* A consumer (the parallel handshake or the bit-level transmitter) takes
\* the front byte when the queue is not empty (lines 376-379, 382-384).
Dequeue == /\ ~FifoEmpty(fifo)
           /\ fifo' = FifoPop(fifo)
           /\ handed' = Append(handed, FifoFront(fifo))
           /\ UNCHANGED offered

Next == (\E ch \in Bytes : Enqueue(ch)) \/ Dequeue

Spec == Init /\ [][Next]_vars

TypeOK == /\ fifo.head \in 0..FifoSize - 1
          /\ fifo.tail \in 0..FifoSize - 1
          /\ fifo.buf \in [0..FifoSize - 1 -> Bytes]
          /\ offered \in Seq(Bytes) /\ handed \in Seq(Bytes)

\* The ring implements a first-in first-out queue of FifoSize - 1 bytes
\* that drops what arrives while it is full: no byte is overwritten, read
\* twice, read before it was written or handed on out of order.
Usable == INSTANCE BoundedQueue WITH
              Capacity <- FifoSize - 1, Values <- Bytes,
              queue <- FifoContents(fifo), offered <- offered,
              handed <- handed
QueueRefined == Usable!Spec

\* spec.md section 3 and 8: a queue of capacity 256 (FifoSize) keeps the
\* first 256 bytes and drops only what arrives when 256 are waiting.
Declared == INSTANCE BoundedQueue WITH
              Capacity <- FifoSize, Values <- Bytes,
              queue <- FifoContents(fifo), offered <- offered,
              handed <- handed
DeclaredCapacity == Declared!Spec
=============================================================================
