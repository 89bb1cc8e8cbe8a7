----------------------------- MODULE ByteStream -----------------------------
(***************************************************************************)
(* What a serial link promises its user: the bytes put on the line come    *)
(* out at the other end one at a time, in the order they were sent, none   *)
(* lost, none duplicated, none invented.  input is the sequence of bytes   *)
(* the sender has put on the line, delivered what the receiver has handed *)
(* on.                                                                     *)
(***************************************************************************)
EXTENDS Naturals, Sequences

CONSTANT Bytes

VARIABLES input, delivered

vars == <<input, delivered>>

Init == /\ input \in Seq(Bytes)
        /\ delivered = <<>>

\* The sender puts one more byte on the line.
Send(b) == /\ input' = Append(input, b)
           /\ UNCHANGED delivered

\* The receiver hands on the next byte of the input.
Deliver == /\ Len(delivered) < Len(input)
           /\ delivered' = Append(delivered, input[Len(delivered) + 1])
           /\ UNCHANGED input

\* Both in one step: a byte goes on the line as the receiver hands one on.
SendDeliver(b) == /\ input' = Append(input, b)
                  /\ delivered' = Append(delivered, input'[Len(delivered) + 1])

Next == Deliver \/ \E b \in Bytes : Send(b) \/ SendDeliver(b)

Spec == Init /\ [][Next]_vars

FairSpec == Spec /\ WF_vars(Deliver)

=============================================================================
