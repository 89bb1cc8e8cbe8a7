----------------------------- MODULE MCPrintInt -----------------------------
(***************************************************************************)
(* printf over every format string of up to three characters drawn from   *)
(* a literal, '%', the conversions the library knows and one it does not,  *)
(* with 8-bit ints: the digit loop, the sign and the reversal behave the   *)
(* same at every width, and 8 bits reach both ends of the range.           *)
(***************************************************************************)
EXTENDS PrintInt

MCFormats == BoundedSeq({"a", "%", "d", "x", "p", "s", "q"}, 3)

\* Strings of %s: one character, empty, and the null pointer.
MCStrArgs == {Str(<<"b">>), Str(<<>>), NullStr}

\* %d over negative, zero, one- and two-digit and extreme values, all but
\* the most negative int; %x and %p over values with the sign bit clear.
MCDecArgs == {-127, -10, -1, 0, 9, 10, 127}
MCHexArgs == {0, 15, 16, 127}

\* %x of an int with the sign bit set, as csr_test prints 0xdeadbeef and
\* trap_entry prints mcause: -17 is 0xEF in 8 bits.
MCNegHexArgs == {-17}

\* %d of the most negative int, whose negation at line 25 overflows.
MCIntMinArgs == {IntMin}

=============================================================================
