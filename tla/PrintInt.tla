------------------------------ MODULE PrintInt ------------------------------
(***************************************************************************)
(* The firmware's print library, src/sw/test/print.c: printf() walks the  *)
(* format string one character per iteration of its for loop and hands    *)
(* %d, %x and %p arguments to printint(), which converts an int with a     *)
(* do-while loop of C's truncating / and % into a 16-byte buffer and       *)
(* emits it backwards.  Characters are one-character strings; an int is   *)
(* Bits wide (32 on the RV32 target) in two's complement.  printint is an  *)
(* operator, printf a state machine whose steps are the loop's iterations.*)
(* puts() copies a string and a newline; it is called here on the same   *)
(* strings as printf, to tell its literal copy from printf's conversions. *)
(***************************************************************************)
EXTENDS Integers, Sequences, SequencesExt

CONSTANTS
    Bits,       \* width of int
    Formats,    \* format strings printf is called with
    DecArgs,    \* int arguments of %d
    HexArgs,    \* int arguments of %x and %p
    StrArgs     \* char * arguments of %s: Str(chars) or NullStr

NUL  == "\\0"           \* the terminating zero byte
OOB  == "digits[<0]"    \* the byte read in front of the array digits[]

\* A char * argument: a string, or the null pointer.
Str(chars) == [null |-> FALSE, chars |-> chars]
NullStr    == [null |-> TRUE, chars |-> <<>>]

\* Lines 68-70: a null pointer prints as "(null)".
StrText(s) == IF s.null THEN <<"(", "n", "u", "l", "l", ")">> ELSE s.chars

IntMin == -(2^(Bits - 1))
IntMax == 2^(Bits - 1) - 1
Ints   == IntMin..IntMax

\* Arithmetic of int: the result of a negation that leaves the range wraps
\* (gcc's neg on RV32; the C standard leaves it undefined).
Wrap(v) == ((v - IntMin) % 2^Bits) + IntMin

\* C's / and % on int: the quotient is truncated toward zero.
CDiv(a, b) == IF a >= 0 THEN a \div b ELSE -((-a) \div b)
CMod(a, b) == a - b * CDiv(a, b)

\* Line 17: static char digits[] = "0123456789ABCDEF", its terminator at 16.
DigitChars == <<"0", "1", "2", "3", "4", "5", "6", "7", "8", "9",
                "A", "B", "C", "D", "E", "F", NUL>>

\* Line 32: digits[x % base]; a negative index reads in front of the array.
DigitAt(idx) == IF idx >= 0 THEN DigitChars[idx + 1] ELSE OOB

\* Lines 22-28: the sign is split off only for a signed conversion.
IsNeg(xx, sgn) == sgn # 0 /\ xx < 0
Magnitude(xx, sgn) == IF IsNeg(xx, sgn) THEN Wrap(-xx) ELSE xx

\* Lines 30-33: do { buf[i++] = digits[x % base]; } while ((x /= base) != 0);
RECURSIVE DigitLoop(_, _, _)
DigitLoop(x, base, buf) ==
    LET buf2 == Append(buf, DigitAt(CMod(x, base)))
    IN  IF CDiv(x, base) # 0 THEN DigitLoop(CDiv(x, base), base, buf2) ELSE buf2

\* A slip the output property must notice: the minus sign left out.
SignedDropped(buf, neg) == buf

\* Lines 35-36: if (neg) buf[i++] = '-';
Signed(buf, neg) == IF neg THEN Append(buf, "-") ELSE buf

\* printint(xx, base, sgn): lines 38-39 emit the buffer last byte first.
PrintIntOut(xx, base, sgn) ==
    Reverse(Signed(DigitLoop(Magnitude(xx, sgn), base, <<>>), IsNeg(xx, sgn)))

\* Byte i of the format string (1-based), the terminator past its end.
CharAt(fmt, i) == IF i <= Len(fmt) THEN fmt[i] ELSE NUL

\* A slip the type invariant must notice: no check for a '%' at the end.
ConvEndNever(c) == FALSE

\* Line 57: a '%' that is the last character ends the loop.
ConvEnd(c) == c = NUL

VARIABLES
    fn,         \* the function called: "printf" or "puts"
    fmt,        \* the format string, or the string puts writes
    i,          \* the loop index
    out,        \* the characters putchar has written
    ints,       \* the int arguments va_arg has taken, in order
    strs,       \* the char * arguments va_arg has taken, in order
    done        \* the function has returned

vars == <<fn, fmt, i, out, ints, strs, done>>

Init ==
    /\ fn \in {"printf", "puts"}
    /\ fmt \in Formats
    /\ i = 1
    /\ out = <<>> /\ ints = <<>> /\ strs = <<>>
    /\ done = FALSE

\* Lines 51-55: an ordinary character is written as it is.
Literal ==
    /\ fn = "printf" /\ ~done /\ CharAt(fmt, i) \notin {NUL, "%"}
    /\ out' = Append(out, CharAt(fmt, i))
    /\ i' = i + 1
    /\ UNCHANGED <<fn, fmt, ints, strs, done>>

\* Lines 56-82: a '%' and the conversion character after it.
Conversion ==
    /\ fn = "printf" /\ ~done /\ CharAt(fmt, i) = "%"
    /\ LET c == CharAt(fmt, i + 1) IN
       IF ConvEnd(c)
       THEN /\ done' = TRUE
            /\ UNCHANGED <<i, out, ints, strs>>
       ELSE /\ i' = i + 2
            /\ done' = FALSE
            /\ \/ c = "d" /\ \E a \in DecArgs :
                     out' = out \o PrintIntOut(a, 10, 1) /\ ints' = Append(ints, a)
                     /\ UNCHANGED strs
               \/ c \in {"x", "p"} /\ \E a \in HexArgs :
                     out' = out \o PrintIntOut(a, 16, 0) /\ ints' = Append(ints, a)
                     /\ UNCHANGED strs
               \/ c = "s" /\ \E s \in StrArgs :
                     out' = out \o StrText(s) /\ strs' = Append(strs, s)
                     /\ UNCHANGED ints
               \/ c = "%" /\ out' = Append(out, "%") /\ UNCHANGED <<ints, strs>>
               \/ c \notin {"d", "x", "p", "s", "%"} /\ out' = out \o <<"%", c>>
                                                     /\ UNCHANGED <<ints, strs>>
    /\ UNCHANGED <<fn, fmt>>

\* Line 51: the terminator ends the loop.
Terminator ==
    /\ fn = "printf" /\ ~done /\ CharAt(fmt, i) = NUL
    /\ done' = TRUE
    /\ UNCHANGED <<fn, fmt, i, out, ints, strs>>

\* puts, lines 5-8: one character of the string per iteration.
PutsChar ==
    /\ fn = "puts" /\ ~done /\ CharAt(fmt, i) # NUL
    /\ out' = Append(out, CharAt(fmt, i))
    /\ i' = i + 1
    /\ UNCHANGED <<fn, fmt, ints, strs, done>>

\* puts, line 9: at the terminator, the newline.
PutsEnd ==
    /\ fn = "puts" /\ ~done /\ CharAt(fmt, i) = NUL
    /\ out' = Append(out, "\n")
    /\ done' = TRUE
    /\ UNCHANGED <<fn, fmt, i, ints, strs>>

\* printf has returned.
Returned == done /\ UNCHANGED vars

Next == Literal \/ Conversion \/ Terminator \/ PutsChar \/ PutsEnd \/ Returned

Spec == Init /\ [][Next]_vars /\ WF_vars(Next)

-----------------------------------------------------------------------------
(***************************************************************************)
(* What the conversions mean in C: %d the signed decimal value, %x and %p  *)
(* the hexadecimal digits of the value as an unsigned int, %s the string,  *)
(* %% a percent sign; the library's own choice, an unknown conversion      *)
(* echoed and a trailing '%' dropped, is kept.                             *)
(***************************************************************************)
RECURSIVE Numeral(_, _)
Numeral(n, base) ==
    IF n < base THEN <<DigitChars[n + 1]>>
    ELSE Numeral(n \div base, base) \o <<DigitChars[(n % base) + 1]>>

RefInt(v, base, signed) ==
    CASE signed /\ v < 0 -> <<"-">> \o Numeral(-v, base)
      [] v < 0           -> Numeral(v + 2^Bits, base)
      [] OTHER           -> Numeral(v, base)

RECURSIVE RefPrintf(_, _, _)
\* f: the format string still to print; is, ss: the int and the char *
\* arguments not yet consumed.
RefPrintf(f, is, ss) ==
    LET rest == Tail(Tail(f)) IN
    CASE f = <<>> -> <<>>
      [] Head(f) # "%" -> <<Head(f)>> \o RefPrintf(Tail(f), is, ss)
      [] Len(f) = 1 -> <<>>
      [] f[2] = "d" -> RefInt(Head(is), 10, TRUE) \o RefPrintf(rest, Tail(is), ss)
      [] f[2] \in {"x", "p"} -> RefInt(Head(is), 16, FALSE) \o RefPrintf(rest, Tail(is), ss)
      [] f[2] = "s" -> StrText(Head(ss)) \o RefPrintf(rest, is, Tail(ss))
      [] f[2] = "%" -> <<"%">> \o RefPrintf(rest, is, ss)
      [] OTHER -> <<"%", f[2]>> \o RefPrintf(rest, is, ss)

TypeOK ==
    /\ fn \in {"printf", "puts"}
    /\ i \in 1..Len(fmt) + 1
    /\ done \in BOOLEAN
    /\ ints \in Seq(Ints) /\ strs \in Seq(StrArgs)

\* When printf returns, it has written exactly what the format and the
\* arguments it consumed mean in C: every number with its sign and digits
\* in the right order and base, none of its bytes read outside digits[];
\* when puts returns, it has written its string, '%' and all, and a
\* newline, as C's puts does.
PrintsReference ==
    done => out = IF fn = "puts" THEN fmt \o <<"\n">> ELSE RefPrintf(fmt, ints, strs)

=============================================================================
