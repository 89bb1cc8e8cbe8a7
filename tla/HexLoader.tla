------------------------------ MODULE HexLoader ------------------------------
(***************************************************************************)
(* init() and validate_and_load_binary() of src/sim/libSimHelper.cc: the   *)
(* instruction buffer is filled with the EBREAK pattern, then a Verilog    *)
(* hex image is read line by line and token by token into it.  A file is a *)
(* sequence of lines; the text of a line is abstracted to what the loop    *)
(* makes of it: a comment or blank line, an address directive with the     *)
(* value sscanf reads (or none), or the tokens of a data line, each the    *)
(* number of hex digits sscanf consumed and the value it produced, or a    *)
(* character sscanf cannot read.  Addresses are uint32_t in the code; here *)
(* they are AddrBits wide, the buffer BufSize bytes.                       *)
(***************************************************************************)
EXTENDS Integers, Sequences, Bitwise

CONSTANTS
    AddrBits,   \* width of current_addr and max_addr (32 in the code)
    BufSize,    \* buffer_size (0x1000000 in the code)
    Files       \* the hex files the loader is run on

AddrMod == 2^AddrBits

ASSUME AddrBits \in Nat \ {0} /\ BufSize \in 1..AddrMod

\* Lines of a file.
Comment         == [kind |-> "comment"]
Directive(a)    == [kind |-> "directive", addr |-> a]
BadDirective    == [kind |-> "baddirective"]
Data(toks)      == [kind |-> "data", toks |-> toks]
\* Tokens of a data line.
Hex(digits, v)  == [kind |-> "hex", digits |-> digits, value |-> v]
Junk            == [kind |-> "junk"]

\* EBREAK_INSTR 0x00100073, the pattern init() writes in every word.
EBREAK == 1048691
TrapByte(i) == (EBREAK \div 2^(8 * (i % 4))) % 256

\* Lines 9-17: init() fills the buffer with EBREAK, little-endian.
TrapFilled == [i \in 0..BufSize - 1 |-> TrapByte(i)]

\* Lines 125-132: the write size from the number of hex digits.
WidthOf(digits) == CASE digits <= 2 -> 1
                     [] digits <= 4 -> 2
                     [] OTHER       -> 4

(***************************************************************************)
(* Plausible slips in the two lines below: a byte taken without the 0xFF   *)
(* mask, a bounds check that also refuses a write ending at the last byte. *)
(***************************************************************************)
ByteOfUnmasked(value, i) == shiftR(value, 8 * i)

OutOfRangeEarly(addr, w) == (addr + w) % AddrMod >= BufSize

\* Line 143: byte i of a value, little-endian.
ByteOf(value, i) == shiftR(value, 8 * i) & 255

\* Line 135: the bounds check, in uint32_t arithmetic.
OutOfRange(addr, w) == (addr + w) % AddrMod > BufSize

VARIABLES
    file,           \* the file being read (never changes)
    lines,          \* lines fgets has not yet returned
    toks,           \* the rest of the data line being parsed
    current_addr,   \* uint32_t current_addr
    max_addr,       \* uint32_t max_addr
    buffer,         \* imem, the bytes inside the buffer
    stray,          \* indices written outside the buffer
    status,         \* "opening", "parsing", then "ok", "error" or "nofile"
    result          \* the return value

vars == <<file, lines, toks, current_addr, max_addr, buffer, stray, status, result>>

Init ==
    /\ file \in Files
    /\ lines = file
    /\ toks = <<>>
    /\ current_addr = 0 /\ max_addr = 0
    /\ buffer = TrapFilled
    /\ stray = {}
    /\ status = "opening"
    /\ result = 0

\* Lines 70-76: fopen of the hex file succeeds, or fails and the function
\* returns -1 (a FileError of spec.md section 7).
Open ==
    /\ status = "opening"
    /\ \/ status' = "parsing" /\ UNCHANGED result
       \/ status' = "nofile" /\ result' = -1
    /\ UNCHANGED <<file, lines, toks, current_addr, max_addr, buffer, stray>>

\* Lines 84-99: fgets returns the next line.  Comment and blank lines are
\* skipped, a directive sets the cursor or, unreadable, fails the load, a
\* data line goes to the token loop.
ReadLine ==
    /\ status = "parsing" /\ toks = <<>> /\ lines # <<>>
    /\ LET l == Head(lines) IN
       /\ lines' = Tail(lines)
       /\ CASE l.kind = "comment" ->
                 UNCHANGED <<toks, current_addr, status, result>>
            [] l.kind = "directive" ->
                 /\ current_addr' = l.addr % AddrMod
                 /\ UNCHANGED <<toks, status, result>>
            [] l.kind = "baddirective" ->
                 /\ status' = "error" /\ result' = -1
                 /\ UNCHANGED <<toks, current_addr>>
            [] l.kind = "data" ->
                 /\ toks' = l.toks
                 /\ UNCHANGED <<current_addr, status, result>>
    /\ UNCHANGED <<file, max_addr, buffer, stray>>

\* Lines 101-156: one token.  A character sscanf cannot read is skipped; a
\* value is written little-endian at the cursor after the bounds check,
\* all in uint32_t arithmetic, and the cursor and extent advance.
ParseToken ==
    /\ status = "parsing" /\ toks # <<>>
    /\ LET t     == Head(toks)
           w     == WidthOf(t.digits)
           at(i) == (current_addr + i) % AddrMod
           wrote == {at(i) : i \in 0..w - 1}
           next  == (current_addr + w) % AddrMod
       IN  IF t.kind = "junk"
           THEN /\ toks' = Tail(toks)
                /\ UNCHANGED <<current_addr, max_addr, buffer, stray, status, result>>
           ELSE IF OutOfRange(current_addr, w)
           THEN /\ status' = "error" /\ result' = -1
                /\ UNCHANGED <<toks, current_addr, max_addr, buffer, stray>>
           ELSE /\ toks' = Tail(toks)
                /\ buffer' = [j \in 0..BufSize - 1 |->
                                 IF \E i \in 0..w - 1 : at(i) = j
                                 THEN ByteOf(t.value, CHOOSE i \in 0..w - 1 : at(i) = j)
                                 ELSE buffer[j]]
                /\ stray' = stray \cup {a \in wrote : a >= BufSize}
                /\ current_addr' = next
                /\ max_addr' = IF next > max_addr THEN next ELSE max_addr
                /\ UNCHANGED <<status, result>>
    /\ UNCHANGED <<file, lines>>

\* Lines 159-167: end of file.  An extent of zero means no data.
EndOfFile ==
    /\ status = "parsing" /\ toks = <<>> /\ lines = <<>>
    /\ status' = IF max_addr = 0 THEN "error" ELSE "ok"
    /\ result' = IF max_addr = 0 THEN -1 ELSE max_addr
    /\ UNCHANGED <<file, lines, toks, current_addr, max_addr, buffer, stray>>

\* The function has returned.
Returned == status \in {"ok", "error", "nofile"} /\ UNCHANGED vars

Next == Open \/ ReadLine \/ ParseToken \/ EndOfFile \/ Returned

Spec == Init /\ [][Next]_vars /\ WF_vars(Next)

-----------------------------------------------------------------------------
(***************************************************************************)
(* The loader spec.md section 4.1 describes, as a function of the file:    *)
(* tokens are written at an unbounded cursor, a write past the capacity is *)
(* OutOfBounds, an unreadable directive a FormatError, no data at all a    *)
(* FormatError; the result is the largest extent reached.                  *)
(***************************************************************************)
RefWrite(buf, addr, t) ==
    [j \in DOMAIN buf |-> IF j \in addr..addr + WidthOf(t.digits) - 1
                          THEN ByteOf(t.value, j - addr) ELSE buf[j]]

RECURSIVE RefItems(_, _, _, _)
\* items: the lines and tokens still to read, flattened.
RefItems(items, addr, extent, buf) ==
    IF items = <<>>
    THEN IF extent = 0 THEN [ok |-> FALSE]
         ELSE [ok |-> TRUE, extent |-> extent, image |-> buf]
    ELSE LET it == Head(items) IN
         CASE it.kind \in {"comment", "junk"} ->
                RefItems(Tail(items), addr, extent, buf)
           [] it.kind = "directive" -> RefItems(Tail(items), it.addr, extent, buf)
           [] it.kind = "baddirective" -> [ok |-> FALSE]
           [] it.kind = "data" -> RefItems(it.toks \o Tail(items), addr, extent, buf)
           [] it.kind = "hex" ->
                IF addr + WidthOf(it.digits) > BufSize THEN [ok |-> FALSE]
                ELSE RefItems(Tail(items), addr + WidthOf(it.digits),
                              IF addr + WidthOf(it.digits) > extent
                              THEN addr + WidthOf(it.digits) ELSE extent,
                              RefWrite(buf, addr, it))

RefLoad(f) == RefItems(f, 0, 0, TrapFilled)

TypeOK ==
    /\ current_addr \in 0..AddrMod - 1 /\ max_addr \in 0..AddrMod - 1
    /\ buffer \in [0..BufSize - 1 -> 0..255]
    /\ stray \subseteq BufSize..AddrMod - 1
    /\ status \in {"opening", "parsing", "ok", "error", "nofile"}

\* When it returns, the loader agrees with the specified loader: a file
\* it cannot open fails, one it reads fails exactly when the specification
\* rejects it, and otherwise the loader returns the same extent and leaves
\* the same bytes in the buffer, with the EBREAK pattern wherever nothing
\* was written.
MatchesReference ==
    status \in {"ok", "error", "nofile"} =>
        LET ref == RefLoad(file) IN
        CASE status = "nofile" -> result = -1 /\ buffer = TrapFilled
          [] ref.ok -> status = "ok" /\ result = ref.extent /\ buffer = ref.image
          [] OTHER  -> status = "error" /\ result = -1

\* The loader never writes outside the buffer it was given.
WritesInBounds == stray = {}

=============================================================================
