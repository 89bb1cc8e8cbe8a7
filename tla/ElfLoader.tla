------------------------------ MODULE ElfLoader ------------------------------
(***************************************************************************)
(* load_elf() of src/sim/libSimHelper.cc: two temporary files, nm run on   *)
(* the object file, its output scanned for the entry symbol, the entry    *)
(* checked to be 0, the .text section extracted with objcopy, its size     *)
(* checked and the section read into the buffer.  The object file is      *)
(* abstracted to its symbols and the size of its .text section; nm's       *)
(* output to the lines it prints for the symbols, in the order it prints   *)
(* them; each call that can fail (mkstemp, fopen, system, fread) to an     *)
(* outcome fixed by the environment, so that the loader is deterministic   *)
(* given the object file and the environment.                              *)
(***************************************************************************)
EXTENDS Integers, Sequences, FiniteSets

CONSTANTS
    Capacity,   \* buffer_size
    Objects,    \* object files: [syms : set of [name, addr], text : size]
    StartNames  \* the symbol names in which strstr finds "_start"

\* The calls that can fail, in the order load_elf makes them.
Calls == {"mkstemp", "mkstemp_nm", "fopen_nm", "objcopy", "fopen_text", "fread"}

\* An nm output: every symbol of the object once, in some order.
NmOutputs(obj) == {s \in [1..Cardinality(obj.syms) -> obj.syms] :
                      \A x \in obj.syms : \E k \in DOMAIN s : s[k] = x}

VARIABLES
    obj,        \* the object file
    fails,      \* the calls that fail in this environment
    pc,         \* the next step of load_elf
    lines,      \* the nm output lines fgets has not yet returned
    start_addr, found_start,
    text_size,
    loaded,     \* bytes of .text that fread copied into the buffer
    result,     \* the return value
    err         \* which error message was printed

vars == <<obj, fails, pc, lines, start_addr, found_start, text_size, loaded, result, err>>

Init ==
    /\ obj \in Objects
    /\ fails \in SUBSET Calls
    /\ pc = "mkstemp"
    /\ lines \in NmOutputs(obj)
    /\ start_addr = -1 /\ found_start = FALSE    \* -1 stands for 0xFFFFFFFF
    /\ text_size = 0 /\ loaded = 0
    /\ result = 0 /\ err = "none"

\* Return -1 after the message of one error path.
Fail(e) == /\ pc' = "done" /\ result' = -1 /\ err' = e

\* Lines 172-189: the two temporary files.
MakeTemp ==
    /\ pc = "mkstemp"
    /\ IF "mkstemp" \in fails THEN Fail("file") ELSE pc' = "mkstemp_nm" /\ UNCHANGED <<result, err>>
    /\ UNCHANGED <<obj, fails, lines, start_addr, found_start, text_size, loaded>>

MakeNmTemp ==
    /\ pc = "mkstemp_nm"
    /\ IF "mkstemp_nm" \in fails THEN Fail("file") ELSE pc' = "nm" /\ UNCHANGED <<result, err>>
    /\ UNCHANGED <<obj, fails, lines, start_addr, found_start, text_size, loaded>>

\* Lines 191-201: nm writes the symbol table to the file, which is opened.
RunNm ==
    /\ pc = "nm"
    /\ IF "fopen_nm" \in fails THEN Fail("file") ELSE pc' = "scan" /\ UNCHANGED <<result, err>>
    /\ UNCHANGED <<obj, fails, lines, start_addr, found_start, text_size, loaded>>

\* Lines 206-213: one line of nm output.  The first line containing
\* "_start" whose leading address sscanf reads ends the scan.
ScanLine ==
    /\ pc = "scan" /\ lines # <<>>
    /\ IF Head(lines).name \in StartNames
       THEN /\ start_addr' = Head(lines).addr /\ found_start' = TRUE
            /\ pc' = "check" /\ UNCHANGED lines
       ELSE /\ lines' = Tail(lines)
            /\ UNCHANGED <<pc, start_addr, found_start>>
    /\ UNCHANGED <<obj, fails, text_size, loaded, result, err>>

\* Line 206: end of the nm output.
ScanEnd ==
    /\ pc = "scan" /\ lines = <<>>
    /\ pc' = "check"
    /\ UNCHANGED <<obj, fails, lines, start_addr, found_start, text_size, loaded, result, err>>

\* Lines 219-230: the entry symbol must have been found, at address 0.
CheckStart ==
    /\ pc = "check"
    /\ IF ~found_start \/ start_addr # 0 THEN Fail("entry")
       ELSE pc' = "objcopy" /\ UNCHANGED <<result, err>>
    /\ UNCHANGED <<obj, fails, lines, start_addr, found_start, text_size, loaded>>

\* Lines 233-249: objcopy extracts .text, the result is opened.
Extract ==
    /\ pc = "objcopy"
    /\ CASE "objcopy" \in fails    -> Fail("extract")
         [] "fopen_text" \in fails -> Fail("file")
         [] OTHER -> pc' = "size" /\ UNCHANGED <<result, err>>
    /\ UNCHANGED <<obj, fails, lines, start_addr, found_start, text_size, loaded>>

\* Lines 252-270: the size must be a positive multiple of 4 that fits.
CheckSize ==
    /\ pc = "size"
    /\ text_size' = obj.text
    /\ CASE obj.text = 0 \/ obj.text % 4 # 0 -> Fail("size")
         [] obj.text > Capacity             -> Fail("bounds")
         [] OTHER -> pc' = "read" /\ UNCHANGED <<result, err>>
    /\ UNCHANGED <<obj, fails, lines, start_addr, found_start, loaded>>

\* Lines 272-291: fread copies the section (a short read copies part of
\* it and fails), the files are removed, the size is returned.
ReadText ==
    /\ pc = "read"
    /\ IF "fread" \in fails
       THEN /\ Fail("file") /\ loaded' \in 0..text_size - 1
       ELSE /\ pc' = "done" /\ result' = text_size /\ loaded' = text_size
            /\ UNCHANGED err
    /\ UNCHANGED <<obj, fails, lines, start_addr, found_start, text_size>>

Returned == pc = "done" /\ UNCHANGED vars

Next == MakeTemp \/ MakeNmTemp \/ RunNm \/ ScanLine \/ ScanEnd \/ CheckStart
        \/ Extract \/ CheckSize \/ ReadText \/ Returned

Spec == Init /\ [][Next]_vars /\ WF_vars(Next)

-----------------------------------------------------------------------------
(***************************************************************************)
(* The object-file mode of spec.md section 4.1: the entry symbol _start    *)
(* must exist and be at address 0 (EntryPointError), checked before any    *)
(* extraction; a failed extraction is an ExtractionError; the section must *)
(* be a positive multiple of 4 bytes (SizeError) that fits (OutOfBounds);  *)
(* a file that cannot be made, opened or read is a FileError.              *)
(***************************************************************************)
EntryAddrs(o) == {s.addr : s \in {x \in o.syms : x.name = "_start"}}

RefLoad(o, f) ==
    CASE f \cap {"mkstemp", "mkstemp_nm", "fopen_nm"} # {} -> "file"
      [] EntryAddrs(o) # {0}               -> "entry"
      [] "objcopy" \in f                   -> "extract"
      [] "fopen_text" \in f                -> "file"
      [] o.text = 0 \/ o.text % 4 # 0      -> "size"
      [] o.text > Capacity                 -> "bounds"
      [] "fread" \in f                     -> "file"
      [] OTHER                             -> "none"

\* When load_elf returns, it reports the error the specification gives for
\* this object file and environment, or loads the whole section and
\* returns its size: the entry point it checks is that of _start.
MatchesSpec ==
    pc = "done" =>
        /\ err = RefLoad(obj, fails)
        /\ (err = "none") => (result = obj.text /\ loaded = obj.text)

=============================================================================
