------------------------------ MODULE ImageLoad ------------------------------
(***************************************************************************)
(* The start of main() in src/top.cc up to the first clock edge: init()    *)
(* fills imem with the EBREAK pattern, validate_and_load_binary() loads    *)
(* the hex image into it (the HexLoader module, which this one extends),   *)
(* a failed load ends main() with 1, and the image is copied word by word  *)
(* into the design's SRAM array top.sram0.mem before reset.  The SRAM     *)
(* holds BufSize bytes, as imem does (both 0x1000000 in the code).  A      *)
(* 32-bit SRAM word is its four bytes, least significant first: its value, *)
(* sum of b[k] * 2^(8k), does not fit TLC's integers.                      *)
(***************************************************************************)
EXTENDS HexLoader

CONSTANT
    SramInit    \* the words the design's memory can hold before the copy

VARIABLES
    phase,      \* where main() is
    i,          \* the copy loop's index into imem
    sram,       \* top__DOT__sram0__DOT__mem, BufSize \div 4 words
    sram_reset  \* ghost: the SRAM as the design initialised it

loader == vars
image_vars == <<loader, phase, i, sram, sram_reset>>

SramWords == 0..BufSize \div 4 - 1

\* Lines 313-316: the word assembled from four bytes of imem.
Word(buf, at) == <<buf[at], buf[at + 1], buf[at + 2], buf[at + 3]>>

\* Slips the image property must notice: a loop that copies only whole
\* words (i + 4 <= bytes_loaded), or one word too many (i <= bytes_loaded).
CopyMoreShort(at, bytes_loaded) == at + 4 <= bytes_loaded /\ at < BufSize
CopyMoreLong(at, bytes_loaded) == at <= bytes_loaded /\ at < BufSize

\* Line 312: the loop condition.
CopyMore(at, bytes_loaded) == at < bytes_loaded /\ at < BufSize

\* Verilator gives the memory its initial contents before main() copies:
\* zero, or per word a value chosen at reset, depending on the build.
ImageInit ==
    /\ Init
    /\ phase = "load"
    /\ i = 0
    /\ sram \in [SramWords -> SramInit]
    /\ sram_reset = sram

\* Lines 250-253: init() and one step of validate_and_load_binary().
Load ==
    /\ phase = "load"
    /\ Open \/ ReadLine \/ ParseToken \/ EndOfFile
    /\ UNCHANGED <<phase, i, sram, sram_reset>>

\* Lines 254-257: the load failed; main() returns 1.
LoadFailed ==
    /\ phase = "load" /\ status \in {"error", "nofile"}
    /\ phase' = "exited"
    /\ UNCHANGED <<loader, i, sram, sram_reset>>

\* Lines 261-301: the PTY, the design, the monitor thread and the trace
\* file, whose fopen can fail (main() returns 1; see Harness).
SetUp ==
    /\ phase = "load" /\ status = "ok"
    /\ phase' \in {"copy", "exited"}
    /\ UNCHANGED <<loader, i, sram, sram_reset>>

\* Lines 312-318: one iteration of the copy loop.
CopyWord ==
    /\ phase = "copy" /\ CopyMore(i, result)
    /\ sram' = [sram EXCEPT ![i \div 4] = Word(buffer, i)]
    /\ i' = i + 4
    /\ UNCHANGED <<loader, phase, sram_reset>>

\* Lines 312 and 321-323: the loop ends and the design is reset.
CopyDone ==
    /\ phase = "copy" /\ ~CopyMore(i, result)
    /\ phase' = "reset"
    /\ UNCHANGED <<loader, i, sram, sram_reset>>

\* The rest of main() is the Harness module.
Stopped == phase \in {"reset", "exited"} /\ UNCHANGED image_vars

ImageNext == Load \/ LoadFailed \/ SetUp \/ CopyWord \/ CopyDone \/ Stopped

ImageSpec == ImageInit /\ [][ImageNext]_image_vars /\ WF_image_vars(ImageNext)

-----------------------------------------------------------------------------
ImageTypeOK ==
    /\ TypeOK
    /\ phase \in {"load", "copy", "reset", "exited"}
    /\ i \in 0..BufSize + 3
    /\ sram \in [SramWords -> SramInit \cup [1..4 -> 0..255]]
    /\ sram_reset \in [SramWords -> SramInit]

\* When the design leaves reset, every SRAM word that holds a byte of the
\* program holds the loaded image, least significant byte first, the last,
\* partial word completed with the EBREAK bytes init() left in imem; and,
\* as the comment at line 303 intends ("only write what we need"), every
\* word past the program still holds what the design started with.
SramHoldsImage ==
    phase = "reset" =>
        LET ref == RefLoad(file) IN
        \A w \in SramWords :
            IF 4 * w < ref.extent THEN sram[w] = Word(ref.image, 4 * w)
                                  ELSE sram[w] = sram_reset[w]

=============================================================================
