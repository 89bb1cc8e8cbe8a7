----------------------------- MODULE MCElfLoader -----------------------------
EXTENDS ElfLoader

\* Symbols an object file may have: the entry at 0 or at 0x10, main, and
\* the linker-defined __bss_start that every newlib link provides.
StartAt0    == [name |-> "_start", addr |-> 0]
StartAt16   == [name |-> "_start", addr |-> 16]
MainSym     == [name |-> "main", addr |-> 32]
BssStart    == [name |-> "__bss_start", addr |-> 64]

\* Objects without __bss_start: entry at 0, entry at 0x10, no entry;
\* sections of 0, 6, 8 and 12 bytes against an 8-byte buffer.
MCSymTables == {{StartAt0, MainSym}, {StartAt16}, {MainSym}}
MCObjects   == [syms : MCSymTables, text : {0, 6, 8, 12}]

\* The same with a linked object's __bss_start beside an entry at 0.
MCLinkedObjects == [syms : {{StartAt0, BssStart}}, text : {8}]

\* The names containing "_start" as a substring.
MCStartNames == {"_start", "__bss_start"}
====
