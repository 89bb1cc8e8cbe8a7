---------------------------- MODULE MCHexLoader ----------------------------
(***************************************************************************)
(* Hex files for HexLoader: up to three lines, each a comment, an address *)
(* directive, an unreadable directive, or a data line of up to two tokens: *)
(* a byte ("ab"), a half-word written with three digits ("123"), a word    *)
(* ("04030201") or a character sscanf cannot read.                         *)
(***************************************************************************)
EXTENDS HexLoader, SequencesExt

CONSTANT MCAddrs    \* the addresses the directives name

MCTokens == {Hex(2, 171), Hex(3, 291), Hex(8, 67305985), Junk}

MCLines == {Comment, BadDirective}
           \cup {Directive(a) : a \in MCAddrs}
           \cup {Data(ts) : ts \in BoundedSeq(MCTokens, 2) \ {<<>>}}

MCFiles == BoundedSeq(MCLines, 3)

=============================================================================
