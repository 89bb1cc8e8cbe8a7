---------------------------- MODULE MCImageLoad ----------------------------
(***************************************************************************)
(* The hex files of MCHexLoader, and two SRAM starting contents: the     *)
(* zero words of a default Verilator build and a word of random bits.     *)
(***************************************************************************)
EXTENDS ImageLoad, MCHexLoader

MCSramInit == {<<0, 0, 0, 0>>, <<90, 165, 60, 195>>}

=============================================================================
