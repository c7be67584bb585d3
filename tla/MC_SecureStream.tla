-------------------------- MODULE MC_SecureStream --------------------------
(***************************************************************************)
(* Messages: the shortest there are, one that is longer, and one whose     *)
(* length does not fit the header.                                         *)
(***************************************************************************)
EXTENDS SecureStream

Message(name, size) == [name |-> name, size |-> size]
Short == Message("short", 1)
Long == Message("long", 2)
Oversized == Message("oversized", 5)

WithOversized == {Short, Long, Oversized}
TwoEach == [p \in Ends |-> 2]
=============================================================================
