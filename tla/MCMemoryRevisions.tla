------------------------- MODULE MCMemoryRevisions -------------------------
(* Small instances of MemoryRevisions for TLC. *)
EXTENDS MemoryRevisions, TLC

Symmetry == Permutations(Text \ {Original}) \cup Permutations(Conn)
=============================================================================
