---------------------------- MODULE MCReadCursor -----------------------------
(* Two concurrent reads of one participant. *)
EXTENDS ReadCursor, TLC

CONSTANTS r1, r2

Symmetry == Permutations(Readers)
=============================================================================
