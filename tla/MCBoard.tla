------------------------------- MODULE MCBoard -------------------------------
(* Small instances of one conversation for TLC. *)
EXTENDS Board, TLC

CONSTANTS r1, r2, a1, a2, a3, h1, h2

(* Requests, agents and holds are interchangeable. *)
Symmetry == Permutations(Requests) \cup Permutations(Agents) \cup Permutations(Holds)
=============================================================================
