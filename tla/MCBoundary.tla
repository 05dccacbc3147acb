----------------------------- MODULE MCBoundary ------------------------------
(* A small instance of the ownership boundary for TLC. *)
EXTENDS Boundary, TLC

CONSTANTS a1, a2, a3, o1, o2

(* Agents and owners are interchangeable. *)
Symmetry == Permutations(Agents) \cup Permutations(Owners)
=============================================================================
