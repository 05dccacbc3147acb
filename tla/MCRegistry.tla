----------------------------- MODULE MCRegistry ------------------------------
(* Two identities of one credential, b (bare) and k (keyed). *)
EXTENDS Registry, TLC

CONSTANTS r1, r2, o1, o2, b, k

OneCredential == [s \in Subs |-> b]

Symmetry == Permutations(Requests) \cup Permutations(Owners)
=============================================================================
