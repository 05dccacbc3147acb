----------------------------- MODULE MCProposals -----------------------------
(* Small instances of the proposal pipeline for TLC. *)
EXTENDS ProposalsImplement, TLC

CONSTANTS r1, r2, r3, r4, h1, h2, h3, k1, k2, p1, p2, d1, d2, o1, o2

(* Requests, rows, payloads and digests are interchangeable. *)
Symmetry == Permutations(Requests) \cup Permutations(Holds)
            \cup Permutations(Payloads) \cup Permutations(Digests)

(* A proposal for the bot's own brain needs its owner. *)
OwnBrain == [k \in Keys |-> {o1}]

(* A cross-brain proposal needs the bot's owner and the target's. *)
CrossBrain == [k \in Keys |-> IF k \in CrossKeys THEN {o1, o2} ELSE {o1}]
=============================================================================
