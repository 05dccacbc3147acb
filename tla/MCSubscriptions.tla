--------------------------- MODULE MCSubscriptions ---------------------------
(* A small instance of the subscription registry for TLC. *)
EXTENDS Subscriptions, TLC

CONSTANTS a1, a2, a3, s1, s2, q1, q2, q3, w1

(* Both sessions belong to the agent that is active at first. *)
OneAgent == [s \in Sessions |-> a1]

(* One agent has to accept or decline, one may be invited. *)
OneOfEach == [a \in Agents |-> CASE a = a1 -> "active" [] a = a2 -> "invited" [] a = a3 -> "none"]

OwnInbox == {<<a1, a1>>}

(* Sessions and requests are interchangeable. *)
Symmetry == Permutations(Sessions) \cup Permutations(Requests)
=============================================================================
