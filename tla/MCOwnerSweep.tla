---------------------------- MODULE MCOwnerSweep -----------------------------
(* Four agents; limits below, inside and above the clamp. *)
EXTENDS OwnerSweep

AskedLimits == {-1, 1, 3}
=============================================================================
