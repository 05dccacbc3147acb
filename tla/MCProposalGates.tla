--------------------------- MODULE MCProposalGates ---------------------------
(* Settings of every form; the integers lie below, inside and above what   *)
(* is accepted.                                                            *)
EXTENDS ProposalGates, TLC

CONSTANTS r1, r2, r3, b1, b2, y1

Number(n) == [kind |-> "int", value |-> n]
Other == [kind |-> "other", value |-> 0]
Absent == [kind |-> "absent", value |-> 0]
For(keys, form, e) == [form |-> form, of |-> [k \in keys |-> e]]

RateChoices ==
    {For(Bots, "invalid", Absent), For(Bots, "object", Number(2)), For(Bots, "object", Number(4))}
CapChoices ==
    {For(Types, "unset", Absent), For(Types, "blank", Absent),
     For(Types, "object", Absent), For(Types, "object", Number(-1)),
     For(Types, "object", Number(1)), For(Types, "object", Other)}
Symmetry == Permutations(Requests) \cup Permutations(Bots)
SwitchChoices == {"unset", "unrecognized"}
=============================================================================
