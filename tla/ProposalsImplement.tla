-------------------------- MODULE ProposalsImplement --------------------------
(***************************************************************************)
(* The proposal pipeline implements ProposalLifecycle: the status column   *)
(* maps to the phase, the history of writes to the number of effects.      *)
(* Requests, notes, approvals, payloads and retries are stuttering steps.  *)
(***************************************************************************)
EXTENDS Proposals

PhaseOf(status) ==
    CASE status = "absent" -> "absent"
      [] status = "pending" -> "open"
      [] status = "applying" -> "claimed"
      [] status = "applied" -> "applied"
      [] OTHER -> "closed"

Lifecycle == INSTANCE ProposalLifecycle WITH
    slot <- [h \in Holds |-> rows[h].key],
    phase <- [h \in Holds |-> PhaseOf(rows[h].status)],
    effects <- [h \in Holds |-> Len(writes[h])]

(* The pipeline as it is coded takes no step its promise does not allow    *)
(* (for a judge that keeps its contract).                                  *)
ImplementsLifecycle == Lifecycle!LifecycleSpec
=============================================================================
