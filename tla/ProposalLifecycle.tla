-------------------------- MODULE ProposalLifecycle --------------------------
(***************************************************************************)
(* What the proposal pipeline promises, without requests, transactions or  *)
(* judges: a hold occupies the slot of its key from submission to its end, *)
(* it is claimed at most once, a claimed hold writes to the target at most *)
(* once, and the way it ends tells whether it did.                         *)
(***************************************************************************)
EXTENDS Naturals

CONSTANTS Holds, Keys, None

VARIABLES
    slot,      \* the key each hold is for
    phase,     \* where each hold stands
    effects    \* how often each hold has been written to its target

lifecycleVars == <<slot, phase, effects>>

Phases == {"absent", "open", "claimed", "applied", "closed"}

LifecycleInit ==
    /\ slot = [h \in Holds |-> None]
    /\ phase = [h \in Holds |-> "absent"]
    /\ effects = [h \in Holds |-> 0]

(* The slot of a key is free when no hold is open or claimed for it.       *)
Free(k) == \A h \in Holds : phase[h] \in {"open", "claimed"} => slot[h] # k

Create(h, k) ==
    /\ phase[h] = "absent" /\ Free(k)
    /\ slot' = [slot EXCEPT ![h] = k]
    /\ phase' = [phase EXCEPT ![h] = "open"]
    /\ UNCHANGED effects

(* Rejected by an owner or withdrawn by the bot.                           *)
Drop(h) ==
    /\ phase[h] = "open"
    /\ phase' = [phase EXCEPT ![h] = "closed"]
    /\ UNCHANGED <<slot, effects>>

Claim(h) ==
    /\ phase[h] = "open"
    /\ phase' = [phase EXCEPT ![h] = "claimed"]
    /\ UNCHANGED <<slot, effects>>

Effect(h) ==
    /\ phase[h] = "claimed" /\ effects[h] = 0
    /\ effects' = [effects EXCEPT ![h] = 1]
    /\ UNCHANGED <<slot, phase>>

Succeed(h) ==
    /\ phase[h] = "claimed" /\ effects[h] = 1
    /\ phase' = [phase EXCEPT ![h] = "applied"]
    /\ UNCHANGED <<slot, effects>>

(* Stale or failed: the slot is released for a resubmission.               *)
Fail(h) ==
    /\ phase[h] = "claimed" /\ effects[h] = 0
    /\ phase' = [phase EXCEPT ![h] = "closed"]
    /\ UNCHANGED <<slot, effects>>

LifecycleNext ==
    \E h \in Holds :
        \/ \E k \in Keys : Create(h, k)
        \/ Drop(h) \/ Claim(h) \/ Effect(h) \/ Succeed(h) \/ Fail(h)

LifecycleSpec == LifecycleInit /\ [][LifecycleNext]_lifecycleVars
=============================================================================
