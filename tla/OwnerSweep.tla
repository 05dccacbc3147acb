----------------------------- MODULE OwnerSweep ------------------------------
(***************************************************************************)
(* Which rows reconcile_agent_ownership takes: the active, unshared ones   *)
(* longest without a check, at most limit of them, stamped together when   *)
(* the sweep commits.  Registry models what happens to their owners.       *)
(*                                                                         *)
(* One sweep runs at a time, as a periodic task makes them.  Meanwhile     *)
(* agents are registered, suspended, shared and unshared.                  *)
(***************************************************************************)
EXTENDS Integers, FiniteSets

CONSTANTS
    Agents,     \* agents.id: only its order matters, so numbers
    Limits,     \* the limits a caller may ask for
    MaxBatch,   \* MAX_RECONCILIATION_BATCH_SIZE
    MaxSweeps   \* bound: the sweeps that begin

ASSUME SweepAssumption ==
    /\ Agents \subseteq Nat /\ IsFiniteSet(Agents)
    /\ Limits \subseteq Int
    /\ MaxBatch \in Nat \ {0}
    /\ MaxSweeps \in Nat

VARIABLES
    eligible,   \* the active agents that are not shared
    stamp,      \* owner_reconciled_at, 0 for NULL
    clock,      \* the time of the latest sweep
    batch,      \* the rows of the sweep in flight, {} if there is none
    passed,     \* history: the eligible rows that sweep left out
    missed      \* history: the sweeps in a row that committed without an agent

vars == <<eligible, stamp, clock, batch, passed, missed>>

TypeOK ==
    /\ eligible \subseteq Agents
    /\ clock \in 0..MaxSweeps
    /\ stamp \in [Agents -> 0..clock]
    /\ batch \subseteq Agents /\ Cardinality(batch) <= MaxBatch
    /\ passed \subseteq Agents
    /\ missed \in [Agents -> Nat]

Init ==
    /\ eligible = {}
    /\ stamp = [a \in Agents |-> 0]
    /\ clock = 0
    /\ batch = {} /\ passed = {}
    /\ missed = [a \in Agents |-> 0]

(* Registered, or no longer shared.  A stamp from before is kept.          *)
Enter(a) ==
    /\ a \notin eligible
    /\ eligible' = eligible \cup {a}
    /\ UNCHANGED <<stamp, clock, batch, passed, missed>>

(* Suspended or shared: nothing is owed to it.                             *)
Exit(a) ==
    /\ a \in eligible
    /\ eligible' = eligible \ {a}
    /\ missed' = [missed EXCEPT ![a] = 0]
    /\ UNCHANGED <<stamp, clock, batch, passed>>

(* max(1, min(limit, MAX_RECONCILIATION_BATCH_SIZE))                       *)
ClampBelow(limit) == IF limit < 1 THEN 1 ELSE limit
Clamp(limit) == IF limit < 1 THEN 1 ELSE IF limit > MaxBatch THEN MaxBatch ELSE limit

(* ORDER BY owner_reconciled_at NULLS FIRST, id                            *)
PrecedesById(a, b) == a < b
Precedes(a, b) == stamp[a] < stamp[b] \/ (stamp[a] = stamp[b] /\ a < b)

(* A batch is the first rows of that order, as many as the limit allows.   *)
Select ==
    /\ batch = {} /\ clock < MaxSweeps
    /\ \E limit \in Limits, b \in SUBSET eligible :
         /\ b # {}
         /\ Cardinality(b) <= Clamp(limit)
         /\ b # eligible => Cardinality(b) = Clamp(limit)
         /\ \A x \in b, y \in eligible \ b : Precedes(x, y)
         /\ batch' = b
         /\ passed' = eligible \ b
    /\ clock' = clock + 1
    /\ UNCHANGED <<eligible, stamp, missed>>

(* Every row looked up is stamped, also one whose lookup failed.           *)
StampedFound(failed) == batch \ failed
Stamped(failed) == batch

Commit ==
    /\ batch # {}
    /\ \E failed \in SUBSET batch :
         stamp' = [a \in Agents |-> IF a \in Stamped(failed) THEN clock ELSE stamp[a]]
    /\ missed' = [a \in Agents |->
                    IF a \in batch THEN 0
                    ELSE IF a \in eligible \cap passed THEN missed[a] + 1
                    ELSE missed[a]]
    /\ batch' = {} /\ passed' = {}
    /\ UNCHANGED <<eligible, clock>>

(* The sweep dies: nothing is stamped.                                     *)
Abort ==
    /\ batch # {}
    /\ batch' = {} /\ passed' = {}
    /\ UNCHANGED <<eligible, stamp, clock, missed>>

Next == (\E a \in Agents : Enter(a) \/ Exit(a)) \/ Select \/ Commit \/ Abort

Spec == Init /\ [][Next]_vars

-----------------------------------------------------------------------------
(* "repeated calls make real forward progress through the whole table": an *)
(* agent that stays active and unshared is left out by fewer committed     *)
(* sweeps in a row than there are agents, whatever the limits, whichever   *)
(* lookups fail, and whoever else is registered or unshared meanwhile.     *)
BoundedWait == \A a \in Agents : missed[a] < Cardinality(Agents)
=============================================================================
