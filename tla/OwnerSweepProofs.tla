-------------------------- MODULE OwnerSweepProofs ---------------------------
(***************************************************************************)
(* Proof that reconciliation starves nobody, for any number of agents, any *)
(* limits and any number of sweeps.  Counting the sweeps an agent missed   *)
(* is not inductive by itself: each of them put at least one more agent    *)
(* behind it in the order, so what is invariant is that an agent has       *)
(* missed no more sweeps than there are agents with a later stamp.         *)
(***************************************************************************)
EXTENDS OwnerSweep, FiniteSetTheorems, TLAPS

(* The agents checked later than a.                                        *)
Later(a) == {b \in Agents : stamp[b] > stamp[a]}

(* What the sweep in flight will do: its rows come before the ones it      *)
(* passed, and its time is after every stamp.                              *)
InFlight ==
    /\ batch = {} => passed = {}
    /\ batch # {} => \A a \in Agents : stamp[a] < clock
    /\ \A x \in batch, y \in passed : stamp[x] <= stamp[y]
    /\ batch \cap passed = {}

Waits == \A a \in Agents : missed[a] <= Cardinality(Later(a))

IInv == TypeOK /\ InFlight /\ Waits

(* Sets of agents are finite, and a larger one has at least as many.       *)
LEMMA AgentSets ==
    ASSUME NEW S \in SUBSET Agents
    PROVE  IsFiniteSet(S) /\ Cardinality(S) \in Nat
               /\ \A T \in SUBSET S : Cardinality(T) <= Cardinality(S)
BY SweepAssumption, FS_Subset, FS_CardinalityType

(* One more agent behind a makes one more.                                 *)
LEMMA OneMore ==
    ASSUME NEW S \in SUBSET Agents, NEW T \in SUBSET S, NEW x \in S \ T
    PROVE  Cardinality(T) + 1 <= Cardinality(S)
<1>1. IsFiniteSet(T) /\ T \cup {x} \in SUBSET S /\ x \notin T
  BY AgentSets
<1>2. Cardinality(T \cup {x}) = Cardinality(T) + 1
  BY <1>1, FS_AddElement
<1> QED BY <1>1, <1>2, AgentSets

(* The batch is clamped to MAX_RECONCILIATION_BATCH_SIZE.                  *)
LEMMA Clamped == ASSUME NEW l \in Limits PROVE Clamp(l) \in 1..MaxBatch
BY SweepAssumption DEF Clamp

(* Nobody has waited in an empty table.                                    *)
LEMMA InitIInv == Init => IInv
<1> SUFFICES ASSUME Init PROVE IInv
  OBVIOUS
<1>1. TypeOK
  BY SweepAssumption, FS_EmptySet DEF Init, TypeOK
<1>2. InFlight
  BY DEF Init, InFlight
<1>3. Waits
  <2> SUFFICES ASSUME NEW a \in Agents PROVE missed[a] <= Cardinality(Later(a))
    BY DEF Waits
  <2>1. Cardinality(Later(a)) \in Nat
    BY AgentSets DEF Later
  <2> QED BY <2>1 DEF Init
<1> QED BY <1>1, <1>2, <1>3 DEF IInv

(* A sweep that leaves a out stamps its batch, which then stands behind a. *)
LEMMA StepIInv == IInv /\ [Next]_vars => IInv'
<1> SUFFICES ASSUME IInv, [Next]_vars PROVE IInv'
  OBVIOUS
<1> USE SweepAssumption
<1>0. TypeOK /\ InFlight /\ Waits
  BY DEF IInv
<1>t. /\ clock \in Nat
      /\ \A a \in Agents : stamp[a] \in Nat /\ stamp[a] <= clock /\ missed[a] \in Nat
  BY <1>0 DEF TypeOK
<1>c. \A a \in Agents : Later(a) \in SUBSET Agents /\ Cardinality(Later(a)) \in Nat
  BY AgentSets DEF Later
<1>1. ASSUME NEW x \in Agents, Enter(x) PROVE IInv'
  <2>1. TypeOK' /\ InFlight'
    BY <1>0, <1>1 DEF Enter, TypeOK, InFlight
  <2>2. Waits'
    BY <1>0, <1>1 DEF Enter, Waits, Later
  <2> QED BY <2>1, <2>2 DEF IInv
<1>2. ASSUME NEW x \in Agents, Exit(x) PROVE IInv'
  <2>1. TypeOK' /\ InFlight'
    BY <1>0, <1>2 DEF Exit, TypeOK, InFlight
  <2>2. \A a \in Agents : Later(a)' = Later(a) /\ missed'[a] \in {0, missed[a]}
    BY <1>0, <1>2 DEF Exit, Later, TypeOK
  <2>3. Waits'
    BY <1>0, <1>t, <1>c, <2>2 DEF Waits
  <2> QED BY <2>1, <2>3 DEF IInv
<1>3. CASE Select
  <2>1. PICK limit \in Limits, b \in SUBSET eligible :
          /\ b # {}
          /\ Cardinality(b) <= Clamp(limit)
          /\ \A x \in b, y \in eligible \ b : Precedes(x, y)
          /\ batch' = b
          /\ passed' = eligible \ b
    BY <1>3 DEF Select
  <2>2. clock < MaxSweeps /\ clock' = clock + 1 /\ UNCHANGED <<eligible, stamp, missed>>
    BY <1>3 DEF Select
  <2>3. b \in SUBSET Agents /\ Cardinality(b) <= MaxBatch
    <3>1. b \in SUBSET Agents /\ Cardinality(b) \in Nat
      BY <1>0, AgentSets DEF TypeOK
    <3> QED BY <2>1, <3>1, Clamped
  <2>4. stamp \in [Agents -> 0..clock']
    BY <1>0, <1>t, <2>2 DEF TypeOK
  <2>5. TypeOK'
    BY <1>0, <1>t, <2>1, <2>2, <2>3, <2>4 DEF TypeOK
  <2>6. \A x \in b, y \in eligible \ b : stamp[x] <= stamp[y]
    <3> SUFFICES ASSUME NEW x \in b, NEW y \in eligible \ b PROVE stamp[x] <= stamp[y]
      OBVIOUS
    <3>1. stamp[x] \in Nat /\ stamp[y] \in Nat
      BY <1>0, <1>t DEF TypeOK
    <3> QED BY <2>1, <3>1 DEF Precedes
  <2>7. InFlight'
    BY <1>t, <2>1, <2>2, <2>6 DEF InFlight
  <2>8. Waits'
    BY <1>0, <2>2 DEF Waits, Later
  <2> QED BY <2>5, <2>7, <2>8 DEF IInv
<1>4. CASE Commit
  <2>1. /\ batch # {}
        /\ stamp' = [a \in Agents |-> IF a \in batch THEN clock ELSE stamp[a]]
        /\ missed' = [a \in Agents |->
                        IF a \in batch THEN 0
                        ELSE IF a \in eligible \cap passed THEN missed[a] + 1
                        ELSE missed[a]]
        /\ batch' = {} /\ passed' = {}
        /\ UNCHANGED <<eligible, clock>>
    BY <1>4 DEF Commit, Stamped
  <2>2. \A a \in Agents : stamp[a] < clock
    BY <1>0, <2>1 DEF InFlight
  <2>3. batch \in SUBSET Agents
    BY <1>0 DEF TypeOK
  <2>4. \A a \in Agents : stamp'[a] \in 0..clock /\ missed'[a] \in Nat
    BY <1>t, <2>1
  <2>5. TypeOK'
    <3>1. stamp' \in [Agents -> 0..clock] /\ missed' \in [Agents -> Nat]
      BY <2>1, <2>4
    <3>2. Cardinality({}) <= MaxBatch
      BY FS_EmptySet
    <3> QED BY <1>0, <2>1, <3>1, <3>2 DEF TypeOK
  <2>6. InFlight'
    BY <2>1 DEF InFlight
  <2>7. ASSUME NEW a \in Agents PROVE missed'[a] <= Cardinality(Later(a)')
    <3> DEFINE L == Later(a)  M == Later(a)'
    <3>1. M \in SUBSET Agents /\ Cardinality(M) \in Nat
      <4>1. M \in SUBSET Agents
        BY DEF Later
      <4> HIDE DEF M
      <4> QED BY <4>1, AgentSets
    <3>2. CASE a \in batch
      BY <2>1, <3>1, <3>2
    <3>3. CASE a \notin batch
      <4>1. \A y \in Agents : stamp'[y] = IF y \in batch THEN clock ELSE stamp[y]
        BY <2>1
      <4>2. stamp'[a] = stamp[a]
        BY <3>3, <4>1
      <4>3. L \subseteq M
        BY <1>t, <2>2, <4>1, <4>2 DEF Later
      <4>4. batch \subseteq M
        BY <1>t, <2>2, <2>3, <4>1, <4>2 DEF Later
      <4>5. Cardinality(L) \in Nat /\ Cardinality(L) <= Cardinality(M)
        <5> HIDE DEF L, M
        <5> QED BY <3>1, <4>3, AgentSets
      <4>6. missed[a] \in Nat /\ missed[a] <= Cardinality(L)
        BY <1>0, <1>t DEF Waits
      <4>7. CASE a \in eligible \cap passed
        <5>1. PICK x \in batch : TRUE
          BY <2>1
        <5>2. stamp[x] <= stamp[a] /\ x \in Agents
          BY <1>0, <2>3, <4>7, <5>1 DEF InFlight
        <5>3. x \in M \ L
          BY <1>t, <4>4, <5>1, <5>2 DEF Later
        <5>4. Cardinality(L) + 1 <= Cardinality(M)
          <6> HIDE DEF L, M
          <6> QED BY <3>1, <4>3, <5>3, OneMore
        <5>5. missed'[a] = missed[a] + 1
          BY <2>1, <3>3, <4>7
        <5> HIDE DEF L, M
        <5>6. missed'[a] <= Cardinality(M)
          BY <3>1, <4>5, <4>6, <5>4, <5>5
        <5> QED BY <5>6 DEF M
      <4>8. CASE a \notin eligible \cap passed
        <5>1. missed'[a] = missed[a]
          BY <2>1, <3>3, <4>8
        <5> HIDE DEF L, M
        <5>2. missed'[a] <= Cardinality(M)
          BY <3>1, <4>5, <4>6, <5>1
        <5> QED BY <5>2 DEF M
      <4> QED BY <4>7, <4>8
    <3> QED BY <3>2, <3>3
  <2>8. Waits'
    BY <2>7 DEF Waits
  <2> QED BY <2>5, <2>6, <2>8 DEF IInv
<1>5. CASE Abort
  <2>1. TypeOK'
    BY <1>0, <1>5, FS_EmptySet DEF Abort, TypeOK
  <2>2. InFlight'
    BY <1>5 DEF Abort, InFlight
  <2>3. Waits'
    BY <1>0, <1>5 DEF Abort, Waits, Later
  <2> QED BY <2>1, <2>2, <2>3 DEF IInv
<1>6. CASE UNCHANGED vars
  <2>1. TypeOK' /\ InFlight'
    BY <1>0, <1>6 DEF vars, TypeOK, InFlight
  <2>2. Waits'
    BY <1>0, <1>6 DEF vars, Waits, Later
  <2> QED BY <2>1, <2>2 DEF IInv
<1> QED BY <1>1, <1>2, <1>3, <1>4, <1>5, <1>6 DEF Next

(* An agent is not later than itself, so fewer agents than all are.        *)
LEMMA WaitsBounded == IInv => BoundedWait
<1> SUFFICES ASSUME IInv, NEW a \in Agents PROVE missed[a] < Cardinality(Agents)
  BY DEF BoundedWait
<1>1. missed[a] \in Nat /\ missed[a] <= Cardinality(Later(a)) /\ stamp[a] \in Nat
  BY SweepAssumption DEF IInv, TypeOK, Waits
<1>2. Later(a) \in SUBSET Agents /\ a \in Agents \ Later(a)
  BY <1>1 DEF Later
<1> DEFINE L == Later(a)
<1> HIDE DEF L
<1>3. Cardinality(L) + 1 <= Cardinality(Agents) /\ Cardinality(L) \in Nat
         /\ Cardinality(Agents) \in Nat
  BY <1>2, OneMore, AgentSets DEF L
<1>4. missed[a] <= Cardinality(L)
  BY <1>1 DEF L
<1> QED BY <1>1, <1>3, <1>4

(* reconcile_agent_ownership: the types hold, and a batch is never larger  *)
(* than MAX_RECONCILIATION_BATCH_SIZE.                                     *)
THEOREM TypeCorrect == Spec => []TypeOK
<1>1. IInv => TypeOK
  BY DEF IInv
<1> QED BY InitIInv, StepIInv, <1>1, PTL DEF Spec

(* reconcile_agent_ownership: no agent that stays active and unshared is   *)
(* starved.                                                                *)
THEOREM NobodyStarves == Spec => []BoundedWait
BY InitIInv, StepIInv, WaitsBounded, PTL DEF Spec
=============================================================================
