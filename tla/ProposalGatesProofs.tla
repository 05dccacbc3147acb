------------------------ MODULE ProposalGatesProofs -------------------------
(***************************************************************************)
(* The rolling window and the daily cap hold for any number of requests,   *)
(* bots and action types and for any settings.                             *)
(*                                                                         *)
(* Between its count and its row a request holds the lock of what it       *)
(* counts, so the count it saw can only have shrunk (Room).  A row more is *)
(* then within the limit.                                                  *)
(***************************************************************************)
EXTENDS ProposalGates, FiniteSetTheorems, TLAPS

(* The auto-approvals of a type on one day.                                *)
ApprovedOn(y, d) == {r \in charged : type[r] = y /\ Day(at[r]) = d}

(* A request inside a count holds its lock.                                *)
Holders ==
    \A r \in Requests :
       /\ pc[r] \in {"rate", "mark"} => rateLock[bot[r]] = r
       /\ pc[r] \in {"capwait", "cap"} => Capped(type[r])
       /\ pc[r] = "cap" => capLock[type[r]] = r
       /\ pc[r] = "claim" /\ Capped(type[r]) => capLock[type[r]] = r

(* Rows belong to requests that are past writing them, and only with the   *)
(* switch off is there anything to claim.                                  *)
Written ==
    /\ \A r \in marked : pc[r] \notin {"new", "waiting", "rate", "mark"}
    /\ \A r \in charged : pc[r] = "ended" /\ ~KillSwitch
    /\ \A r \in Requests : pc[r] \in {"capwait", "cap", "claim"} => ~KillSwitch

Room ==
    \A r \in Requests :
       /\ pc[r] = "mark" => Cardinality(Recent(bot[r])) < RateLimitFor(bot[r])
       /\ pc[r] = "claim" /\ Capped(type[r]) =>
             Cardinality(ApprovedOn(type[r], Day(at[r]))) < CapFor(type[r])

Within ==
    /\ \A b \in Bots : Cardinality(Recent(b)) <= RateLimitFor(b)
    /\ \A y \in Types, d \in Int : Capped(y) => Cardinality(ApprovedOn(y, d)) <= CapFor(y)

Shape == TypeOK /\ LocksComeBack /\ Holders /\ Written
IInv == Shape /\ Room /\ Within

-----------------------------------------------------------------------------
(* Sets of requests are finite, and a larger one has at least as many.     *)
LEMMA RequestSets ==
  /\ \A S \in SUBSET Requests : IsFiniteSet(S) /\ Cardinality(S) \in Nat
  /\ \A S, T \in SUBSET Requests : S \subseteq T => Cardinality(S) <= Cardinality(T)
BY GatesAssumption, FS_Subset, FS_CardinalityType

(* One request more makes at most one more.                                *)
LEMMA OneMore ==
  ASSUME NEW S \in SUBSET Requests, NEW T \in SUBSET Requests, NEW r \in Requests,
         T \subseteq S \cup {r}
  PROVE  Cardinality(T) <= Cardinality(S) + 1
<1>1. IsFiniteSet(S) /\ Cardinality(S) \in Nat /\ S \cup {r} \in SUBSET Requests
  BY RequestSets
<1>2. Cardinality(S \cup {r}) <= Cardinality(S) + 1
  <2>1. Cardinality(S \cup {r}) = IF r \in S THEN Cardinality(S) ELSE Cardinality(S) + 1
    BY <1>1, FS_AddElement
  <2> QED BY <1>1, <2>1
<1>3. Cardinality(T) <= Cardinality(S \cup {r})
  BY <1>1, RequestSets
<1>4. Cardinality(T) \in Nat /\ Cardinality(S \cup {r}) \in Nat
  BY <1>1, RequestSets
<1> QED BY <1>1, <1>2, <1>3, <1>4

(* Days are integers.                                                      *)
LEMMA Days == \A t \in Nat : Day(t) \in Int
BY GatesAssumption DEF Day

(* proposal_rate_limit_for: never unlimited, never nothing.                *)
LEMMA LimitSane == TypeOK => \A b \in Bots : RateLimitFor(b) \in 1..Ceiling
BY GatesAssumption DEF TypeOK, RateLimitFor, UsableRate, Entry

(* proposal_auto_approve_daily_cap_for: a natural number.                  *)
LEMMA CapSane == TypeOK => \A y \in Types : CapFor(y) \in Nat
BY GatesAssumption DEF TypeOK, CapFor, Entry

(* The settings stay, and with them every limit.                           *)
LEMMA SettingsStay ==
  ASSUME [Next]_vars
  PROVE  /\ UNCHANGED <<rates, caps, switch, bot, type>>
         /\ \A b \in Bots : RateLimitFor(b)' = RateLimitFor(b)
         /\ \A y \in Types : CapFor(y)' = CapFor(y) /\ Capped(y)' = Capped(y)
         /\ KillSwitch' = KillSwitch
<1>1. UNCHANGED <<rates, caps, switch, bot, type>>
  BY DEF Next, Step, vars, settings, locks, Tick, Begin, LockRate, CountAttempts, RateLimited,
         Mark, KillSwitched, Uncapped, AskCap, LockCap, CountApproved, CapExhausted, Claim, Abort
<1> QED BY <1>1 DEF RateLimitFor, CapFor, Capped, KillSwitch

-----------------------------------------------------------------------------
(* Before the first request nobody holds a lock and no row is written.     *)
LEMMA InitIInv == Init => IInv
<1> SUFFICES ASSUME Init PROVE IInv
  OBVIOUS
<1>1. TypeOK
  BY GatesAssumption DEF Init, TypeOK, PCs
<1>2. LocksComeBack /\ Holders /\ Written
  BY GatesAssumption DEF Init, LocksComeBack, Holders, Written
<1>3. Room
  BY DEF Init, Room
<1>4. /\ \A b \in Bots : Recent(b) = {}
      /\ \A y \in Types, d \in Int : ApprovedOn(y, d) = {}
  BY DEF Init, Recent, ApprovedOn
<1>5. Cardinality({}) = 0
  BY FS_EmptySet
<1>6. \A b \in Bots : Cardinality(Recent(b)) <= RateLimitFor(b)
  <2>1. \A b \in Bots : Cardinality(Recent(b)) = 0 /\ RateLimitFor(b) \in Nat
    BY <1>1, <1>4, <1>5, LimitSane, GatesAssumption
  <2> QED BY <2>1
<1>7. \A y \in Types, d \in Int : Cardinality(ApprovedOn(y, d)) <= CapFor(y)
  <2>1. \A y \in Types, d \in Int : Cardinality(ApprovedOn(y, d)) = 0 /\ CapFor(y) \in Nat
    BY <1>1, <1>4, <1>5, CapSane
  <2> QED BY <2>1
<1>8. Within
  BY <1>6, <1>7 DEF Within
<1> QED BY <1>1, <1>2, <1>3, <1>8 DEF IInv, Shape

(* Every action keeps the types.                                           *)
LEMMA StepType == TypeOK /\ [Next]_vars => TypeOK'
<1> SUFFICES ASSUME TypeOK, [Next]_vars PROVE TypeOK'
  OBVIOUS
<1> USE GatesAssumption DEF TypeOK, settings, locks
<1>1. CASE Tick
  BY <1>1 DEF Tick
<1>2. ASSUME NEW r \in Requests,
             Begin(r) \/ CountAttempts(r) \/ KillSwitched(r) \/ Uncapped(r) \/ AskCap(r) \/ CountApproved(r)
      PROVE  TypeOK'
  BY <1>2 DEF Begin, CountAttempts, KillSwitched, Uncapped, AskCap, CountApproved, GoTo, DbNow, PCs
<1>3. ASSUME NEW r \in Requests, LockRate(r) \/ LockCap(r)
      PROVE  TypeOK'
  BY <1>3 DEF LockRate, LockCap, GoTo, PCs
<1>4. ASSUME NEW r \in Requests,
             RateLimited(r) \/ Mark(r) \/ CapExhausted(r) \/ Claim(r) \/ Abort(r)
      PROVE  TypeOK'
  BY <1>4 DEF RateLimited, Mark, CapExhausted, Claim, Abort, EndTransaction, Released, GoTo, PCs
<1>5. CASE UNCHANGED vars
  BY <1>5 DEF vars
<1> QED BY <1>1, <1>2, <1>3, <1>4, <1>5 DEF Next, Step

(* Locks go to one request at a time and end with its transaction.         *)
LEMMA StepShape == Shape /\ [Next]_vars => Shape'
<1> SUFFICES ASSUME Shape, [Next]_vars PROVE Shape'
  OBVIOUS
<1>0. TypeOK'
  BY StepType DEF Shape
<1> USE GatesAssumption, SettingsStay DEF Shape, TypeOK
<1>1. LocksComeBack'
  <2> USE DEF LocksComeBack, settings, locks
  <2>1. CASE Tick \/ UNCHANGED vars
    BY <2>1 DEF Tick, vars
  <2>2. ASSUME NEW r \in Requests,
               Begin(r) \/ CountAttempts(r) \/ KillSwitched(r) \/ Uncapped(r) \/ AskCap(r) \/ CountApproved(r)
        PROVE  LocksComeBack'
    BY <2>2 DEF Begin, CountAttempts, KillSwitched, Uncapped, AskCap, CountApproved, GoTo
  <2>3. ASSUME NEW r \in Requests, LockRate(r) \/ LockCap(r)
        PROVE  LocksComeBack'
    BY <2>3 DEF LockRate, LockCap, GoTo
  <2>4. ASSUME NEW r \in Requests,
               RateLimited(r) \/ Mark(r) \/ CapExhausted(r) \/ Claim(r) \/ Abort(r)
        PROVE  LocksComeBack'
    BY <2>4 DEF RateLimited, Mark, CapExhausted, Claim, Abort, EndTransaction, Released, GoTo
  <2> QED BY <2>1, <2>2, <2>3, <2>4 DEF Next, Step
<1>2. Holders'
  <2> USE DEF Holders, settings, locks
  <2>1. CASE Tick \/ UNCHANGED vars
    BY <2>1 DEF Tick, vars
  <2>2. ASSUME NEW r \in Requests,
               Begin(r) \/ CountAttempts(r) \/ KillSwitched(r) \/ Uncapped(r) \/ AskCap(r) \/ CountApproved(r)
        PROVE  Holders'
    BY <2>2 DEF Begin, CountAttempts, KillSwitched, Uncapped, AskCap, CountApproved, GoTo
  <2>3. ASSUME NEW r \in Requests, LockRate(r) \/ LockCap(r)
        PROVE  Holders'
    BY <2>3 DEF LockRate, LockCap, GoTo
  <2>4. ASSUME NEW r \in Requests,
               RateLimited(r) \/ Mark(r) \/ CapExhausted(r) \/ Claim(r) \/ Abort(r)
        PROVE  Holders'
    BY <2>4 DEF RateLimited, Mark, CapExhausted, Claim, Abort, EndTransaction, Released, GoTo
  <2> QED BY <2>1, <2>2, <2>3, <2>4 DEF Next, Step
<1>3. Written'
  <2> USE DEF Written, settings, locks
  <2>1. CASE Tick \/ UNCHANGED vars
    BY <2>1 DEF Tick, vars
  <2>2. ASSUME NEW r \in Requests,
               Begin(r) \/ CountAttempts(r) \/ KillSwitched(r) \/ Uncapped(r) \/ AskCap(r) \/ CountApproved(r)
        PROVE  Written'
    BY <2>2 DEF Begin, CountAttempts, KillSwitched, Uncapped, AskCap, CountApproved, GoTo
  <2>3. ASSUME NEW r \in Requests, LockRate(r) \/ LockCap(r)
        PROVE  Written'
    BY <2>3 DEF LockRate, LockCap, GoTo
  <2>4. ASSUME NEW r \in Requests,
               RateLimited(r) \/ Mark(r) \/ CapExhausted(r) \/ Claim(r) \/ Abort(r)
        PROVE  Written'
    BY <2>4 DEF RateLimited, Mark, CapExhausted, Claim, Abort, GoTo
  <2> QED BY <2>1, <2>2, <2>3, <2>4 DEF Next, Step
<1> QED BY <1>0, <1>1, <1>2, <1>3 DEF Shape

-----------------------------------------------------------------------------
(* Only a marker adds to the attempts of a bot; time takes them away.      *)
LEMMA StepRecent ==
  ASSUME Shape, [Next]_vars, NEW b \in Bots
  PROVE  \/ Recent(b)' \subseteq Recent(b)
         \/ \E r \in Requests :
               Mark(r) /\ bot[r] = b /\ Recent(b)' \subseteq Recent(b) \cup {r}
<1> USE GatesAssumption, SettingsStay DEF Shape, TypeOK, Recent, settings, locks
<1>1. CASE Tick \/ UNCHANGED vars
  BY <1>1 DEF Tick, vars
<1>2. ASSUME NEW r \in Requests, Begin(r)
      PROVE  Recent(b)' \subseteq Recent(b)
  <2>1. r \notin marked
    BY <1>2 DEF Begin, Written
  <2> QED BY <1>2, <2>1 DEF Begin
<1>3. ASSUME NEW r \in Requests, Mark(r)
      PROVE  /\ Recent(b)' \subseteq Recent(b) \cup {r}
             /\ bot[r] # b => Recent(b)' \subseteq Recent(b)
  BY <1>3 DEF Mark
<1>4. ASSUME NEW r \in Requests, Step(r) \/ Abort(r), ~Mark(r)
      PROVE  Recent(b)' \subseteq Recent(b)
  BY <1>4 DEF Step, Abort, LockRate, CountAttempts, RateLimited, KillSwitched, Uncapped, AskCap,
              LockCap, CountApproved, CapExhausted, Claim
<1> QED BY <1>1, <1>2, <1>3, <1>4 DEF Next

(* Only a claim adds to the auto-approvals of a type on a day.             *)
LEMMA StepApproved ==
  ASSUME Shape, [Next]_vars, NEW y \in Types, NEW d \in Int
  PROVE  \/ ApprovedOn(y, d)' \subseteq ApprovedOn(y, d)
         \/ \E r \in Requests :
               /\ Claim(r) /\ type[r] = y /\ Day(at[r]) = d
               /\ ApprovedOn(y, d)' \subseteq ApprovedOn(y, d) \cup {r}
<1> USE GatesAssumption, SettingsStay DEF Shape, TypeOK, ApprovedOn, settings, locks
<1>1. CASE Tick \/ UNCHANGED vars
  BY <1>1 DEF Tick, vars
<1>2. ASSUME NEW r \in Requests, Uncapped(r) \/ CountApproved(r)
      PROVE  ApprovedOn(y, d)' \subseteq ApprovedOn(y, d)
  <2>1. r \notin charged
    BY <1>2 DEF Uncapped, CountApproved, Written
  <2>2. charged' = charged /\ \A s \in charged : at'[s] = at[s]
    BY <1>2, <2>1 DEF Uncapped, CountApproved
  <2> QED BY <2>2
<1>3. ASSUME NEW r \in Requests, Claim(r)
      PROVE  /\ ApprovedOn(y, d)' \subseteq ApprovedOn(y, d) \cup {r}
             /\ ~(type[r] = y /\ Day(at[r]) = d) => ApprovedOn(y, d)' \subseteq ApprovedOn(y, d)
  BY <1>3 DEF Claim
<1>4. ASSUME NEW r \in Requests, Begin(r) \/ Step(r) \/ Abort(r), ~Claim(r), ~Uncapped(r), ~CountApproved(r)
      PROVE  ApprovedOn(y, d)' \subseteq ApprovedOn(y, d)
  BY <1>4 DEF Step, Abort, Begin, LockRate, CountAttempts, RateLimited, Mark, KillSwitched, AskCap,
              LockCap, CapExhausted
<1> QED BY <1>1, <1>2, <1>3, <1>4 DEF Next

(* The sets the counts are taken of hold requests.                         *)
LEMMA Counted ==
  ASSUME TypeOK
  PROVE  /\ \A b \in Bots : Recent(b) \in SUBSET Requests
         /\ \A y \in Types, d \in Int : ApprovedOn(y, d) \in SUBSET Requests
         /\ \A y \in Types, d \in Int : ApprovedSince(y, d) \in SUBSET Requests
BY DEF TypeOK, Recent, ApprovedOn, ApprovedSince

(* How a request comes to the point of writing its marker.                 *)
LEMMA ToMark ==
  ASSUME Shape, [Next]_vars, NEW r \in Requests, pc'[r] = "mark"
  PROVE  CountAttempts(r) \/ pc[r] = "mark"
<1> USE GatesAssumption DEF Shape, TypeOK, settings, locks, GoTo
<1> QED BY DEF Next, Step, vars, Tick, Begin, LockRate, CountAttempts, RateLimited, Mark,
               KillSwitched, Uncapped, AskCap, LockCap, CountApproved, CapExhausted, Claim, Abort

(* How a request comes to the point of its claim.                          *)
LEMMA ToClaim ==
  ASSUME Shape, [Next]_vars, NEW r \in Requests, pc'[r] = "claim"
  PROVE  CountApproved(r) \/ Uncapped(r) \/ (pc[r] = "claim" /\ at'[r] = at[r])
<1> USE GatesAssumption DEF Shape, TypeOK, settings, locks, GoTo
<1> QED BY DEF Next, Step, vars, Tick, Begin, LockRate, CountAttempts, RateLimited, Mark,
               KillSwitched, Uncapped, AskCap, LockCap, CountApproved, CapExhausted, Claim, Abort

(* What a request saw below its limit stays below it up to its own row:    *)
(* the lock keeps the others out.                                          *)
LEMMA StepRoom == IInv /\ [Next]_vars => Room'
<1> SUFFICES ASSUME IInv, [Next]_vars PROVE Room'
  OBVIOUS
<1>0. Shape /\ TypeOK /\ Shape' /\ TypeOK'
  BY StepShape DEF IInv, Shape
<1>1. ASSUME NEW r \in Requests, pc'[r] = "mark"
      PROVE  Cardinality(Recent(bot[r])') < RateLimitFor(bot[r])'
  <2>0. bot[r] \in Bots /\ bot' = bot
    BY <1>0, SettingsStay DEF TypeOK
  <2>1. Cardinality(Recent(bot[r])) < RateLimitFor(bot[r])
    BY <1>0, <1>1, ToMark DEF CountAttempts, IInv, Room
  <2>2. Recent(bot[r])' \subseteq Recent(bot[r])
    <3>1. ASSUME NEW s \in Requests, Mark(s), bot[s] = bot[r] PROVE FALSE
      <4>1. pc[s] = "mark" /\ pc'[s] = "judge"
        BY <1>0, <3>1 DEF Mark, GoTo, TypeOK
      <4>2. pc[r] = "mark"
        BY <1>0, <1>1, <3>1, <4>1 DEF Mark, GoTo, TypeOK
      <4>3. rateLock[bot[r]] = r /\ rateLock[bot[s]] = s
        BY <1>0, <4>1, <4>2 DEF Shape, Holders
      <4> QED BY <1>1, <3>1, <4>1, <4>3
    <3> QED BY <1>0, <2>0, <3>1, StepRecent
  <2>3. Recent(bot[r]) \in SUBSET Requests /\ Recent(bot[r])' \in SUBSET Requests
    BY <1>0, <2>0, <2>2, Counted
  <2>4. Cardinality(Recent(bot[r])') <= Cardinality(Recent(bot[r]))
    BY <2>2, <2>3, RequestSets
  <2>5. Cardinality(Recent(bot[r])') \in Nat /\ Cardinality(Recent(bot[r])) \in Nat
    BY <2>3, RequestSets
  <2>6. RateLimitFor(bot[r]) \in Nat /\ RateLimitFor(bot[r])' = RateLimitFor(bot[r])
    BY <1>0, <2>0, LimitSane, SettingsStay, GatesAssumption
  <2> QED BY <2>0, <2>1, <2>4, <2>5, <2>6
<1>2. ASSUME NEW r \in Requests, pc'[r] = "claim", Capped(type[r]),
             NEW y, y = type[r], NEW d, d = Day(at'[r])
      PROVE  Cardinality(ApprovedOn(y, d)') < CapFor(y)
  <2>0. y \in Types /\ type' = type /\ d \in Int
    <3>1. at'[r] \in Nat
      BY <1>0, GatesAssumption DEF TypeOK
    <3> QED BY <1>0, <1>2, <3>1, Days, SettingsStay DEF TypeOK
  <2>1. CapFor(y) \in Nat
    BY <1>0, <2>0, CapSane
  <2>2. Cardinality(ApprovedOn(y, d)) < CapFor(y)
    <3>1. CASE pc[r] = "claim" /\ at'[r] = at[r]
      BY <1>2, <3>1 DEF IInv, Room
    <3>2. CASE CountApproved(r)
      <4>1. at'[r] = now /\ Cardinality(ApprovedSince(y, d)) < CapFor(y)
        BY <1>0, <1>2, <3>2 DEF CountApproved, DbNow, TypeOK
      <4>2. ApprovedOn(y, d) \subseteq ApprovedSince(y, d)
        BY <2>0 DEF ApprovedOn, ApprovedSince
      <4>3. /\ Cardinality(ApprovedOn(y, d)) <= Cardinality(ApprovedSince(y, d))
            /\ Cardinality(ApprovedOn(y, d)) \in Nat /\ Cardinality(ApprovedSince(y, d)) \in Nat
        BY <1>0, <2>0, <4>2, Counted, RequestSets
      <4> QED BY <2>1, <4>1, <4>3
    <3>3. CASE Uncapped(r)
      BY <1>2, <3>3 DEF Uncapped
    <3> QED BY <1>0, <1>2, <3>1, <3>2, <3>3, ToClaim
  <2>3. ApprovedOn(y, d)' \subseteq ApprovedOn(y, d)
    <3>1. ASSUME NEW s \in Requests, Claim(s), type[s] = y PROVE FALSE
      <4>1. pc[s] = "claim" /\ pc'[s] = "ended"
        BY <1>0, <3>1 DEF Claim, GoTo, TypeOK
      <4>2. pc[r] = "claim"
        BY <1>0, <1>2, <3>1, <4>1 DEF Claim, GoTo, TypeOK
      <4>3. capLock[type[r]] = r /\ capLock[type[s]] = s
        BY <1>0, <1>2, <3>1, <4>1, <4>2 DEF Shape, Holders
      <4> QED BY <1>2, <3>1, <4>1, <4>3
    <3> QED BY <1>0, <2>0, <3>1, StepApproved
  <2>4. ApprovedOn(y, d) \in SUBSET Requests /\ ApprovedOn(y, d)' \in SUBSET Requests
    BY <1>0, <2>0, <2>3, Counted
  <2>5. Cardinality(ApprovedOn(y, d)') <= Cardinality(ApprovedOn(y, d))
    BY <2>3, <2>4, RequestSets
  <2>6. Cardinality(ApprovedOn(y, d)') \in Nat /\ Cardinality(ApprovedOn(y, d)) \in Nat
    BY <2>4, RequestSets
  <2> QED BY <2>1, <2>2, <2>5, <2>6
<1>3. ASSUME NEW r \in Requests, pc'[r] = "claim", Capped(type[r])
      PROVE  Cardinality(ApprovedOn(type[r], Day(at[r])))' < CapFor(type[r])
  <2>1. PICK y, d : y = type[r] /\ d = Day(at'[r])
    OBVIOUS
  <2>2. Cardinality(ApprovedOn(y, d)') < CapFor(y)
    BY <1>2, <1>3, <2>1
  <2>3. ApprovedOn(y, d)' = ApprovedOn(type[r], Day(at[r]))'
    BY <2>1, SettingsStay DEF ApprovedOn, Day
  <2> QED BY <2>1, <2>2, <2>3
<1>4. \A r \in Requests :
         /\ type[r] \in Types /\ type'[r] = type[r] /\ bot'[r] = bot[r]
         /\ Capped(type[r])' = Capped(type[r]) /\ CapFor(type[r])' = CapFor(type[r])
  BY <1>0, SettingsStay DEF TypeOK, Capped, CapFor
<1> QED BY <1>1, <1>3, <1>4 DEF Room

(* A row that found room leaves its set within the limit.                  *)
LEMMA StepWithin == IInv /\ [Next]_vars => Within'
<1> SUFFICES ASSUME IInv, [Next]_vars PROVE Within'
  OBVIOUS
<1>0. Shape /\ TypeOK /\ TypeOK'
  BY StepType DEF IInv, Shape
<1>1. ASSUME NEW b \in Bots
      PROVE  Cardinality(Recent(b)') <= RateLimitFor(b)'
  <2>1. RateLimitFor(b)' = RateLimitFor(b) /\ RateLimitFor(b) \in Nat
    BY <1>0, SettingsStay, LimitSane, GatesAssumption
  <2>2. Cardinality(Recent(b)) <= RateLimitFor(b)
    BY DEF IInv, Within
  <2>3. CASE Recent(b)' \subseteq Recent(b)
    <3>1. Recent(b) \in SUBSET Requests /\ Recent(b)' \in SUBSET Requests
      BY <1>0, <2>3, Counted
    <3>2. /\ Cardinality(Recent(b)') <= Cardinality(Recent(b))
          /\ Cardinality(Recent(b)') \in Nat /\ Cardinality(Recent(b)) \in Nat
      BY <2>3, <3>1, RequestSets
    <3> QED BY <2>1, <2>2, <3>2
  <2>4. ASSUME NEW r \in Requests, Mark(r), bot[r] = b, Recent(b)' \subseteq Recent(b) \cup {r}
        PROVE  Cardinality(Recent(b)') <= RateLimitFor(b)'
    <3>1. Cardinality(Recent(b)) < RateLimitFor(b)
      BY <2>4 DEF IInv, Room, Mark
    <3>2. Recent(b) \in SUBSET Requests /\ Recent(b)' \in SUBSET Requests
      BY <1>0, <2>4, Counted
    <3>3. Cardinality(Recent(b)') <= Cardinality(Recent(b)) + 1
      BY <2>4, <3>2, OneMore
    <3>4. Cardinality(Recent(b)') \in Nat /\ Cardinality(Recent(b)) \in Nat
      BY <3>2, RequestSets
    <3> QED BY <2>1, <3>1, <3>3, <3>4
  <2> QED BY <1>0, <2>3, <2>4, StepRecent
<1>2. ASSUME NEW y \in Types, NEW d \in Int, Capped(y)
      PROVE  Cardinality(ApprovedOn(y, d)') <= CapFor(y)'
  <2>1. CapFor(y)' = CapFor(y) /\ CapFor(y) \in Nat
    BY <1>0, SettingsStay, CapSane
  <2>2. Cardinality(ApprovedOn(y, d)) <= CapFor(y)
    BY <1>2 DEF IInv, Within
  <2>3. CASE ApprovedOn(y, d)' \subseteq ApprovedOn(y, d)
    <3>1. ApprovedOn(y, d) \in SUBSET Requests /\ ApprovedOn(y, d)' \in SUBSET Requests
      BY <1>0, <2>3, Counted
    <3>2. /\ Cardinality(ApprovedOn(y, d)') <= Cardinality(ApprovedOn(y, d))
          /\ Cardinality(ApprovedOn(y, d)') \in Nat /\ Cardinality(ApprovedOn(y, d)) \in Nat
      BY <2>3, <3>1, RequestSets
    <3> QED BY <2>1, <2>2, <3>2
  <2>4. ASSUME NEW r \in Requests, Claim(r), type[r] = y, Day(at[r]) = d,
               ApprovedOn(y, d)' \subseteq ApprovedOn(y, d) \cup {r}
        PROVE  Cardinality(ApprovedOn(y, d)') <= CapFor(y)'
    <3>1. Cardinality(ApprovedOn(y, d)) < CapFor(y)
      BY <1>2, <2>4 DEF IInv, Room, Claim
    <3>2. ApprovedOn(y, d) \in SUBSET Requests /\ ApprovedOn(y, d)' \in SUBSET Requests
      BY <1>0, <2>4, Counted
    <3>3. Cardinality(ApprovedOn(y, d)') <= Cardinality(ApprovedOn(y, d)) + 1
      BY <2>4, <3>2, OneMore
    <3>4. Cardinality(ApprovedOn(y, d)') \in Nat /\ Cardinality(ApprovedOn(y, d)) \in Nat
      BY <3>2, RequestSets
    <3> QED BY <2>1, <3>1, <3>3, <3>4
  <2> QED BY <1>0, <2>3, <2>4, StepApproved
<1>3. \A y \in Types : Capped(y)' = Capped(y)
  BY SettingsStay
<1> QED BY <1>1, <1>2, <1>3 DEF Within

(* The strengthened invariant holds throughout.                            *)
LEMMA Invariant == Spec => []IInv
<1>1. IInv /\ [Next]_vars => IInv'
  BY StepShape, StepRoom, StepWithin DEF IInv
<1> QED BY <1>1, InitIInv, PTL DEF Spec

-----------------------------------------------------------------------------
(* create_proposal: requests, locks and stamps keep their types.           *)
THEOREM TypeCorrect == Spec => []TypeOK
<1>1. IInv => TypeOK
  BY DEF IInv, Shape
<1> QED BY <1>1, Invariant, PTL

(* _deny_rate_limited_proposals: concurrent submissions never exceed the   *)
(* limit of their bot, nor any setting the ceiling.                        *)
THEOREM RateLimitHolds == Spec => []WindowKept
<1>1. ASSUME IInv, NEW b \in Bots
      PROVE  Cardinality(Recent(b)) <= RateLimitFor(b) /\ Cardinality(Recent(b)) <= Ceiling
  <2>1. Cardinality(Recent(b)) <= RateLimitFor(b)
    BY <1>1 DEF IInv, Within
  <2>2. RateLimitFor(b) \in 1..Ceiling
    BY <1>1, LimitSane DEF IInv, Shape
  <2>3. Cardinality(Recent(b)) \in Nat
    BY <1>1, Counted, RequestSets DEF IInv, Shape
  <2> QED BY <2>1, <2>2, <2>3, GatesAssumption
<1>2. IInv => WindowKept
  BY <1>1 DEF WindowKept
<1> QED BY <1>2, Invariant, PTL

(* create_proposal: concurrent auto-approvals never exceed the daily cap   *)
(* of their action type.                                                   *)
THEOREM DailyCapHolds == Spec => []CapKept
<1>1. IInv => CapKept
  <2> SUFFICES ASSUME IInv, NEW y \in Types, NEW d \in 0..MaxTime,
                      caps.form = "object", caps.of[y].kind = "int", caps.of[y].value >= 0
               PROVE  Cardinality(ApprovedOn(y, d)) <= caps.of[y].value
    BY DEF CapKept, ApprovedOn
  <2>1. Capped(y) /\ CapFor(y) = caps.of[y].value
    BY DEF Capped, CapFor
  <2>2. d \in Int
    BY GatesAssumption
  <2> QED BY <2>1, <2>2 DEF IInv, Within
<1> QED BY <1>1, Invariant, PTL

(* The settings of auto-approval fail closed: what cannot be read approves *)
(* nothing.                                                                *)
THEOREM MalformedSettingsClose == Spec => []FailsClosed
<1>1. IInv => FailsClosed
  <2> SUFFICES ASSUME IInv, NEW r \in charged
               PROVE  /\ switch \in {"unset", "blank", "falsy"}
                      /\ caps.form \in {"unset", "object"}
                      /\ caps.form = "object" =>
                            \/ caps.of[type[r]].kind = "absent"
                            \/ caps.of[type[r]].kind = "int" /\ caps.of[type[r]].value > 0
    BY DEF FailsClosed
  <2>1. TypeOK /\ r \in Requests /\ type[r] \in Types /\ at[r] \in Nat
    BY GatesAssumption DEF IInv, Shape, TypeOK
  <2>2. switch \in {"unset", "blank", "falsy"}
    BY <2>1, GatesAssumption DEF IInv, Shape, Written, KillSwitch, TypeOK, SwitchForms
  <2>3. Capped(type[r]) => CapFor(type[r]) >= 1
    <3> DEFINE A == ApprovedOn(type[r], Day(at[r]))
    <3>1. r \in A /\ A \in SUBSET Requests /\ Day(at[r]) \in Int
      BY <2>1, Days DEF ApprovedOn, TypeOK
    <3>2. Cardinality({r}) = 1 /\ {r} \in SUBSET Requests
      BY <2>1, FS_Singleton
    <3>3. Cardinality({r}) <= Cardinality(A) /\ Cardinality(A) \in Nat
      BY <3>1, <3>2, RequestSets
    <3>4. Capped(type[r]) => Cardinality(A) <= CapFor(type[r])
      BY <2>1, <3>1 DEF IInv, Within
    <3>5. CapFor(type[r]) \in Nat
      BY <2>1, CapSane
    <3> QED BY <3>2, <3>3, <3>4, <3>5
  <2>4. caps.form \in Forms /\ caps.of[type[r]] \in Entry
    BY <2>1, GatesAssumption DEF TypeOK
  <2>5. caps.form \in {"unset", "object"}
    BY <2>3, <2>4 DEF Capped, CapFor, Forms
  <2>6. ASSUME caps.form = "object", caps.of[type[r]].kind # "absent"
        PROVE  caps.of[type[r]].kind = "int" /\ caps.of[type[r]].value > 0
    BY <2>3, <2>4, <2>6 DEF Capped, CapFor, Entry
  <2> QED BY <2>2, <2>5, <2>6
<1> QED BY <1>1, Invariant, PTL

(* create_proposal: the advisory locks end with their transactions.        *)
THEOREM LocksReturn == Spec => []LocksComeBack
<1>1. IInv => LocksComeBack
  BY DEF IInv, Shape
<1> QED BY <1>1, Invariant, PTL
=============================================================================
