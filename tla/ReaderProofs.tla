---------------------------- MODULE ReaderProofs -----------------------------
(***************************************************************************)
(* Proofs about what a reader is told, by pings (Subscriptions) and by the *)
(* inbox (ReadCursor), for any sessions, requests, writes and cap, and any *)
(* number of reads, page limit and log.                                    *)
(*                                                                         *)
(* The count kept beside the registry is right because every removal       *)
(* counts only what it really takes out, and because a session never has   *)
(* two records of one URI: replacing the old one counts down by one.  A    *)
(* write pings nobody who had left when it committed because leaving is    *)
(* for good: whoever the later query finds active had not left.            *)
(***************************************************************************)
EXTENDS Subscriptions, ReadCursor, FiniteSetTheorems, TLAPS

-----------------------------------------------------------------------------
(* The counts.                                                             *)

(* c counts the records of every agent.                                    *)
Tracks(c, records) == \A a \in Agents : c[a] = Cardinality(HeldBy(a, records))

Tallied ==
    /\ IsFiniteSet(registry)
    /\ Tracks(count, registry)
    /\ \A a \in Agents : count[a] <= MaxPerAgent /\ count[a] <= made

(* subscribe() replaces: a session has one record of a URI.                *)
Lone == \A r, x \in registry : r.uri = x.uri /\ r.session = x.session => r = x

(* The records of an agent in a finite set are finitely many, and fewer in *)
(* a part of it.                                                           *)
LEMMA HeldFinite ==
    ASSUME NEW S, IsFiniteSet(S), NEW a, NEW T \in SUBSET S
    PROVE  /\ IsFiniteSet(T)
           /\ IsFiniteSet(HeldBy(a, T))
           /\ Cardinality(HeldBy(a, T)) \in Nat
           /\ Cardinality(HeldBy(a, T)) <= Cardinality(HeldBy(a, S))
<1>1. IsFiniteSet(T)
  BY FS_Subset
<1>2. HeldBy(a, S) \in SUBSET S /\ HeldBy(a, T) \in SUBSET HeldBy(a, S)
  BY DEF HeldBy
<1>3. IsFiniteSet(HeldBy(a, S))
  BY <1>2, FS_Subset
<1> QED BY <1>1, <1>2, <1>3, FS_Subset, FS_CardinalityType

(* _drop_locked: taking records out takes out those of each agent.         *)
LEMMA HeldMinus ==
    ASSUME NEW S, IsFiniteSet(S), NEW R, NEW a
    PROVE  /\ Cardinality(HeldBy(a, S \ R))
                = Cardinality(HeldBy(a, S)) - Cardinality(HeldBy(a, S \cap R))
           /\ Cardinality(HeldBy(a, S \cap R)) <= Cardinality(HeldBy(a, S))
           /\ Cardinality(HeldBy(a, S)) \in Nat
           /\ Cardinality(HeldBy(a, S \cap R)) \in Nat
           /\ Cardinality(HeldBy(a, S \ R)) \in Nat
<1>1. S \in SUBSET S /\ S \cap R \in SUBSET S /\ S \ R \in SUBSET S
  OBVIOUS
<1>2. /\ HeldBy(a, S \ R) = HeldBy(a, S) \ HeldBy(a, R)
      /\ HeldBy(a, S \cap R) = HeldBy(a, S) \cap HeldBy(a, R)
  BY DEF HeldBy
<1>3. IsFiniteSet(HeldBy(a, S))
  BY <1>1, HeldFinite
<1>4. Cardinality(HeldBy(a, S) \ HeldBy(a, R))
        = Cardinality(HeldBy(a, S)) - Cardinality(HeldBy(a, S) \cap HeldBy(a, R))
  BY <1>3, FS_Difference
<1>5. /\ Cardinality(HeldBy(a, S)) \in Nat
      /\ Cardinality(HeldBy(a, S \cap R)) \in Nat
      /\ Cardinality(HeldBy(a, S \ R)) \in Nat
      /\ Cardinality(HeldBy(a, S \cap R)) <= Cardinality(HeldBy(a, S))
  BY <1>1, HeldFinite
<1> QED BY <1>2, <1>4, <1>5

(* remove_if_current, unsubscribe and notify's pruning: whatever is taken  *)
(* out, the count follows.                                                 *)
LEMMA DroppedTallies ==
    ASSUME TypeOK, Tallied, Lone, NEW records, Dropped(records), made' = made
    PROVE  /\ registry' \subseteq registry
           /\ count' \in [Agents -> 0..MaxRecords]
           /\ Tallied' /\ Lone'
<1> DEFINE gone(a) == Cardinality(HeldBy(a, registry \cap records))
<1>1. registry' = registry \ records
  BY DEF Dropped
<1>2. IsFiniteSet(registry')
  BY <1>1, FS_Subset DEF Tallied
<1>3. /\ count' = [a \in Agents |-> DecCount(count, a, gone(a))[a]]
      /\ count \in [Agents -> 0..MaxRecords] /\ made \in Nat
      /\ MaxPerAgent \in Nat /\ MaxRecords \in Nat
  BY SubscriptionsAssumption DEF Dropped, TypeOK
<1>4. ASSUME NEW a \in Agents
      PROVE  /\ count'[a] = Cardinality(HeldBy(a, registry'))
             /\ count'[a] \in Nat /\ count'[a] <= count[a] /\ count[a] \in Nat
  <2>1. /\ Cardinality(HeldBy(a, registry \ records)) = Cardinality(HeldBy(a, registry)) - gone(a)
        /\ gone(a) \in Nat /\ gone(a) <= Cardinality(HeldBy(a, registry))
        /\ Cardinality(HeldBy(a, registry)) \in Nat
    BY HeldMinus DEF Tallied
  <2>2. count[a] = Cardinality(HeldBy(a, registry))
    BY DEF Tallied, Tracks
  <2> HIDE DEF gone
  <2>3. count'[a] = IF count[a] > gone(a) THEN count[a] - gone(a) ELSE 0
    BY <1>3 DEF DecCount
  <2> QED BY <1>1, <2>1, <2>2, <2>3
<1>5. count' \in [Agents -> 0..MaxRecords]
  <2> HIDE DEF gone
  <2>1. \A a \in Agents : count'[a] \in 0..MaxRecords
    BY <1>3, <1>4
  <2> QED BY <1>3, <2>1
<1>6. Tallied'
  <2>1. Tracks(count, registry)'
    BY <1>4 DEF Tracks
  <2>2. ASSUME NEW a \in Agents PROVE count'[a] <= MaxPerAgent /\ count'[a] <= made'
    <3>1. made \in Nat /\ MaxPerAgent \in Nat
      BY <1>3
    <3>2. count[a] <= MaxPerAgent /\ count[a] <= made
      BY DEF Tallied
    <3>3. count'[a] \in Nat /\ count'[a] <= count[a] /\ count[a] \in Nat
      BY <1>4
    <3> QED BY <3>1, <3>2, <3>3
  <2> QED BY <1>2, <2>1, <2>2 DEF Tallied
<1>7. Lone'
  BY <1>1 DEF Lone
<1> QED BY <1>1, <1>5, <1>6, <1>7

(* What a handler carries: whose request it is, and the record it made.    *)
Carried ==
    \A q \in Requests :
        /\ req[q].pc \notin {"new", "ended"} => req[q].uri \in URIs /\ req[q].session \in Sessions
        /\ req[q].pc = "audit" => req[q].id \in 1..MaxRecords

(* subscribe(): the old record is counted down, a sweep at the cap recounts *)
(* the agent, and the new record is counted once.                          *)
LEMMA RegisterTallies ==
    ASSUME TypeOK, Carried, Tallied, Lone, NEW q \in Requests, Register(q)
    PROVE  /\ registry' \subseteq Record
           /\ count' \in [Agents -> 0..MaxRecords]
           /\ Tallied' /\ Lone'
<1> DEFINE u == req[q].uri
           s == req[q].session
           a == AgentOf[s]
           old == {r \in registry : r.uri = u /\ r.session = s}
           kept == registry \ old
           lower == IF old = {} THEN count ELSE DecCount(count, a, 1)
           full == lower[a] >= MaxPerAgent
           swept == IF full THEN Reclaimed(a, kept) ELSE kept
           tally == IF full THEN [lower EXCEPT ![a] = Cardinality(HeldBy(a, swept))] ELSE lower
           new == [id |-> made + 1, uri |-> u, session |-> s,
                   origin |-> IF old = {} THEN made + 1 ELSE (CHOOSE r \in old : TRUE).origin]
<1>0. req[q].pc = "register" /\ made < MaxRecords
  BY DEF Register
<1>1. \/ registry' = swept /\ count' = tally /\ made' = made
      \/ /\ ~(tally[a] >= MaxPerAgent)
         /\ registry' = swept \cup {new}
         /\ count' = [tally EXCEPT ![a] = @ + 1]
         /\ made' = made + 1
  BY DEF Register
<1>2. /\ u \in URIs /\ s \in Sessions /\ a \in Agents
      /\ made \in Nat /\ MaxRecords \in Nat /\ MaxPerAgent \in Nat \ {0}
      /\ registry \subseteq Record /\ count \in [Agents -> 0..MaxRecords]
      /\ IsFiniteSet(registry)
  <2>1. u \in URIs /\ s \in Sessions
    BY <1>0 DEF Carried
  <2>2. a \in Agents /\ MaxRecords \in Nat /\ MaxPerAgent \in Nat \ {0}
    BY <2>1, SubscriptionsAssumption
  <2>3. made \in Nat /\ registry \subseteq Record /\ count \in [Agents -> 0..MaxRecords]
    BY <2>2 DEF TypeOK
  <2> QED BY <2>1, <2>2, <2>3 DEF Tallied
<1>3. old = {} \/ \E o \in registry : old = {o}
  BY DEF Lone
<1>4. \A r \in old : AgentOfRecord(r) = a
  BY DEF AgentOfRecord
<1>5. new \in Record /\ new.uri = u /\ new.session = s /\ AgentOfRecord(new) = a
  <2> DEFINE o == IF old = {} THEN made + 1 ELSE (CHOOSE r \in old : TRUE).origin
  <2>1. ASSUME old # {} PROVE o \in 1..MaxRecords
    <3>1. (CHOOSE r \in old : TRUE) \in registry
      BY <2>1
    <3> QED BY <1>2, <2>1, <3>1 DEF Record
  <2>2. made + 1 \in 1..MaxRecords
    <3>1. made \in Nat /\ MaxRecords \in Nat
      BY <1>2
    <3> QED BY <1>0, <3>1
  <2>3. o \in 1..MaxRecords
    BY <2>1, <2>2
  <2>4. new = [id |-> made + 1, uri |-> u, session |-> s, origin |-> o]
    OBVIOUS
  <2> HIDE DEF new, o, u, s, a
  <2>5. new \in Record /\ new.uri = u /\ new.session = s
    BY <1>2, <2>2, <2>3, <2>4 DEF Record
  <2> QED BY <2>5 DEF AgentOfRecord, a
<1> HIDE DEF new
<1>6. /\ lower \in [Agents -> Nat] /\ Tracks(lower, kept)
      /\ \A b \in Agents : lower[b] <= count[b]
  <2>1. CASE old = {}
    <3>1. kept = registry /\ lower = count
      BY <2>1
    <3>2. \A b \in Agents : count[b] \in Nat
      BY <1>2
    <3> HIDE DEF kept, lower
    <3> QED BY <1>2, <3>1, <3>2 DEF Tallied
  <2>2. ASSUME NEW o \in registry, old = {o} PROVE <1>6!:
    <3>1. ASSUME NEW b \in Agents
          PROVE  /\ Cardinality(HeldBy(b, kept)) = IF b = a THEN count[b] - 1 ELSE count[b]
                 /\ count[b] \in Nat /\ (b = a => count[b] >= 1)
      <4>1. /\ Cardinality(HeldBy(b, registry \ {o}))
                  = Cardinality(HeldBy(b, registry)) - Cardinality(HeldBy(b, registry \cap {o}))
            /\ Cardinality(HeldBy(b, registry \cap {o})) <= Cardinality(HeldBy(b, registry))
        BY <1>2, HeldMinus
      <4>2. HeldBy(b, registry \cap {o}) = IF b = a THEN {o} ELSE {}
        BY <1>4, <2>2 DEF HeldBy
      <4>3. Cardinality({o}) = 1 /\ Cardinality({}) = 0
        BY FS_Singleton, FS_EmptySet
      <4>4. count[b] = Cardinality(HeldBy(b, registry)) /\ count[b] \in Nat
        BY <1>2 DEF Tallied, Tracks
      <4>5. kept = registry \ {o}
        BY <2>2
      <4> HIDE DEF kept, a
      <4>6. Cardinality(HeldBy(b, registry \cap {o})) = IF b = a THEN 1 ELSE 0
        BY <4>2, <4>3
      <4> QED BY <4>1, <4>4, <4>5, <4>6
    <3>2. lower = [count EXCEPT ![a] = IF @ > 1 THEN @ - 1 ELSE 0]
      BY <2>2 DEF DecCount
    <3> HIDE DEF lower, kept, a
    <3>3. \A b \in Agents : lower[b] = Cardinality(HeldBy(b, kept)) /\ lower[b] \in Nat
                               /\ lower[b] <= count[b]
      BY <1>2, <3>1, <3>2
    <3>4. lower \in [Agents -> Nat]
      BY <1>2, <3>2, <3>3
    <3> QED BY <3>3, <3>4 DEF Tracks
  <2> QED BY <1>3, <2>1, <2>2
<1>7. /\ IsFiniteSet(kept) /\ kept \subseteq registry
      /\ \A r \in kept : ~(r.uri = u /\ r.session = s)
  BY <1>2, FS_Subset
<1>8. swept \subseteq kept /\ IsFiniteSet(swept)
  <2>1. swept \subseteq kept
    BY DEF Reclaimed
  <2> QED BY <1>7, <2>1, FS_Subset
<1>9. /\ tally \in [Agents -> Nat] /\ Tracks(tally, swept)
      /\ \A b \in Agents : tally[b] <= count[b]
  <2>1. CASE ~full
    <3>1. tally = lower /\ swept = kept
      BY <2>1
    <3> HIDE DEF tally, lower, swept, kept
    <3> QED BY <1>6, <3>1
  <2>2. CASE full
    <3>1. swept = Reclaimed(a, kept) /\ tally = [lower EXCEPT ![a] = Cardinality(HeldBy(a, swept))]
      BY <2>2
    <3> HIDE DEF tally, lower, swept, kept, full, a
    <3>2. \A b \in Agents : b # a => HeldBy(b, swept) = HeldBy(b, kept)
      BY <3>1 DEF HeldBy, Reclaimed
    <3>3. /\ Cardinality(HeldBy(a, swept)) \in Nat
          /\ Cardinality(HeldBy(a, swept)) <= Cardinality(HeldBy(a, kept))
      BY <1>7, <1>8, HeldFinite
    <3>4. \A b \in Agents : lower[b] = Cardinality(HeldBy(b, kept))
      BY <1>6 DEF Tracks
    <3>5. \A b \in Agents : count[b] \in Nat
      BY <1>2
    <3>6. tally \in [Agents -> Nat]
      BY <1>6, <3>1, <3>3
    <3>7. \A b \in Agents : tally[b] = IF b = a THEN Cardinality(HeldBy(a, swept)) ELSE lower[b]
      BY <1>6, <3>1
    <3>8. Tracks(tally, swept)
      BY <3>2, <3>4, <3>7 DEF Tracks
    <3>9. \A b \in Agents : tally[b] <= count[b]
      BY <1>2, <1>6, <3>3, <3>4, <3>5, <3>7
    <3> QED BY <3>6, <3>8, <3>9
  <2> QED BY <2>1, <2>2
<1> HIDE DEF tally, lower, swept, kept, full, a, u, s
<1>10. ASSUME NEW b \in Agents
       PROVE  /\ tally[b] \in Nat /\ count[b] \in Nat /\ tally[b] <= count[b]
              /\ count[b] <= MaxPerAgent /\ count[b] <= made /\ count[b] <= MaxRecords
              /\ tally[b] = Cardinality(HeldBy(b, swept))
  BY <1>2, <1>9 DEF Tallied, Tracks
<1>11. swept \subseteq registry
  BY <1>7, <1>8
<1>12. CASE registry' = swept /\ count' = tally /\ made' = made
  <2>1. \A b \in Agents : tally[b] \in 0..MaxRecords
    BY <1>2, <1>10
  <2>2. count' \in [Agents -> 0..MaxRecords]
    BY <1>9, <1>12, <2>1
  <2>3. \A b \in Agents : tally[b] <= MaxPerAgent /\ tally[b] <= made
    BY <1>2, <1>10
  <2>4. Tallied'
    BY <1>8, <1>9, <1>12, <2>3 DEF Tallied, Tracks
  <2>5. Lone' /\ registry' \subseteq Record
    BY <1>2, <1>11, <1>12 DEF Lone
  <2> QED BY <2>2, <2>4, <2>5
<1>13. CASE /\ ~(tally[a] >= MaxPerAgent)
            /\ registry' = swept \cup {new}
            /\ count' = [tally EXCEPT ![a] = @ + 1]
            /\ made' = made + 1
  <2>1. new \notin swept
    BY <1>5, <1>7, <1>8
  <2>2. \A b \in Agents : HeldBy(b, swept \cup {new})
                            = IF b = a THEN HeldBy(b, swept) \cup {new} ELSE HeldBy(b, swept)
    BY <1>5 DEF HeldBy
  <2>3. /\ IsFiniteSet(HeldBy(a, swept))
        /\ new \notin HeldBy(a, swept)
    BY <1>8, <2>1, HeldFinite DEF HeldBy
  <2>4. Cardinality(HeldBy(a, swept) \cup {new}) = Cardinality(HeldBy(a, swept)) + 1
    BY <2>3, FS_AddElement
  <2>5. ASSUME NEW b \in Agents
        PROVE  /\ count'[b] = Cardinality(HeldBy(b, registry'))
               /\ count'[b] <= MaxPerAgent /\ count'[b] <= made' /\ count'[b] \in 0..MaxRecords
    <3>1. count'[b] = IF b = a THEN tally[b] + 1 ELSE tally[b]
      BY <1>9, <1>13
    <3>2. Cardinality(HeldBy(b, registry')) = IF b = a THEN tally[b] + 1 ELSE tally[b]
      BY <1>10, <1>13, <2>2, <2>4
    <3>3. b = a => tally[b] < MaxPerAgent
      BY <1>2, <1>10, <1>13
    <3>4. made < MaxRecords /\ made' = made + 1
      BY <1>0, <1>13
    <3> QED BY <1>2, <1>10, <3>1, <3>2, <3>3, <3>4
  <2>6. count' \in [Agents -> 0..MaxRecords]
    BY <1>9, <1>13, <2>5
  <2>7. IsFiniteSet(registry')
    BY <1>8, <1>13, FS_AddElement
  <2>8. Tallied'
    BY <2>5, <2>7 DEF Tallied, Tracks
  <2>9. Lone'
    BY <1>5, <1>7, <1>8, <1>11, <1>13 DEF Lone
  <2>10. registry' \subseteq Record
    BY <1>2, <1>5, <1>11, <1>13
  <2> QED BY <2>6, <2>8, <2>9, <2>10
<1> QED BY <1>1, <1>12, <1>13

-----------------------------------------------------------------------------
(* The invariant.                                                          *)

(* Leaving is for good: who had left when a write committed is still gone  *)
(* when its recipients are queried, so the conversation's filter, the      *)
(* agents found active, has none of them.                                  *)
Departures ==
    /\ \A w \in Writes : write[w].pc = "committed" => write[w].gone \subseteq Departed(status)
    /\ \A t \in Writes \X URIs : t[2] = Conversation => task[t].filter \cap task[t].gone = {}

IInv ==
    /\ TypeOK /\ Carried
    /\ Tallied /\ Lone
    /\ SubscriptionsAudited
    /\ Departures

LEMMA InitIInv == Init => IInv
<1> SUFFICES ASSUME Init PROVE IInv
  OBVIOUS
<1> USE SubscriptionsAssumption
<1>1. NoRequest \in Request /\ NoRequest.pc = "new"
  BY DEF NoRequest, Request
<1>2. NoWrite \in Write /\ NoWrite.pc = "new"
  BY DEF NoWrite, Write
<1>3. NoTask \in Task /\ NoTask.filter = {}
  BY DEF NoTask, Task
<1>4. TypeOK
  BY <1>1, <1>2, <1>3 DEF Init, TypeOK
<1>5. Carried
  BY <1>1 DEF Init, Carried
<1>6. Tallied /\ Lone
  <2>1. \A a \in Agents : HeldBy(a, registry) = {}
    BY DEF Init, HeldBy
  <2>2. IsFiniteSet({}) /\ Cardinality({}) = 0
    BY FS_EmptySet
  <2>3. registry = {} /\ made = 0 /\ \A a \in Agents : count[a] = 0
    BY DEF Init
  <2>4. Tracks(count, registry)
    BY <2>1, <2>2, <2>3 DEF Tracks
  <2>5. \A a \in Agents : count[a] <= MaxPerAgent /\ count[a] <= made
    BY <2>3
  <2> QED BY <2>2, <2>3, <2>4, <2>5 DEF Tallied, Lone
<1>7. SubscriptionsAudited /\ Departures
  BY <1>2, <1>3 DEF Init, SubscriptionsAudited, Departures
<1> QED BY <1>4, <1>5, <1>6, <1>7 DEF IInv

-----------------------------------------------------------------------------
(* What the steps have in common.                                          *)

(* The state of the conversation, its writers and its pings stays.         *)
OthersStay == UNCHANGED <<status, write, task>>

(* A handler's next local state.                                           *)
LEMMA ReqStep ==
    ASSUME TypeOK, Carried, NEW q \in Requests, NEW v \in Request,
           v.pc \notin {"new", "ended"} => v.uri \in URIs /\ v.session \in Sessions,
           v.pc = "audit" => v.id \in 1..MaxRecords,
           req' = [req EXCEPT ![q] = v]
    PROVE  req' \in [Requests -> Request] /\ Carried' /\ req'[q] = v
<1>1. req \in [Requests -> Request]
  BY DEF TypeOK
<1> QED BY <1>1 DEF Carried

(* A handler that has ended, and one that goes on with what it has.        *)
LEMMA EndedRequest ==
    /\ Ended \in Request /\ Ended.pc = "ended"
BY SubscriptionsAssumption DEF Ended, NoRequest, Request

LEMMA NextRequest ==
    ASSUME TypeOK, Carried, NEW q \in Requests, req[q].pc \notin {"new", "ended"},
           NEW l \in {"unaudit", "remove"}
    PROVE  LET v == [req[q] EXCEPT !.pc = l] IN
           v \in Request /\ v.pc = l /\ v.uri \in URIs /\ v.session \in Sessions
<1>1. req[q] \in Request /\ req[q].uri \in URIs /\ req[q].session \in Sessions
  BY DEF TypeOK, Carried
<1> QED BY <1>1 DEF Request

(* A subscription stays accounted for when the handler that ends was not   *)
(* auditing, or its record has an audit row, is orphaned or is gone.       *)
LEMMA StaysAudited ==
    ASSUME TypeOK, SubscriptionsAudited, registry' \subseteq registry,
           audited \subseteq audited', orphaned \subseteq orphaned',
           NEW q \in Requests, NEW v, req' = [req EXCEPT ![q] = v],
           req[q].pc = "audit" => \A r \in registry' :
                r.origin = req[q].id => r.origin \in audited' \cup orphaned'
    PROVE  SubscriptionsAudited'
<1> SUFFICES ASSUME NEW r \in registry'
             PROVE  \/ r.origin \in audited' \cup orphaned'
                    \/ \E x \in Requests : req'[x].pc = "audit" /\ req'[x].id = r.origin
  BY DEF SubscriptionsAudited
<1>1. CASE r.origin \in audited \cup orphaned
  BY <1>1
<1>2. ASSUME NEW x \in Requests, req[x].pc = "audit", req[x].id = r.origin
      PROVE  \/ r.origin \in audited' \cup orphaned'
             \/ \E y \in Requests : req'[y].pc = "audit" /\ req'[y].id = r.origin
  <2>1. CASE x = q
    BY <1>2, <2>1
  <2>2. CASE x # q
    <3>1. req'[x] = req[x]
      BY <2>2 DEF TypeOK
    <3> QED BY <1>2, <3>1
  <2> QED BY <2>1, <2>2
<1> QED BY <1>1, <1>2 DEF SubscriptionsAudited

(* A handler step that leaves the registry and the history alone.          *)
LEMMA QuietStep ==
    ASSUME IInv, NEW q \in Requests, NEW v \in Request,
           v.pc \notin {"new", "ended"} => v.uri \in URIs /\ v.session \in Sessions,
           v.pc # "audit", req[q].pc # "audit",
           req' = [req EXCEPT ![q] = v],
           UNCHANGED <<registry, count, made, session, status, write, task, audited, orphaned>>
    PROVE  IInv'
<1>1. TypeOK /\ Carried /\ Tallied /\ Lone /\ SubscriptionsAudited /\ Departures
  BY DEF IInv
<1>2. req' \in [Requests -> Request] /\ Carried'
  BY <1>1, ReqStep
<1>3. TypeOK'
  BY <1>1, <1>2 DEF TypeOK
<1>4. Tallied' /\ Lone'
  BY <1>1 DEF Tallied, Tracks, Lone
<1>5. SubscriptionsAudited'
  BY <1>1, StaysAudited
<1>6. Departures'
  BY <1>1 DEF Departures, Departed
<1> QED BY <1>2, <1>3, <1>4, <1>5, <1>6 DEF IInv

-----------------------------------------------------------------------------
(* The handlers.                                                           *)

(* Denied or not, asking to subscribe or unsubscribe only starts a call.   *)
LEMMA ArriveKeeps ==
    ASSUME IInv, NEW q \in Requests, NEW s \in Sessions, NEW u \in URIs,
           NEW l \in {"register", "peek"}, Arrive(q, s, u, l)
    PROVE  IInv'
<1> DEFINE v == [req[q] EXCEPT !.pc = l, !.uri = u, !.session = s]
<1>1. req[q] \in Request /\ req[q].pc = "new"
  BY DEF IInv, TypeOK, Arrive
<1>2. v \in Request /\ v.pc = l /\ v.uri = u /\ v.session = s
  BY <1>1 DEF Request
<1>3. req' = [req EXCEPT ![q] = v]
  BY DEF Arrive
<1> HIDE DEF v
<1> QED BY <1>1, <1>2, <1>3, QuietStep DEF Arrive

(* is_subscribed, the audit row of unsubscribe, and giving up.             *)
LEMMA PeekKeeps ==
    ASSUME IInv, NEW q \in Requests, Peek(q)
    PROVE  IInv'
<1>1. req[q].pc = "peek" /\ TypeOK /\ Carried
  BY DEF IInv, Peek
<1> DEFINE v == [req[q] EXCEPT !.pc = "unaudit"]
<1>2. v \in Request /\ v.pc = "unaudit" /\ v.uri \in URIs /\ v.session \in Sessions
  BY <1>1, NextRequest
<1>3. req' = [req EXCEPT ![q] = v] \/ req' = [req EXCEPT ![q] = Ended]
  BY <1>1 DEF Peek, TypeOK
<1> HIDE DEF v
<1> QED BY <1>1, <1>2, <1>3, QuietStep, EndedRequest DEF Peek

LEMMA AuditUnsubscribeKeeps ==
    ASSUME IInv, NEW q \in Requests, AuditUnsubscribe(q)
    PROVE  IInv'
<1>1. req[q].pc = "unaudit" /\ TypeOK /\ Carried
  BY DEF IInv, AuditUnsubscribe
<1> DEFINE v == [req[q] EXCEPT !.pc = "remove"]
<1>2. v \in Request /\ v.pc = "remove" /\ v.uri \in URIs /\ v.session \in Sessions
  BY <1>1, NextRequest
<1>3. req' = [req EXCEPT ![q] = v]
  BY DEF AuditUnsubscribe
<1> HIDE DEF v
<1> QED BY <1>1, <1>2, <1>3, QuietStep DEF AuditUnsubscribe

LEMMA GiveUpKeeps ==
    ASSUME IInv, NEW q \in Requests, GiveUp(q)
    PROVE  IInv'
BY QuietStep, EndedRequest DEF GiveUp

(* subscribe(): the new record is its own origin and its handler goes on   *)
(* to audit it, or it has the origin of the record it replaces.            *)
LEMMA RegisterKeeps ==
    ASSUME IInv, NEW q \in Requests, Register(q)
    PROVE  IInv'
<1> DEFINE u == req[q].uri
           s == req[q].session
           a == AgentOf[s]
           old == {r \in registry : r.uri = u /\ r.session = s}
           kept == registry \ old
           lower == IF old = {} THEN count ELSE DecCount(count, a, 1)
           full == lower[a] >= MaxPerAgent
           swept == IF full THEN Reclaimed(a, kept) ELSE kept
           tally == IF full THEN [lower EXCEPT ![a] = Cardinality(HeldBy(a, swept))] ELSE lower
           new == [id |-> made + 1, uri |-> u, session |-> s,
                   origin |-> IF old = {} THEN made + 1 ELSE (CHOOSE r \in old : TRUE).origin]
           v == [req[q] EXCEPT !.pc = "audit", !.id = made + 1]
<1>1. TypeOK /\ Carried /\ Tallied /\ Lone /\ SubscriptionsAudited /\ Departures
  BY DEF IInv
<1>2. /\ req[q].pc = "register" /\ made < MaxRecords
      /\ UNCHANGED <<session, status, write, task, audited, orphaned>>
  BY DEF Register
<1>3. \/ registry' = swept /\ req' = [req EXCEPT ![q] = Ended] /\ made' = made
      \/ /\ registry' = swept \cup {new} /\ made' = made + 1
         /\ req' = [req EXCEPT ![q] = IF old = {} THEN v ELSE Ended]
  BY DEF Register
<1>4. swept \subseteq registry
  BY DEF Reclaimed
<1>5. \/ req' = [req EXCEPT ![q] = Ended] /\ registry' \subseteq registry
      \/ /\ old = {} /\ req' = [req EXCEPT ![q] = v]
         /\ \A r \in registry' : r \in registry \/ r.origin = made + 1
      \/ /\ old # {} /\ req' = [req EXCEPT ![q] = Ended]
         /\ \A r \in registry' : \E x \in registry : r.origin = x.origin
  <2>1. old # {} => \E x \in registry : new.origin = x.origin
    BY DEF new
  <2>2. old = {} => new.origin = made + 1
    OBVIOUS
  <2> HIDE DEF new, v, swept, old
  <2> QED BY <1>3, <1>4, <2>1, <2>2
<1>6. made' \in 0..MaxRecords /\ made + 1 \in 1..MaxRecords
  <2>1. made \in Nat /\ MaxRecords \in Nat
    BY <1>1, SubscriptionsAssumption DEF TypeOK
  <2>2. made' = made \/ made' = made + 1
    BY <1>3
  <2> QED BY <1>2, <2>1, <2>2
<1>7. v \in Request /\ v.pc = "audit" /\ v.id = made + 1 /\ v.uri \in URIs /\ v.session \in Sessions
  <2>1. req[q] \in Request /\ req[q].uri \in URIs /\ req[q].session \in Sessions
    BY <1>1, <1>2 DEF TypeOK, Carried
  <2>2. made + 1 \in 0..MaxRecords
    BY <1>6
  <2> QED BY <2>1, <2>2 DEF Request
<1> HIDE DEF u, s, a, old, kept, lower, full, swept, tally, new, v
<1>8. req' \in [Requests -> Request] /\ Carried'
  BY <1>1, <1>5, <1>6, <1>7, ReqStep, EndedRequest
<1>9. /\ registry' \subseteq Record /\ count' \in [Agents -> 0..MaxRecords]
      /\ Tallied' /\ Lone'
  BY <1>1, RegisterTallies
<1>10. TypeOK'
  BY <1>1, <1>2, <1>6, <1>8, <1>9 DEF TypeOK
<1>11. SubscriptionsAudited'
  <2>1. ASSUME NEW r \in registry', NEW x \in registry, r.origin = x.origin,
               req' = [req EXCEPT ![q] = Ended] \/ req' = [req EXCEPT ![q] = v]
        PROVE  \/ r.origin \in audited' \cup orphaned'
               \/ \E y \in Requests : req'[y].pc = "audit" /\ req'[y].id = r.origin
    <3>1. CASE x.origin \in audited \cup orphaned
      BY <1>2, <2>1, <3>1
    <3>2. ASSUME NEW y \in Requests, req[y].pc = "audit", req[y].id = x.origin
          PROVE  req'[y].pc = "audit" /\ req'[y].id = r.origin
      <4>1. y # q
        BY <1>2, <3>2
      <4>2. req'[y] = req[y]
        BY <1>1, <2>1, <4>1 DEF TypeOK
      <4> QED BY <2>1, <3>2, <4>2
    <3> QED BY <1>1, <3>1, <3>2 DEF SubscriptionsAudited
  <2>2. ASSUME req' = [req EXCEPT ![q] = v]
        PROVE  req'[q].pc = "audit" /\ req'[q].id = made + 1
    BY <1>1, <1>7, <2>2, ReqStep, <1>6
  <2> QED BY <1>5, <2>1, <2>2 DEF SubscriptionsAudited
<1>12. Departures'
  BY <1>1, <1>2 DEF Departures, Departed
<1> QED BY <1>8, <1>9, <1>10, <1>11, <1>12 DEF IInv

(* The audit row is committed.                                             *)
LEMMA AuditSubscribeKeeps ==
    ASSUME IInv, NEW q \in Requests, AuditSubscribe(q)
    PROVE  IInv'
<1>1. TypeOK /\ Carried /\ Tallied /\ Lone /\ SubscriptionsAudited /\ Departures
  BY DEF IInv
<1>2. /\ req[q].pc = "audit" /\ audited' = audited \cup {req[q].id}
      /\ req' = [req EXCEPT ![q] = Ended]
      /\ UNCHANGED <<registry, count, made, session, status, write, task, orphaned>>
  BY DEF AuditSubscribe
<1>3. req' \in [Requests -> Request] /\ Carried'
  BY <1>1, <1>2, ReqStep, EndedRequest
<1>4. req[q].id \in 1..MaxRecords
  BY <1>1, <1>2 DEF Carried
<1>5. TypeOK'
  BY <1>1, <1>2, <1>3, <1>4 DEF TypeOK
<1>6. Tallied' /\ Lone'
  BY <1>1, <1>2 DEF Tallied, Tracks, Lone
<1>7. SubscriptionsAudited'
  BY <1>1, <1>2, StaysAudited
<1>8. Departures'
  BY <1>1, <1>2 DEF Departures, Departed
<1> QED BY <1>3, <1>5, <1>6, <1>7, <1>8 DEF IInv

(* remove_if_current: a record that took this one's place is the race      *)
(* main.py accepts, and orphaned says so.                                  *)
LEMMA AuditFailsKeeps ==
    ASSUME IInv, NEW q \in Requests, AuditFails(q)
    PROVE  IInv'
<1> DEFINE id == req[q].id
           mine == {r \in registry : r.id = id}
<1>1. TypeOK /\ Carried /\ Tallied /\ Lone /\ SubscriptionsAudited /\ Departures
  BY DEF IInv
<1>2. /\ req[q].pc = "audit" /\ Dropped(mine)
      /\ audited' \in {audited, audited \cup {id}}
      /\ orphaned' = IF \E r \in registry \ mine : r.origin = id
                     THEN orphaned \cup {id} ELSE orphaned
      /\ req' = [req EXCEPT ![q] = Ended]
      /\ UNCHANGED <<made, session, status, write, task>>
  BY DEF AuditFails
<1>3. req' \in [Requests -> Request] /\ Carried'
  BY <1>1, <1>2, ReqStep, EndedRequest
<1>4. id \in 1..MaxRecords
  BY <1>1, <1>2 DEF Carried
<1>5. registry' = registry \ mine
  BY <1>2 DEF Dropped
<1> HIDE DEF mine, id
<1>6. /\ registry' \subseteq registry /\ count' \in [Agents -> 0..MaxRecords]
      /\ Tallied' /\ Lone'
  BY <1>1, <1>2, DroppedTallies
<1>7. TypeOK'
  BY <1>1, <1>2, <1>3, <1>4, <1>6 DEF TypeOK
<1>8. SubscriptionsAudited'
  <2>1. \A r \in registry' : r.origin = id => r.origin \in orphaned'
    BY <1>2, <1>5
  <2>2. audited \subseteq audited' /\ orphaned \subseteq orphaned'
    BY <1>2
  <2> QED BY <1>1, <1>2, <1>6, <2>1, <2>2, StaysAudited DEF id
<1>9. Departures'
  BY <1>1, <1>2 DEF Departures, Departed
<1> QED BY <1>3, <1>6, <1>7, <1>8, <1>9 DEF IInv

LEMMA UnsubscribeKeeps ==
    ASSUME IInv, NEW q \in Requests, Unsubscribe(q)
    PROVE  IInv'
<1> DEFINE mine == {r \in registry : r.uri = req[q].uri /\ r.session = req[q].session}
<1>1. TypeOK /\ Carried /\ Tallied /\ Lone /\ SubscriptionsAudited /\ Departures
  BY DEF IInv
<1>2. /\ req[q].pc = "remove" /\ Dropped(mine)
      /\ req' = [req EXCEPT ![q] = Ended]
      /\ UNCHANGED <<made, session, status, write, task, audited, orphaned>>
  BY DEF Unsubscribe
<1> HIDE DEF mine
<1>3. req' \in [Requests -> Request] /\ Carried'
  BY <1>1, <1>2, ReqStep, EndedRequest
<1>4. /\ registry' \subseteq registry /\ count' \in [Agents -> 0..MaxRecords]
      /\ Tallied' /\ Lone'
  BY <1>1, <1>2, DroppedTallies
<1>5. TypeOK'
  BY <1>1, <1>2, <1>3, <1>4 DEF TypeOK
<1>6. SubscriptionsAudited'
  BY <1>1, <1>2, <1>4, StaysAudited
<1>7. Departures'
  BY <1>1, <1>2 DEF Departures, Departed
<1> QED BY <1>3, <1>4, <1>5, <1>6, <1>7 DEF IInv

-----------------------------------------------------------------------------
(* The write tools.                                                        *)

(* A step that leaves the registry, its counts, the handlers and the       *)
(* history alone.                                                          *)
LEMMA RegistryStays ==
    ASSUME IInv, UNCHANGED <<registry, count, made, req, audited, orphaned>>,
           session' \in [Sessions -> {"open", "closed", "collected"}],
           status' \in [Agents -> Statuses],
           write' \in [Writes -> Write], task' \in [Writes \X URIs -> Task],
           Departures'
    PROVE  IInv'
<1>1. TypeOK /\ Carried /\ Tallied /\ Lone /\ SubscriptionsAudited
  BY DEF IInv
<1>2. TypeOK'
  BY <1>1 DEF TypeOK
<1>3. Carried' /\ Tallied' /\ Lone' /\ SubscriptionsAudited'
  BY <1>1 DEF Carried, Tallied, Tracks, Lone, SubscriptionsAudited
<1> QED BY <1>2, <1>3 DEF IInv

(* A write commits: nobody who had left comes back, and it remembers who   *)
(* has left by then.                                                       *)
LEMMA CommitKeeps ==
    ASSUME IInv, NEW w \in Writes, NEW st \in [Agents -> Statuses],
           Departed(status) \subseteq Departed(st),
           NEW fanout \in BOOLEAN, NEW agents \in SUBSET Agents,
           Commit(w, st, fanout, agents)
    PROVE  IInv'
<1> DEFINE v == [pc |-> "committed", fanout |-> fanout, agents |-> agents, gone |-> Departed(st)]
<1>1. TypeOK /\ Departures
  BY DEF IInv
<1>2. v \in Write /\ v.gone = Departed(st)
  BY DEF Write, Departed
<1>3. /\ status' = st /\ write' = [write EXCEPT ![w] = v]
      /\ UNCHANGED <<registry, count, made, session, req, task, audited, orphaned>>
  BY DEF Commit
<1> HIDE DEF v
<1>4. write \in [Writes -> Write]
  BY <1>1 DEF TypeOK
<1>5. write' \in [Writes -> Write]
      /\ \A x \in Writes : write'[x] = IF x = w THEN v ELSE write[x]
  BY <1>2, <1>3, <1>4
<1>6. Departures'
  <2>1. Departed(status) \subseteq Departed(status')
    BY <1>3
  <2>2. \A x \in Writes : write'[x].pc = "committed" => write'[x].gone \subseteq Departed(status')
    BY <1>1, <1>2, <1>3, <1>5, <2>1 DEF Departures
  <2>3. task' = task
    BY <1>3
  <2> QED BY <1>1, <2>2, <2>3 DEF Departures, Departed
<1>7. /\ session' \in [Sessions -> {"open", "closed", "collected"}]
      /\ status' \in [Agents -> Statuses] /\ task' \in [Writes \X URIs -> Task]
  BY <1>1, <1>3 DEF TypeOK
<1> QED BY <1>3, <1>5, <1>6, <1>7, RegistryStays

(* One participant's status changes, and it had not left.                  *)
LEMMA StatusChange ==
    ASSUME TypeOK, NEW a \in Agents, status[a] \in {"none", "invited", "active"},
           NEW x \in Statuses
    PROVE  /\ [status EXCEPT ![a] = x] \in [Agents -> Statuses]
           /\ Departed(status) \subseteq Departed([status EXCEPT ![a] = x])
<1>1. status \in [Agents -> Statuses]
  BY DEF TypeOK
<1> QED BY <1>1 DEF Departed

(* notify_conversation_event: whom the query finds active had not left.    *)
LEMMA ScheduleKeeps ==
    ASSUME IInv, NEW w \in Writes, Schedule(w)
    PROVE  IInv'
<1>1. TypeOK /\ Departures
  BY DEF IInv
<1>2. PICK active \in {Active, {}} :
        LET inboxes == IF write[w].fanout THEN active \ write[w].agents
                       ELSE write[w].agents IN
        task' = [wu \in Writes \X URIs |->
                   IF wu[1] # w \/ wu[2] \notin inboxes \cup {Conversation} THEN task[wu]
                   ELSE [NoTask EXCEPT !.pc = "scheduled", !.gone = write[w].gone,
                                       !.filter = IF wu[2] = Conversation THEN active ELSE Agents]]
  BY DEF Schedule
<1> DEFINE inboxes == IF write[w].fanout THEN active \ write[w].agents ELSE write[w].agents
           new(u) == [NoTask EXCEPT !.pc = "scheduled", !.gone = write[w].gone,
                                    !.filter = IF u = Conversation THEN active ELSE Agents]
<1>3. task' = [t \in Writes \X URIs |->
                 IF t[1] # w \/ t[2] \notin inboxes \cup {Conversation} THEN task[t] ELSE new(t[2])]
  BY <1>2
<1>4. /\ write[w].pc = "committed"
      /\ write' = [write EXCEPT ![w] = [NoWrite EXCEPT !.pc = "ended"]]
      /\ UNCHANGED <<registry, count, made, session, req, status, audited, orphaned>>
  BY DEF Schedule
<1>5. /\ active \subseteq Agents /\ active \cap Departed(status) = {}
      /\ write[w].gone \subseteq Agents /\ write[w].gone \subseteq Departed(status)
      /\ write \in [Writes -> Write] /\ task \in [Writes \X URIs -> Task]
  BY <1>1, <1>4 DEF Active, Departed, Departures, TypeOK, Write
<1>6. ASSUME NEW u \in URIs
      PROVE  /\ new(u) \in Task
             /\ u = Conversation => new(u).filter \cap new(u).gone = {}
  <2>1. /\ new(u).pc = "scheduled" /\ new(u).todo = {} /\ new(u).dead = {}
        /\ new(u).gone = write[w].gone
        /\ new(u).filter = IF u = Conversation THEN active ELSE Agents
    BY DEF NoTask
  <2> DEFINE f == IF u = Conversation THEN active ELSE Agents
  <2>2. NoTask \in Task /\ f \in SUBSET Agents /\ write[w].gone \in SUBSET Agents
    BY <1>5 DEF NoTask, Task
  <2>3. new(u) = [NoTask EXCEPT !.pc = "scheduled", !.gone = write[w].gone, !.filter = f]
    OBVIOUS
  <2> HIDE DEF new, f
  <2>4. new(u) \in Task
    BY <2>2, <2>3 DEF Task
  <2> QED BY <1>5, <2>1, <2>4
<1> HIDE DEF new, inboxes
<1>7. ASSUME NEW t \in Writes \X URIs
      PROVE  /\ task'[t] \in Task
             /\ t[2] = Conversation => task'[t].filter \cap task'[t].gone = {}
  <2>1. t[2] \in URIs /\ task[t] \in Task
    BY <1>5
  <2>2. task'[t] = task[t] \/ task'[t] = new(t[2])
    BY <1>3
  <2> QED BY <1>1, <1>6, <2>1, <2>2 DEF Departures
<1>8. task' \in [Writes \X URIs -> Task]
  BY <1>3, <1>7
<1> DEFINE e == [NoWrite EXCEPT !.pc = "ended"]
<1>9. e \in Write /\ e.pc = "ended"
  BY DEF NoWrite, Write
<1> HIDE DEF e
<1>10. /\ write' \in [Writes -> Write]
       /\ \A x \in Writes : write'[x] = IF x = w THEN e ELSE write[x]
  BY <1>4, <1>5, <1>9 DEF e
<1>11. Departures'
  <2>1. \A x \in Writes : write'[x].pc = "committed" => write'[x].gone \subseteq Departed(status)
    BY <1>1, <1>9, <1>10 DEF Departures
  <2>2. Departed(status)' = Departed(status)
    BY <1>4 DEF Departed
  <2> QED BY <1>7, <2>1, <2>2 DEF Departures
<1>12. /\ session' \in [Sessions -> {"open", "closed", "collected"}]
       /\ status' \in [Agents -> Statuses]
  BY <1>1, <1>4 DEF TypeOK
<1> QED BY <1>4, <1>8, <1>10, <1>11, <1>12, RegistryStays

LEMMA WriteKeeps ==
    ASSUME IInv, NEW w \in Writes, WriteStep(w)
    PROVE  IInv'
<1>0. TypeOK /\ status \in [Agents -> Statuses]
  BY DEF IInv, TypeOK
<1>1. ASSUME NEW a \in Agents, status[a] \in {"none", "invited", "active"}, NEW x \in Statuses,
             NEW fanout \in BOOLEAN, Commit(w, [status EXCEPT ![a] = x], fanout, {a})
      PROVE  IInv'
  <2> DEFINE st == [status EXCEPT ![a] = x]
  <2>1. st \in [Agents -> Statuses] /\ Departed(status) \subseteq Departed(st)
    BY <1>0, <1>1, StatusChange
  <2>2. {a} \in SUBSET Agents
    OBVIOUS
  <2> HIDE DEF st
  <2>3. Commit(w, st, fanout, {a})
    BY <1>1 DEF st
  <2> QED BY <2>1, <2>2, <2>3, CommitKeeps
<1>2. ASSUME NEW fanout \in BOOLEAN, Commit(w, status, fanout, {})
      PROVE  IInv'
  <2>1. {} \in SUBSET Agents /\ Departed(status) \subseteq Departed(status)
    OBVIOUS
  <2> QED BY <1>0, <1>2, <2>1, CommitKeeps
<1>3. /\ "active" \in Statuses /\ "declined" \in Statuses
      /\ "left" \in Statuses /\ "invited" \in Statuses
  BY DEF Statuses
<1>4. TRUE \in BOOLEAN /\ FALSE \in BOOLEAN
  OBVIOUS
<1>5. ASSUME NEW a \in Agents, PostMessage(w, a) PROVE IInv'
  <2>1. PICK s \in {"active", "declined"} : Commit(w, [status EXCEPT ![a] = s], TRUE, {a})
    BY <1>5 DEF PostMessage
  <2>2. status[a] \in {"none", "invited", "active"} /\ s \in Statuses
    BY <1>3, <1>5 DEF PostMessage
  <2> QED BY <1>1, <1>4, <2>1, <2>2
<1>6. ASSUME NEW a \in Agents, Accept(w, a) PROVE IInv'
  <2>1. /\ status[a] \in {"none", "invited", "active"}
        /\ Commit(w, [status EXCEPT ![a] = "active"], FALSE, {a})
    BY <1>6 DEF Accept
  <2> QED BY <1>1, <1>3, <1>4, <2>1
<1>7. ASSUME NEW a \in Agents, DeclineInvite(w, a) PROVE IInv'
  <2>1. /\ status[a] \in {"none", "invited", "active"}
        /\ Commit(w, [status EXCEPT ![a] = "declined"], FALSE, {a})
    BY <1>7 DEF DeclineInvite
  <2> QED BY <1>1, <1>3, <1>4, <2>1
<1>8. ASSUME NEW a \in Agents, Leave(w, a) PROVE IInv'
  <2>1. /\ status[a] \in {"none", "invited", "active"}
        /\ Commit(w, [status EXCEPT ![a] = "left"], FALSE, {a})
    BY <1>8 DEF Leave
  <2> QED BY <1>1, <1>3, <1>4, <2>1
<1>9. ASSUME NEW a \in Agents, Invite(w, a) PROVE IInv'
  <2>1. /\ status[a] \in {"none", "invited", "active"}
        /\ Commit(w, [status EXCEPT ![a] = "invited"], FALSE, {a})
    BY <1>9 DEF Invite
  <2> QED BY <1>1, <1>3, <1>4, <2>1
<1>10. CASE ApproveMessage(w)
  BY <1>2, <1>4, <1>10 DEF ApproveMessage
<1>11. CASE ChangeState(w)
  BY <1>2, <1>4, <1>11 DEF ChangeState
<1>12. CASE Schedule(w)
  BY <1>12, ScheduleKeeps
<1> QED BY <1>5, <1>6, <1>7, <1>8, <1>9, <1>10, <1>11, <1>12 DEF WriteStep

-----------------------------------------------------------------------------
(* notify(), and sessions that go away.                                    *)

(* One task goes on and keeps whom it pings, or ends.                      *)
LEMMA TaskStep ==
    ASSUME IInv, NEW t \in Writes \X URIs, NEW v \in Task, task' = [task EXCEPT ![t] = v],
           \/ v.filter = task[t].filter /\ v.gone = task[t].gone
           \/ v.filter = {},
           UNCHANGED <<status, write>>
    PROVE  task' \in [Writes \X URIs -> Task] /\ Departures'
<1>1. task \in [Writes \X URIs -> Task] /\ Departures
  BY DEF IInv, TypeOK
<1>2. task' \in [Writes \X URIs -> Task]
      /\ \A x \in Writes \X URIs : task'[x] = IF x = t THEN v ELSE task[x]
  BY <1>1
<1>3. \A x \in Writes \X URIs : x[2] = Conversation => task'[x].filter \cap task'[x].gone = {}
  BY <1>1, <1>2 DEF Departures
<1> QED BY <1>1, <1>2, <1>3 DEF Departures, Departed

LEMMA NotifyKeeps ==
    ASSUME IInv, NEW t \in Writes \X URIs, NotifyStep(t)
    PROVE  IInv'
<1>1. TypeOK /\ Carried /\ Tallied /\ Lone /\ SubscriptionsAudited
  BY DEF IInv
<1>2. /\ task[t] \in Task /\ registry \subseteq Record
      /\ session \in [Sessions -> {"open", "closed", "collected"}]
      /\ status \in [Agents -> Statuses] /\ write \in [Writes -> Write]
  BY <1>1 DEF TypeOK
<1>3. CASE Snapshot(t)
  <2> DEFINE v == [task[t] EXCEPT !.pc = "sending", !.todo = {r \in registry : r.uri = t[2]}]
  <2>1. v \in Task /\ v.filter = task[t].filter /\ v.gone = task[t].gone
    BY <1>2 DEF Task
  <2>2. task' = [task EXCEPT ![t] = v]
        /\ UNCHANGED <<registry, count, made, session, req, status, write, audited, orphaned>>
    BY <1>3 DEF Snapshot
  <2> HIDE DEF v
  <2>3. task' \in [Writes \X URIs -> Task] /\ Departures'
    BY <2>1, <2>2, TaskStep
  <2> QED BY <1>2, <2>2, <2>3, RegistryStays
<1>4. ASSUME NEW r \in task[t].todo, Notify(t, r) PROVE IInv'
  <2>1. PICK dead \in {task[t].dead, task[t].dead \cup {r}} :
          /\ task' = [task EXCEPT ![t] =
                        [task[t] EXCEPT !.todo = task[t].todo \ {r}, !.dead = dead]]
          /\ UNCHANGED <<registry, count, made, session, req, status, write, audited, orphaned>>
    BY <1>4 DEF Notify
  <2> DEFINE v == [task[t] EXCEPT !.todo = task[t].todo \ {r}, !.dead = dead]
  <2>2. v \in Task /\ v.filter = task[t].filter /\ v.gone = task[t].gone
    <3>1. task[t].todo \in SUBSET Record /\ task[t].dead \in SUBSET Record
      BY <1>2 DEF Task
    <3>2. task[t].todo \ {r} \in SUBSET Record /\ dead \in SUBSET Record
      BY <1>4, <2>1, <3>1
    <3> QED BY <1>2, <3>2 DEF Task
  <2>3. task' = [task EXCEPT ![t] = v]
    BY <2>1
  <2> HIDE DEF v
  <2>4. task' \in [Writes \X URIs -> Task] /\ Departures'
    BY <2>1, <2>2, <2>3, TaskStep
  <2> QED BY <1>2, <2>1, <2>4, RegistryStays
<1>5. CASE Prune(t)
  <2> DEFINE v == [NoTask EXCEPT !.pc = "ended"]
  <2>1. v \in Task /\ v.filter = {}
    BY DEF Task, NoTask
  <2>2. /\ task' = [task EXCEPT ![t] = v] /\ Dropped(task[t].dead)
        /\ UNCHANGED <<made, session, req, status, write, audited, orphaned>>
    BY <1>5 DEF Prune
  <2> HIDE DEF v
  <2>3. task' \in [Writes \X URIs -> Task] /\ Departures'
    BY <2>1, <2>2, TaskStep
  <2>4. /\ registry' \subseteq registry /\ count' \in [Agents -> 0..MaxRecords]
        /\ Tallied' /\ Lone'
    BY <1>1, <2>2, DroppedTallies
  <2>5. TypeOK'
    BY <1>1, <2>2, <2>3, <2>4 DEF TypeOK
  <2>6. Carried' /\ SubscriptionsAudited'
    BY <1>1, <2>2, <2>4 DEF Carried, SubscriptionsAudited
  <2> QED BY <2>3, <2>4, <2>5, <2>6 DEF IInv
<1> QED BY <1>3, <1>4, <1>5 DEF NotifyStep

(* A closed session's records wait for a sweep or a ping to find them.     *)
LEMMA SessionKeeps ==
    ASSUME IInv, NEW s \in Sessions, Close(s) \/ Collect(s)
    PROVE  IInv'
<1>1. TypeOK /\ Departures
  BY DEF IInv
<1>2. UNCHANGED <<registry, count, made, req, status, write, task, audited, orphaned>>
  BY DEF Close, Collect
<1>3. session' \in [Sessions -> {"open", "closed", "collected"}]
  BY <1>1 DEF Close, Collect, TypeOK
<1>4. Departures'
  BY <1>1, <1>2 DEF Departures, Departed
<1> QED BY <1>1, <1>2, <1>3, <1>4, RegistryStays DEF TypeOK

-----------------------------------------------------------------------------
(* The theorems.                                                           *)

LEMMA StepIInv == IInv /\ [Next]_vars => IInv'
<1> SUFFICES ASSUME IInv, [Next]_vars PROVE IInv'
  OBVIOUS
<1>1. ASSUME NEW q \in Requests, NEW s \in Sessions, NEW u \in URIs,
             AskSubscribe(q, s, u) \/ AskUnsubscribe(q, s, u)
      PROVE  IInv'
  BY <1>1, ArriveKeeps DEF AskSubscribe, AskUnsubscribe
<1>2. ASSUME NEW q \in Requests, HandlerStep(q) PROVE IInv'
  BY <1>2, RegisterKeeps, AuditSubscribeKeeps, AuditFailsKeeps, PeekKeeps, AuditUnsubscribeKeeps,
     UnsubscribeKeeps, GiveUpKeeps DEF HandlerStep
<1>3. ASSUME NEW w \in Writes, WriteStep(w) PROVE IInv'
  BY <1>3, WriteKeeps
<1>4. ASSUME NEW t \in Writes \X URIs, NotifyStep(t) PROVE IInv'
  BY <1>4, NotifyKeeps
<1>5. ASSUME NEW s \in Sessions, Close(s) \/ Collect(s) PROVE IInv'
  BY <1>5, SessionKeeps
<1>6. CASE UNCHANGED vars
  <2>1. TypeOK /\ Departures
    BY DEF IInv
  <2>2. UNCHANGED <<registry, count, made, req, status, write, task, audited, orphaned, session>>
    BY <1>6 DEF vars
  <2>3. Departures'
    BY <2>1, <2>2 DEF Departures, Departed
  <2> QED BY <2>1, <2>2, <2>3, RegistryStays DEF TypeOK
<1> QED BY <1>1, <1>2, <1>3, <1>4, <1>5, <1>6 DEF Next

LEMMA Safe == Spec => []IInv
BY InitIInv, StepIInv, PTL DEF Spec

(* Every record, call, write and task stays what subscriptions.py and its  *)
(* callers hold, and no agent has more records than were ever made.        *)
THEOREM TypeCorrect == Spec => []TypeOK
<1>1. IInv => TypeOK
  BY DEF IInv
<1> QED BY <1>1, Safe, PTL

(* _agent_subscription_counts is the number of the agent's records and     *)
(* stays within MAX_SUBSCRIPTIONS_PER_AGENT, whatever subscribes,          *)
(* rollbacks, sweeps and prunings race.                                    *)
THEOREM CapKept == Spec => []CountsTrack
<1>1. IInv => CountsTrack
  BY DEF IInv, Tallied, Tracks, CountsTrack
<1> QED BY <1>1, Safe, PTL

(* main.py: every live subscription goes back to an audited one, to one    *)
(* being audited, or to the race between two subscribes it accepts.        *)
THEOREM TrailKept == Spec => []SubscriptionsAudited
<1>1. IInv => SubscriptionsAudited
  BY DEF IInv
<1> QED BY <1>1, Safe, PTL

(* notify_conversation_event pings no subscriber of the conversation who   *)
(* had left when the write committed.                                      *)
THEOREM DepartedUnpinged == Spec => []PingsEntitled
<1>1. ASSUME IInv PROVE PingsEntitled
  <2> SUFFICES ASSUME NEW w \in Writes,
                      NEW r \in task[<<w, Conversation>>].todo,
                      Entitled(<<w, Conversation>>, r)
               PROVE  AgentOfRecord(r) \notin task[<<w, Conversation>>].gone
    BY DEF PingsEntitled
  <2> DEFINE t == <<w, Conversation>>
  <2>1. t \in Writes \X URIs /\ t[2] = Conversation
    BY DEF URIs
  <2>2. AgentOfRecord(r) \in task[t].filter
    BY DEF Entitled
  <2> HIDE DEF t
  <2>3. task[t].filter \cap task[t].gone = {}
    BY <1>1, <2>1 DEF IInv, Departures
  <2> QED BY <2>2, <2>3 DEF t
<1> QED BY <1>1, Safe, PTL

-----------------------------------------------------------------------------
(* The read cursor.  The invariant says what a call in flight carries: a   *)
(* page of messages that exist, with a last one if there is any, since     *)
(* PageMax chooses it.                                                     *)

(* A page holds messages of the log and, unless it is empty, has a last    *)
(* one.                                                                    *)
WellPaged(p) ==
    /\ p \subseteq 1..last
    /\ p # {} => \E n \in p : \A m \in p : m <= n

CursorInv ==
    /\ RCTypeOK
    /\ \A r \in Readers : WellPaged(reads[r].page)
    /\ CursorDelivered

(* get_conversation's query returns messages that exist, and the first     *)
(* PageLimit numbers from some point on have a greatest one.               *)
LEMMA PageWellPaged ==
    ASSUME last \in Nat, NEW since \in Nat, NEW before \in Nat
    PROVE  WellPaged(Page(since, before))
<1> DEFINE first == IF before > since THEN before + 1 ELSE since + 1
           page == {n \in first..last : n < first + PageLimit}
           top == IF last < first + PageLimit THEN last ELSE first + PageLimit - 1
<1>1. first \in Nat /\ first >= 1 /\ top \in Int /\ PageLimit \in Nat /\ PageLimit >= 1
  BY PageAssumption
<1>2. Page(since, before) = page
  BY DEF Page
<1>3. page \subseteq 1..last
  BY <1>1
<1>4. page # {} => top \in page /\ \A m \in page : m <= top
  <2> HIDE DEF first
  <2> QED BY <1>1
<1> QED BY <1>2, <1>3, <1>4 DEF WellPaged

(* page_max_seq of a page that is not empty is one of its messages.        *)
LEMMA PageMaxInPage ==
    ASSUME NEW q, WellPaged(q.page), q.page # {}
    PROVE  PageMax(q) \in q.page
BY DEF WellPaged, PageMax

(* Init: nothing was returned and the cursor is at 0.                      *)
LEMMA InitCursorInv == RCInit => CursorInv
BY PageAssumption DEF RCInit, CursorInv, RCTypeOK, Call, Idle, WellPaged, CursorDelivered

(* Every step of get_conversation and post_message keeps the invariant.    *)
LEMMA StepCursorInv == CursorInv /\ [RCNext]_RCvars => CursorInv'
<1> SUFFICES ASSUME CursorInv, [RCNext]_RCvars PROVE CursorInv'
  OBVIOUS
<1> USE PageAssumption
<1>0. RCTypeOK /\ (\A r \in Readers : WellPaged(reads[r].page)) /\ CursorDelivered
  BY DEF CursorInv
<1>1. CASE Post
  BY <1>0, <1>1 DEF Post, CursorInv, RCTypeOK, WellPaged, CursorDelivered
<1>2. ASSUME NEW r \in Readers, Load(r) PROVE CursorInv'
  <2>1. PICK s \in 0..MaxLog :
          reads' = [reads EXCEPT ![r] = [pc |-> "page", loaded |-> cursor, since |-> s, page |-> {}]]
    BY <1>2 DEF Load
  <2> DEFINE q == [pc |-> "page", loaded |-> cursor, since |-> s, page |-> {}]
  <2>2. q \in Call /\ q.page = {}
    BY <1>0 DEF RCTypeOK, Call
  <2> HIDE DEF q
  <2>3. reads' = [reads EXCEPT ![r] = q] /\ UNCHANGED <<last, cursor, delivered>>
    BY <1>2, <2>1 DEF Load, q
  <2>4. RCTypeOK'
    BY <1>0, <2>2, <2>3 DEF RCTypeOK
  <2>5. \A x \in Readers : WellPaged(reads'[x].page)
    BY <1>0, <2>2, <2>3 DEF WellPaged, RCTypeOK
  <2> QED
    BY <1>0, <2>3, <2>4, <2>5 DEF CursorInv, WellPaged, CursorDelivered
<1>3. ASSUME NEW r \in Readers, SelectPage(r) PROVE CursorInv'
  <2>1. PICK before \in 0..last :
          reads' = [reads EXCEPT ![r] = [@ EXCEPT !.pc = "commit", !.page = Page(reads[r].since, before)]]
    BY <1>3 DEF SelectPage
  <2> DEFINE p == Page(reads[r].since, before)
  <2>2. reads[r] \in Call /\ last \in Nat /\ before \in Nat
    BY <1>0, <2>1 DEF RCTypeOK
  <2>3. WellPaged(p)
    BY <2>2, PageWellPaged DEF Call
  <2> HIDE DEF p
  <2>4. p \in SUBSET Nat
    BY <2>3 DEF WellPaged
  <2> DEFINE q == [reads[r] EXCEPT !.pc = "commit", !.page = p]
  <2>5. q \in Call /\ q.page = p
    BY <2>2, <2>4 DEF Call
  <2>6. reads' = [reads EXCEPT ![r] = q] /\ UNCHANGED <<last, cursor, delivered>>
    BY <1>3, <2>1 DEF SelectPage, p
  <2> HIDE DEF q
  <2>7. RCTypeOK'
    BY <1>0, <2>5, <2>6 DEF RCTypeOK
  <2>8. \A x \in Readers : WellPaged(reads'[x].page)
    BY <1>0, <2>3, <2>5, <2>6 DEF RCTypeOK
  <2> QED
    BY <1>0, <2>6, <2>7, <2>8 DEF CursorInv, WellPaged, CursorDelivered
<1>4. ASSUME NEW r \in Readers, CommitRead(r) PROVE CursorInv'
  <2>1. PICK markRead \in BOOLEAN :
          cursor' = IF markRead /\ Advances(reads[r]) THEN PageMax(reads[r]) ELSE cursor
    BY <1>4 DEF CommitRead
  <2>2. reads' = [reads EXCEPT ![r] = Idle] /\ Idle \in Call /\ Idle.page = {}
    BY <1>4 DEF CommitRead, Idle, Call
  <2>3. cursor' = cursor \/ cursor' \in reads[r].page
    BY <1>0, <2>1, PageMaxInPage DEF Advances
  <2>4. reads[r].page \subseteq 1..last
    BY <1>0 DEF WellPaged
  <2>5. last \in Nat /\ last' = last /\ delivered' = delivered \cup reads[r].page
    BY <1>0, <1>4 DEF CommitRead, RCTypeOK
  <2>6. delivered' \subseteq 1..last
    BY <1>0, <2>4, <2>5 DEF RCTypeOK
  <2>7. cursor' \in Nat
    <3>1. 1..last \subseteq Nat
      BY <2>5
    <3> QED BY <1>0, <2>3, <2>4, <3>1 DEF RCTypeOK
  <2>8. RCTypeOK'
    BY <1>0, <2>2, <2>5, <2>6, <2>7 DEF RCTypeOK
  <2>9. CursorDelivered'
    BY <1>0, <2>3, <2>5 DEF CursorDelivered
  <2>10. \A x \in Readers : WellPaged(reads'[x].page)
    BY <1>0, <2>2 DEF WellPaged, RCTypeOK
  <2> QED
    BY <2>5, <2>8, <2>9, <2>10 DEF CursorInv, WellPaged
<1>5. ASSUME NEW r \in Readers, Abort(r) PROVE CursorInv'
  <2>1. reads' = [reads EXCEPT ![r] = Idle] /\ Idle \in Call /\ Idle.page = {}
    BY <1>5 DEF Abort, Idle, Call
  <2>2. RCTypeOK'
    BY <1>0, <1>5, <2>1 DEF Abort, RCTypeOK
  <2>3. \A x \in Readers : WellPaged(reads'[x].page)
    BY <1>0, <2>1 DEF WellPaged, RCTypeOK
  <2> QED
    BY <1>0, <1>5, <2>2, <2>3 DEF Abort, CursorInv, WellPaged, CursorDelivered
<1>6. CASE UNCHANGED RCvars
  BY <1>0, <1>6 DEF RCvars, CursorInv, RCTypeOK, WellPaged, CursorDelivered
<1> QED BY <1>1, <1>2, <1>3, <1>4, <1>5, <1>6 DEF RCNext

(* The cursor stays a message number, whatever page a call in flight has.  *)
THEOREM CursorTyped == RCSpec => []RCTypeOK
<1>1. CursorInv => RCTypeOK
  BY DEF CursorInv
<1> QED BY <1>1, InitCursorInv, StepCursorInv, PTL DEF RCSpec

(* get_conversation: whatever reads run at once, and however their commits *)
(* are ordered, the cursor rests on a message that was returned.           *)
THEOREM CursorSafe == RCSpec => []CursorDelivered
<1>1. RCInit => CursorInv
  BY InitCursorInv
<1>2. CursorInv => CursorDelivered
  BY DEF CursorInv
<1> QED BY <1>1, <1>2, StepCursorInv, PTL DEF RCSpec
=============================================================================
