-------------------------- MODULE ApplyClientProofs --------------------------
(***************************************************************************)
(* Proofs about ApplyClient: for any number of attempts, any budget and    *)
(* backoff, and any number of resubmissions, the verdict of apply_proposal *)
(* is true of the external write and the write is not executed twice.      *)
(*                                                                         *)
(* OutcomeTrue alone is not inductive: "failed" must also exclude writes   *)
(* that are still to come.  The invariant says why it does.  Until an      *)
(* attempt was ambiguous the call has made at most one request (Unsettled),*)
(* so a refusal, or an exception before the request left, leaves nothing   *)
(* behind (Untouched); and a hold answered "not applied" is on record.     *)
(***************************************************************************)
EXTENDS ApplyClient, FiniteSetTheorems, TLAPS

Typed ==
    /\ pc \in {"idle", "top", "wire", "sleep", "returned"}
    /\ hold \in Holds /\ attempt \in Nat \ {0}
    /\ saw \in BOOLEAN /\ sent \in BOOLEAN
    /\ outcome \in [Holds -> Outcomes \cup {None}]
    /\ net \subseteq Holds \X Nat /\ serving \subseteq Holds \X Nat
    /\ reply \in Replies \cup {None}
    /\ record \in [Holds -> {"none", "running", "applied", "failed", "unknown"}]
    /\ writes \in [Holds -> Nat]

(* No request for h is on its way and none was ever executed.              *)
Untouched(h) == record[h] = "none" /\ \A q \in net : q[1] # h

(* The service's record is true of its write.                              *)
Recorded ==
    /\ \A h \in Holds :
         /\ record[h] \in {"none", "running", "failed"} => writes[h] = 0
         /\ record[h] = "applied" => writes[h] = 1
         /\ record[h] = "unknown" => writes[h] <= 1
    /\ \A q \in serving : record[q[1]] # "none"

(* Earlier holds failed, later ones were not heard of.                     *)
InTurn ==
    /\ \A h \in Holds : h < hold => outcome[h] = "failed"
    /\ \A h \in Holds : h > hold => outcome[h] = None /\ Untouched(h)
    /\ pc # "returned" => outcome[hold] = None
    /\ pc = "idle" => Untouched(hold)

(* What a verdict given stands on.                                         *)
Grounded ==
    \A h \in Holds :
        /\ outcome[h] = "applied" => record[h] = "applied"
        /\ outcome[h] = "failed" => Untouched(h) \/ record[h] = "failed"

(* What a response that reached the client says.                           *)
Answered ==
    pc = "wire" =>
        /\ reply = "applied" => record[hold] = "applied"
        /\ reply = "not_applied" => record[hold] = "failed"
        /\ reply = "refused" /\ ~saw => Untouched(hold)

(* Before the first ambiguous attempt there is one request at most, and    *)
(* it is on its way or it was executed, not both.                          *)
Unsettled ==
    /\ pc = "sleep" => saw
    /\ pc = "top" => (saw <=> attempt > 1)
    /\ pc = "top" /\ ~saw => Untouched(hold)
    /\ pc = "wire" /\ ~saw =>
         /\ attempt = 1
         /\ ~sent => Untouched(hold) /\ reply = None
         /\ \A q \in net : q[1] = hold => q = <<hold, 1>> /\ record[hold] = "none"

IInv == Typed /\ Recorded /\ InTurn /\ Grounded /\ Answered /\ Unsettled

-----------------------------------------------------------------------------
(* The ways out of an attempt.                                             *)

(* A call returns what it can stand on.                                    *)
LEMMA ReturnKeeps ==
    ASSUME IInv, NEW o \in Outcomes, Return(o), UNCHANGED <<net, reply, service>>,
           o = "applied" => record[hold] = "applied",
           o = "failed" => Untouched(hold) \/ record[hold] = "failed"
    PROVE  IInv'
<1> USE DEF IInv, Return, service, Untouched
<1>1. hold \in Nat /\ \A h \in Holds : h \in Nat
  BY ApplyAssumption DEF Typed, Holds
<1>2. Typed'
  BY DEF Typed
<1>3. outcome'[hold] = o /\ \A h \in Holds : h # hold => outcome'[h] = outcome[h]
  BY DEF Typed
<1>4. Recorded'
  BY DEF Recorded
<1>5. InTurn'
  BY <1>1, <1>3 DEF InTurn
<1>6. Grounded'
  BY <1>3 DEF Grounded
<1> QED BY <1>2, <1>4, <1>5, <1>6 DEF Answered, Unsettled

(* An ambiguous attempt is remembered, and followed by a sleep or by the   *)
(* verdict that nobody knows.                                              *)
LEMMA AmbiguousKeeps ==
    ASSUME IInv, pc = "wire", Ambiguous, UNCHANGED <<net, reply, service>>
    PROVE  IInv'
<1>1. CASE attempt < MaxAttempts /\ Remaining >= MinRemaining
  <2>1. pc' = "sleep" /\ saw' = TRUE /\ UNCHANGED <<hold, attempt, sent, outcome>>
    BY <1>1 DEF Ambiguous
  <2> QED
    BY <2>1 DEF IInv, service, Typed, Recorded, InTurn, Grounded, Answered, Unsettled, Untouched
<1>2. CASE ~(attempt < MaxAttempts /\ Remaining >= MinRemaining)
  <2>1. Exhausted(attempt, TRUE) = "indeterminate"
    BY DEF IInv, Typed, Exhausted
  <2>2. Return("indeterminate")
    BY <1>2, <2>1 DEF Ambiguous
  <2> QED BY <2>2, ReturnKeeps DEF Outcomes
<1> QED BY <1>1, <1>2

(* A definite failure is one unless an earlier attempt was ambiguous.      *)
LEMMA DefiniteKeeps ==
    ASSUME IInv, Definite, UNCHANGED <<net, reply, service>>, ~saw => Untouched(hold)
    PROVE  IInv'
<1>1. CASE saw
  <2>1. Return("indeterminate")
    BY <1>1 DEF Definite
  <2> QED BY <2>1, ReturnKeeps DEF Outcomes
<1>2. CASE ~saw
  <2>1. Return("failed")
    BY <1>2 DEF Definite
  <2> QED BY <1>2, <2>1, ReturnKeeps DEF Outcomes
<1> QED BY <1>1, <1>2

-----------------------------------------------------------------------------
(* The client's steps.                                                     *)

(* At the loop's head, a call that made no request has left nothing.       *)
LEMMA OutOfBudgetKeeps == IInv /\ OutOfBudget => IInv'
<1> SUFFICES ASSUME IInv, OutOfBudget PROVE IInv'
  OBVIOUS
<1>1. Typed /\ Unsettled /\ pc = "top"
  BY DEF IInv, OutOfBudget
<1>2. CASE saw
  <2>1. Exhausted(attempt - 1, saw) = "indeterminate"
    BY <1>1, <1>2 DEF Typed, Unsettled, Exhausted
  <2> QED BY <2>1, ReturnKeeps DEF OutOfBudget, Outcomes
<1>3. CASE ~saw
  <2>1. Exhausted(attempt - 1, saw) = "failed" /\ Untouched(hold)
    BY <1>1, <1>3 DEF Unsettled, Exhausted
  <2> QED BY <2>1, ReturnKeeps DEF OutOfBudget, Outcomes
<1> QED BY <1>2, <1>3

(* An exception raised before the request left is definite, any other one  *)
(* is ambiguous.                                                           *)
LEMMA ExceptionKeeps == ASSUME IInv, NEW e \in Exceptions, Exception(e) PROVE IInv'
<1>1. pc = "wire" /\ UNCHANGED <<net, reply, service>> /\ Settle(ClassifyException(e))
  BY DEF Exception
<1>2. CASE e \in NeverSent
  <2>1. Definite
    BY <1>1, <1>2 DEF ClassifyException, Settle
  <2>2. ~sent
    BY <1>2 DEF Exception
  <2>3. ~saw => Untouched(hold)
    BY <1>1, <2>2 DEF IInv, Unsettled
  <2> QED BY <1>1, <2>1, <2>3, DefiniteKeeps
<1>3. CASE e \notin NeverSent
  <2>1. Ambiguous
    BY <1>1, <1>3 DEF ClassifyException, Settle
  <2> QED BY <1>1, <2>1, AmbiguousKeeps
<1> QED BY <1>2, <1>3

(* The deadline says nothing about the request.                            *)
LEMMA WallClockKeeps == IInv /\ WallClock => IInv'
<1> SUFFICES ASSUME IInv, WallClock PROVE IInv'
  OBVIOUS
<1>1. ClassifyException("ReadTimeout") = "AMBIGUOUS"
  BY DEF ClassifyException, NeverSent
<1>2. pc = "wire" /\ UNCHANGED <<net, reply, service>> /\ Ambiguous
  BY <1>1 DEF WallClock, Settle
<1> QED BY <1>2, AmbiguousKeeps

(* A response decides, refuses or leaves it open.                          *)
LEMMA ResponseKeeps == IInv /\ Response => IInv'
<1> SUFFICES ASSUME IInv, Response PROVE IInv'
  OBVIOUS
<1>1. pc = "wire" /\ UNCHANGED <<net, reply, service>> /\ Answered
  BY DEF Response, IInv
<1>2. CASE reply = "applied"
  <2>1. Return("applied") /\ record[hold] = "applied"
    BY <1>1, <1>2 DEF Response, ClassifyResponse, Answered
  <2> QED BY <1>1, <2>1, ReturnKeeps DEF Outcomes
<1>3. CASE reply = "not_applied"
  <2>1. Return("failed") /\ record[hold] = "failed"
    BY <1>1, <1>3 DEF Response, ClassifyResponse, Answered
  <2> QED BY <1>1, <2>1, ReturnKeeps DEF Outcomes
<1>4. CASE reply = "refused"
  <2>1. Definite
    BY <1>1, <1>4 DEF Response, ClassifyResponse, Settle
  <2>2. ~saw => Untouched(hold)
    BY <1>1, <1>4 DEF Answered
  <2> QED BY <1>1, <2>1, <2>2, DefiniteKeeps
<1>5. CASE reply \notin {"applied", "not_applied", "refused"}
  <2>1. Ambiguous
    BY <1>1, <1>5 DEF Response, ClassifyResponse, Settle
  <2> QED BY <1>1, <2>1, AmbiguousKeeps
<1> QED BY <1>2, <1>3, <1>4, <1>5

(* Every step of apply_proposal and of those who call it.                  *)
LEMMA ClientKeeps == IInv /\ (ClientStep \/ Cancelled \/ TimePasses \/ Resubmit) => IInv'
<1> SUFFICES ASSUME IInv, ClientStep \/ Cancelled \/ TimePasses \/ Resubmit PROVE IInv'
  OBVIOUS
<1> USE ApplyAssumption
<1>1. CASE Misconfigured
  <2>1. Untouched(hold) /\ Return("failed") /\ UNCHANGED <<net, reply, service>>
    BY <1>1 DEF Misconfigured, IInv, InTurn
  <2> QED BY <2>1, ReturnKeeps DEF Outcomes
<1>2. CASE Call
  <2>1. Untouched(hold)
    BY <1>2 DEF Call, IInv, InTurn
  <2>2. pc = "idle" /\ pc' = "top" /\ attempt' = 1 /\ saw' = FALSE /\ sent' = FALSE
        /\ UNCHANGED <<hold, outcome, net, reply, serving, record, writes>>
    BY <1>2 DEF Call, service
  <2>3. Typed'
    <3>1. saw' \in BOOLEAN /\ sent' \in BOOLEAN
      BY <2>2, Zenon
    <3>2. attempt' \in Nat \ {0}
      BY <2>2
    <3> QED BY <2>2, <3>1, <3>2 DEF IInv, Typed
  <2>4. Recorded' /\ InTurn' /\ Grounded' /\ Answered'
    BY <2>2 DEF IInv, Recorded, InTurn, Grounded, Answered, Untouched
  <2>5. Unsettled'
    BY <2>1, <2>2 DEF Unsettled, Untouched
  <2> QED BY <2>3, <2>4, <2>5 DEF IInv
<1>3. CASE Attempt
  <2>1. pc = "top" /\ pc' = "wire" /\ sent' = FALSE /\ reply' = None
        /\ UNCHANGED <<hold, attempt, saw, outcome, net, serving, record, writes>>
    BY <1>3 DEF Attempt, service
  <2>2. ~saw => attempt = 1 /\ Untouched(hold)
    BY <2>1 DEF IInv, Typed, Unsettled
  <2>3. Typed' /\ Recorded' /\ InTurn' /\ Grounded'
    BY <2>1 DEF IInv, Typed, Recorded, InTurn, Grounded, Untouched
  <2>4. Answered'
    BY <2>1 DEF Answered, Replies
  <2>5. Unsettled'
    BY <2>1, <2>2 DEF Unsettled, Untouched
  <2> QED BY <2>3, <2>4, <2>5 DEF IInv
<1>4. CASE Send
  <2>1. pc = "wire" /\ ~sent /\ sent' = TRUE /\ net' = net \cup {<<hold, attempt>>}
        /\ UNCHANGED <<pc, hold, attempt, saw, outcome, reply, serving, record, writes>>
    BY <1>4 DEF Send, service
  <2>2. Typed'
    BY <2>1 DEF IInv, Typed
  <2>3. Recorded'
    BY <2>1 DEF IInv, Recorded
  <2>4. \A h \in Holds : h # hold /\ Untouched(h) => Untouched(h)'
    BY <2>1 DEF Untouched
  <2>5. InTurn'
    BY <2>1, <2>4 DEF IInv, InTurn, Typed, Holds
  <2>6. Grounded'
    <3>1. outcome[hold] = None
      BY <2>1 DEF IInv, InTurn
    <3> QED BY <2>1, <2>4, <3>1 DEF IInv, Grounded, Outcomes
  <2>7. ~saw => Untouched(hold) /\ reply = None /\ attempt = 1
    BY <2>1 DEF IInv, Unsettled
  <2>8. Answered'
    BY <2>1, <2>7 DEF IInv, Answered, Replies
  <2>9. Unsettled'
    BY <2>1, <2>7 DEF IInv, Typed, Unsettled, Untouched
  <2> QED BY <2>2, <2>3, <2>5, <2>6, <2>8, <2>9 DEF IInv
<1>5. CASE Wake
  <2>1. pc = "sleep" /\ pc' = "top" /\ attempt' = attempt + 1
        /\ UNCHANGED <<hold, saw, sent, outcome, net, reply, serving, record, writes>>
    BY <1>5 DEF Wake, service
  <2> QED BY <2>1 DEF IInv, Typed, Recorded, InTurn, Grounded, Answered, Unsettled, Untouched
<1>6. CASE Cancelled
  <2>1. Return("cancelled") /\ UNCHANGED <<net, reply, service>>
    BY <1>6 DEF Cancelled
  <2> QED BY <2>1, ReturnKeeps DEF Outcomes
<1>7. CASE TimePasses
  BY <1>7 DEF TimePasses, IInv, service, Typed, Recorded, InTurn, Grounded, Answered, Unsettled, Untouched
<1>8. CASE Resubmit
  <2>1. pc' = "idle" /\ hold' = hold + 1 /\ outcome[hold] = "failed" /\ hold < MaxHolds
        /\ UNCHANGED <<attempt, saw, sent, outcome, net, reply, serving, record, writes>>
    BY <1>8 DEF Resubmit, service
  <2>2. hold' \in Holds /\ hold' > hold /\ \A h \in Holds : h \in Nat
    BY <2>1 DEF IInv, Typed, Holds
  <2>3. Typed'
    BY <2>1, <2>2 DEF IInv, Typed
  <2>4. InTurn'
    <3>1. \A h \in Holds : h < hold' => h < hold \/ h = hold
      BY <2>1, <2>2 DEF IInv, Typed, Holds
    <3>2. \A h \in Holds : h > hold' => h > hold
      BY <2>1, <2>2 DEF IInv, Typed, Holds
    <3> QED BY <2>1, <2>2, <3>1, <3>2 DEF IInv, InTurn, Untouched
  <2> QED BY <2>1, <2>3, <2>4 DEF IInv, Recorded, Grounded, Answered, Unsettled, Untouched
<1> QED
  BY <1>1, <1>2, <1>3, <1>4, <1>5, <1>6, <1>7, <1>8,
     OutOfBudgetKeeps, ExceptionKeeps, WallClockKeeps, ResponseKeeps DEF ClientStep

-----------------------------------------------------------------------------
(* The service's steps.                                                    *)

(* A response of the service or of somebody in between: it says what is on *)
(* record or nothing, and a refusal takes its request away.                *)
LEMMA RespondKeeps ==
    ASSUME IInv, NEW q \in net \cup serving, NEW r \in Replies, Deliver(q, r),
           UNCHANGED <<client, record, writes>>,
           net' \in {net, net \ {q}}, serving' \in {serving, serving \ {q}},
           r = "applied" => record[q[1]] = "applied",
           r = "not_applied" => record[q[1]] = "failed",
           r = "refused" => q \in net /\ net' = net \ {q}
    PROVE  IInv'
<1>1. UNCHANGED <<pc, hold, attempt, saw, sent, outcome, record, writes>>
  BY DEF client
<1>2. reply' = reply \/ (pc = "wire" /\ q = <<hold, attempt>> /\ q[1] = hold /\ reply' = r)
  BY DEF Deliver
<1>3. \A h \in Holds : Untouched(h) => Untouched(h)' /\ q[1] # h
  BY <1>1 DEF Untouched, IInv, Recorded
<1>4. hold \in Holds
  BY DEF IInv, Typed
<1>5. Typed'
  BY <1>1, <1>2 DEF IInv, Typed
<1>6. Recorded' /\ InTurn' /\ Grounded'
  BY <1>1, <1>3, <1>4 DEF IInv, Recorded, InTurn, Grounded
<1>7. Answered'
  <2>1. CASE reply' = reply
    BY <1>1, <1>3, <1>4, <2>1 DEF IInv, Answered
  <2>2. CASE pc = "wire" /\ q = <<hold, attempt>> /\ q[1] = hold /\ reply' = r
    <3>1. ASSUME ~saw, r = "refused" PROVE Untouched(hold)'
      <4>1. record[hold] = "none" /\ \A p \in net : p[1] = hold => p = q
        BY <2>2, <3>1 DEF IInv, Unsettled
      <4> QED BY <1>1, <3>1, <4>1 DEF Untouched
    <3> QED BY <1>1, <2>2, <3>1 DEF Answered
  <2> QED BY <1>2, <2>1, <2>2
<1>8. Unsettled'
  <2>1. ASSUME pc = "wire", ~saw, ~sent PROVE reply' = None
    BY <1>2, <1>3, <1>4, <2>1 DEF IInv, Unsettled
  <2>2. net' \subseteq net
    OBVIOUS
  <2> QED BY <1>1, <1>3, <1>4, <2>1, <2>2 DEF IInv, Unsettled
<1> QED BY <1>5, <1>6, <1>7, <1>8 DEF IInv

(* A request for a new hold id starts its execution.                       *)
LEMMA BeginKeeps == ASSUME IInv, NEW q, Begin(q) PROVE IInv'
<1>1. q \in net /\ record[q[1]] = "none" /\ record' = [record EXCEPT ![q[1]] = "running"]
      /\ net' = net \ {q} /\ serving' = serving \cup {q}
      /\ UNCHANGED <<pc, hold, attempt, saw, sent, outcome, reply, writes>>
  BY DEF Begin, client
<1>2. q \in Holds \X Nat /\ q[1] \in Holds /\ hold \in Holds
  BY <1>1 DEF IInv, Typed
<1>3. ~Untouched(q[1])
  BY <1>1 DEF Untouched
<1>4. \A h \in Holds : Untouched(h) => Untouched(h)' /\ h # q[1]
  BY <1>1, <1>2, <1>3 DEF Untouched, IInv, Typed
<1>5. \A h \in Holds : record'[h] = IF h = q[1] THEN "running" ELSE record[h]
  BY <1>1, <1>2 DEF IInv, Typed
<1>6. Typed'
  BY <1>1, <1>2 DEF IInv, Typed
<1>7. Recorded'
  BY <1>1, <1>2, <1>5 DEF IInv, Recorded, Typed
<1>8. InTurn' /\ Grounded'
  BY <1>1, <1>2, <1>4, <1>5 DEF IInv, InTurn, Grounded
<1>9. Answered'
  BY <1>1, <1>2, <1>4, <1>5 DEF IInv, Answered
<1>10. Unsettled'
  <2>1. ASSUME pc = "wire", ~saw PROVE \A p \in net' : p[1] = hold => p = <<hold, 1>> /\ record'[hold] = "none"
    <3>1. \A p \in net : p[1] = hold => p = <<hold, 1>> /\ record[hold] = "none"
      BY <2>1 DEF IInv, Unsettled
    <3> QED BY <1>1, <1>2, <1>5, <3>1
  <2> QED BY <1>1, <1>2, <1>4, <2>1 DEF IInv, Unsettled
<1> QED BY <1>6, <1>7, <1>8, <1>9, <1>10 DEF IInv

(* An execution ends, and its record with it.                              *)
LEMMA ExecuteKeeps == ASSUME IInv, NEW h \in Holds, Execute(h) PROVE IInv'
<1>1. record[h] = "running" /\ UNCHANGED <<pc, hold, attempt, saw, sent, outcome, net, reply, serving>>
  BY DEF Execute, client
<1>2. PICK done \in BOOLEAN :
        /\ writes' = [writes EXCEPT ![h] = IF done THEN @ + 1 ELSE @]
        /\ \E e \in {IF done THEN "applied" ELSE "failed", "unknown"} :
             record' = [record EXCEPT ![h] = e]
  BY DEF Execute
<1>3. PICK e \in {IF done THEN "applied" ELSE "failed", "unknown"} : record' = [record EXCEPT ![h] = e]
  BY <1>2
<1>4. writes[h] = 0 /\ ~Untouched(h) /\ hold \in Holds
  BY <1>1 DEF IInv, Recorded, Untouched, Typed
<1>5. \A g \in Holds : g # h => record'[g] = record[g] /\ writes'[g] = writes[g]
  BY <1>2, <1>3 DEF IInv, Typed
<1>6. record'[h] = e /\ writes'[h] = (IF done THEN 1 ELSE 0)
  BY <1>2, <1>3, <1>4 DEF IInv, Typed
<1>7. Typed'
  BY <1>1, <1>2, <1>3 DEF IInv, Typed
<1>8. \A g \in Holds : Untouched(g) => Untouched(g)' /\ g # h
  BY <1>1, <1>4, <1>5 DEF Untouched
<1>9. Recorded'
  <2>1. \A q \in serving : q[1] \in Holds
    BY DEF IInv, Typed
  <2> QED BY <1>1, <1>3, <1>5, <1>6, <2>1 DEF IInv, Recorded
<1>10. InTurn' /\ Grounded'
  BY <1>1, <1>4, <1>5, <1>8 DEF IInv, InTurn, Grounded
<1>11. Answered'
  BY <1>1, <1>4, <1>5, <1>8 DEF IInv, Answered
<1>12. Unsettled'
  BY <1>1, <1>4, <1>5, <1>8 DEF IInv, Unsettled
<1> QED BY <1>7, <1>9, <1>10, <1>11, <1>12 DEF IInv

(* Every step of the approvals service and of a proxy.                     *)
LEMMA ServiceKeeps == IInv /\ ServiceStep => IInv'
<1> SUFFICES ASSUME IInv, ServiceStep PROVE IInv'
  OBVIOUS
<1>1. ASSUME NEW q \in net \cup serving, Refuse(q) PROVE IInv'
  BY <1>1, RespondKeeps DEF Refuse, service, Replies
<1>2. ASSUME NEW q \in net \cup serving, Answer(q) PROVE IInv'
  <2> DEFINE r == CASE record[q[1]] = "running" -> "conflict"
                    [] record[q[1]] = "applied" -> "applied"
                    [] record[q[1]] = "failed"  -> "not_applied"
                    [] record[q[1]] = "unknown" -> "indeterminate"
  <2>1. record[q[1]] \in {"running", "applied", "failed", "unknown"}
    <3>1. q[1] \in Holds
      BY DEF IInv, Typed
    <3>2. record[q[1]] # "none"
      BY <1>2 DEF Answer, IInv, Recorded
    <3> QED BY <3>1, <3>2 DEF IInv, Typed
  <2>2. /\ r \in Replies /\ r # "refused"
        /\ r = "applied" => record[q[1]] = "applied"
        /\ r = "not_applied" => record[q[1]] = "failed"
    BY <2>1 DEF Replies
  <2>3. Deliver(q, r) /\ net' = net \ {q} /\ serving' = serving \ {q} /\ UNCHANGED <<client, record, writes>>
    BY <1>2 DEF Answer
  <2> HIDE DEF r
  <2> QED BY <2>2, <2>3, RespondKeeps
<1>3. ASSUME NEW q \in net \cup serving, Interfere(q) PROVE IInv'
  <2>1. PICK r \in {"server_error", "malformed"} : Deliver(q, r)
    BY <1>3 DEF Interfere
  <2>2. net' \in {net, net \ {q}} /\ UNCHANGED <<client, serving, record, writes>>
    BY <1>3 DEF Interfere, service
  <2> QED BY <2>1, <2>2, RespondKeeps DEF Replies
<1> QED BY <1>1, <1>2, <1>3, BeginKeeps, ExecuteKeeps DEF ServiceStep

-----------------------------------------------------------------------------
(* Nothing was proposed, sent or executed.                                 *)
LEMMA InitIInv == Init => IInv
<1> SUFFICES ASSUME Init PROVE IInv
  OBVIOUS
<1>1. Typed
  <2>1. saw \in BOOLEAN /\ sent \in BOOLEAN
    BY Zenon DEF Init
  <2>2. hold \in Holds /\ attempt \in Nat \ {0} /\ pc = "idle"
    BY ApplyAssumption DEF Init, Holds
  <2>3. /\ net \subseteq Holds \X Nat /\ serving \subseteq Holds \X Nat
        /\ reply \in Replies \cup {None} /\ writes \in [Holds -> Nat]
        /\ outcome \in [Holds -> Outcomes \cup {None}]
        /\ record \in [Holds -> {"none", "running", "applied", "failed", "unknown"}]
    BY DEF Init
  <2> QED BY <2>1, <2>2, <2>3 DEF Typed
<1>2. \A h \in Holds : h \in Nat /\ h >= 1 /\ outcome[h] = None /\ writes[h] = 0 /\ Untouched(h)
  BY ApplyAssumption DEF Init, Untouched, Holds
<1>3. Recorded
  BY <1>2 DEF Init, Recorded, Untouched
<1>4. InTurn /\ Grounded
  BY <1>1, <1>2, ApplyAssumption DEF Init, Typed, InTurn, Grounded, Outcomes
<1> QED BY <1>1, <1>3, <1>4 DEF Init, IInv, Answered, Unsettled

(* Every step of the client and of the service keeps the invariant.        *)
LEMMA StepIInv == IInv /\ [Next]_vars => IInv'
<1> SUFFICES ASSUME IInv, [Next]_vars PROVE IInv'
  OBVIOUS
<1>1. CASE UNCHANGED vars
  BY <1>1 DEF vars, client, service, IInv, Typed, Recorded, InTurn, Grounded, Answered,
     Unsettled, Untouched
<1> QED BY <1>1, ClientKeeps, ServiceKeeps DEF Next

(* The invariant always holds.                                             *)
LEMMA Invariant == Spec => []IInv
BY InitIInv, StepIInv, PTL DEF Spec

(* apply_proposal's verdict, for every budget, backoff and number of       *)
(* attempts: "applied" is returned only for a write that happened,         *)
(* "failed" only for one that did not happen and will not.                 *)
THEOREM VerdictTrue == Spec => []OutcomeTrue
<1>1. IInv => OutcomeTrue
  BY DEF IInv, Recorded, Grounded, Untouched, OutcomeTrue
<1> QED BY <1>1, Invariant, PTL

(* The retries of a call and the resubmissions after a failed one execute  *)
(* the external write at most once between them.                           *)
THEOREM WriteOnce == Spec => []NoSecondWrite
<1>1. ASSUME IInv PROVE NoSecondWrite
  <2>1. hold \in Holds /\ \A h \in Holds : h \in Nat /\ writes[h] \in Nat
    BY <1>1, ApplyAssumption DEF IInv, Typed, Holds
  <2>2. \A h \in Holds : writes[h] <= 1
    BY <1>1 DEF IInv, Recorded, Typed
  <2>3. \A h \in Holds : h # hold => writes[h] = 0
    <3> SUFFICES ASSUME NEW h \in Holds, h # hold PROVE writes[h] = 0
      OBVIOUS
    <3>1. h < hold \/ h > hold
      BY <2>1
    <3>2. record[h] \in {"none", "failed"}
      BY <1>1, <3>1 DEF IInv, InTurn, Grounded, Untouched
    <3> QED BY <1>1, <3>2 DEF IInv, Recorded
  <2>4. {h \in Holds : writes[h] > 0} \subseteq {hold}
    BY <2>3
  <2>5. IsFiniteSet({hold}) /\ Cardinality({hold}) = 1
    BY FS_Singleton
  <2>6. Cardinality({h \in Holds : writes[h] > 0}) <= 1
    BY <2>4, <2>5, FS_Subset
  <2> QED BY <2>2, <2>6 DEF NoSecondWrite
<1> QED BY <1>1, Invariant, PTL

-----------------------------------------------------------------------------
(* The bounds of the counters and clocks.                                  *)
Ranges ==
    /\ attempt \in Attempts /\ (pc = "sleep" => attempt < MaxAttempts)
    /\ clock \in 0..(Budget + 1) /\ wake \in 0..(Budget + MaxSleep)
    /\ net \subseteq Holds \X Attempts /\ serving \subseteq Holds \X Attempts

(* random.uniform(0, base) and its two caps: a sleep is never longer than  *)
(* MAX_BACKOFF_SLEEP_SECONDS.                                              *)
LEMMA SleepBounded ==
    ASSUME Ranges, NEW d \in 0..LongestSleep PROVE d \in Int /\ 0 <= d /\ d <= MaxSleep
<1> DEFINE base == Backoff * 2^(attempt - 1)
<1>1. attempt - 1 \in Nat /\ clock \in Int
  BY ApplyAssumption DEF Ranges, Attempts
<1>2. 2^(attempt - 1) \in Int
  BY <1>1
<1>3. base \in Int
  BY <1>2, ApplyAssumption
<1> HIDE DEF base
<1>4. MinOf(base, MaxSleep) \in Int /\ MinOf(base, MaxSleep) <= MaxSleep
  BY <1>3, ApplyAssumption DEF MinOf
<1>5. LongestSleep \in Int /\ LongestSleep <= MaxSleep
  BY <1>1, <1>4, ApplyAssumption DEF LongestSleep, MinOf, Remaining, base
<1> QED BY <1>5, ApplyAssumption

(* Leaving an attempt keeps the bounds: a retry has an attempt left.       *)
LEMMA SettleRanges ==
    ASSUME Ranges, NEW disposition, Settle(disposition), UNCHANGED <<net, reply, service>>
    PROVE  Ranges'
<1>1. CASE \E o : Return(o)
  BY <1>1 DEF Return, Ranges, service
<1>2. CASE /\ attempt < MaxAttempts /\ Remaining >= MinRemaining
           /\ \E d \in 0..LongestSleep : wake' = clock + d
           /\ pc' = "sleep" /\ UNCHANGED <<attempt, clock>>
  <2>1. PICK d \in 0..LongestSleep : wake' = clock + d
    BY <1>2
  <2>2. d \in Int /\ 0 <= d /\ d <= MaxSleep
    BY SleepBounded
  <2>3. clock \in Nat /\ clock <= Budget
    BY <1>2, ApplyAssumption DEF Ranges, Remaining
  <2>4. wake' \in 0..(Budget + MaxSleep)
    BY <2>1, <2>2, <2>3, ApplyAssumption
  <2> QED BY <1>2, <2>4 DEF Ranges, service
<1> QED BY <1>1, <1>2 DEF Settle, Ambiguous, Definite

(* Every step keeps the bounds.                                            *)
LEMMA StepRanges == IInv /\ Ranges /\ [Next]_vars => Ranges'
<1> SUFFICES ASSUME IInv, Ranges, [Next]_vars PROVE Ranges'
  OBVIOUS
<1> USE ApplyAssumption
<1>1. CASE Misconfigured \/ OutOfBudget \/ Cancelled
  BY <1>1 DEF Misconfigured, OutOfBudget, Cancelled, Return, Ranges, service
<1>2. CASE Call
  BY <1>2 DEF Call, Ranges, service, Attempts
<1>3. CASE Attempt \/ Resubmit
  BY <1>3 DEF Attempt, Resubmit, Ranges, service
<1>4. CASE Send
  <2>1. <<hold, attempt>> \in Holds \X Attempts
    BY DEF IInv, Typed, Ranges
  <2> QED BY <1>4, <2>1 DEF Send, Ranges, service
<1>5. ASSUME NEW e \in Exceptions, Exception(e) PROVE Ranges'
  BY <1>5, SettleRanges DEF Exception
<1>6. CASE WallClock
  BY <1>6, SettleRanges DEF WallClock
<1>7. CASE Response
  <2>1. CASE \E o : Return(o)
    BY <1>7, <2>1 DEF Response, Return, Ranges, service
  <2>2. CASE Settle(ClassifyResponse(reply))
    BY <1>7, <2>2, SettleRanges DEF Response
  <2> QED BY <1>7, <2>1, <2>2 DEF Response
<1>8. CASE Wake
  BY <1>8 DEF Wake, Ranges, service, Attempts
<1>9. CASE TimePasses
  BY <1>9 DEF TimePasses, Ranges, service
<1>10. ASSUME NEW q \in net \cup serving, Refuse(q) \/ Begin(q) \/ Answer(q) \/ Interfere(q) PROVE Ranges'
  BY <1>10 DEF Refuse, Begin, Answer, Interfere, client, service, Ranges
<1>11. ASSUME NEW h \in Holds, Execute(h) PROVE Ranges'
  BY <1>11 DEF Execute, client, Ranges
<1>12. CASE UNCHANGED vars
  BY <1>12 DEF vars, client, service, Ranges
<1> QED
  BY <1>1, <1>2, <1>3, <1>4, <1>5, <1>6, <1>7, <1>8, <1>9, <1>10, <1>11, <1>12
  DEF Next, ClientStep, ServiceStep

(* Type correctness: the loop makes no more than PROPOSAL_APPLY_MAX_ATTEMPTS*)
(* attempts, and no sleep reaches beyond the budget and the longest sleep. *)
THEOREM TypeCorrect == Spec => []TypeOK
<1>1. Init => Ranges
  BY ApplyAssumption DEF Init, Ranges, Attempts
<1>2. ASSUME IInv, Ranges PROVE TypeOK
  <2>1. \A h \in Holds : writes[h] \in 0..2
    BY <1>2 DEF IInv, Typed, Recorded
  <2>2. writes \in [Holds -> 0..2]
    BY <1>2, <2>1 DEF IInv, Typed
  <2> QED BY <1>2, <2>2 DEF IInv, Typed, Ranges, TypeOK
<1> QED BY <1>1, <1>2, InitIInv, StepIInv, StepRanges, PTL DEF Spec
=============================================================================
