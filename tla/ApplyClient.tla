----------------------------- MODULE ApplyClient -----------------------------
(***************************************************************************)
(* proposal_apply_http_client: the board's side of one external write.     *)
(* apply_proposal posts an approved proposal to the approvals service and  *)
(* must tell "applied", "failed" and "nobody knows" (indeterminate) apart  *)
(* although requests and answers are lost, late or garbled.  A failed hold *)
(* may be proposed again under a fresh hold id, an indeterminate one not,  *)
(* so a wrong "failed" is a duplicated write.                              *)
(*                                                                         *)
(* The holds 1..MaxHolds are the successive proposals of one action.  The  *)
(* service is external.  It is modelled from the contract the client's     *)
(* docstring relies on: a hold id is executed once, proposal_apply_attempts*)
(* remembers how that ended, and a request refused by its status (4xx) was *)
(* not executed.  Time is counted in ticks from the start of a call.       *)
(***************************************************************************)
EXTENDS Integers, FiniteSets

CONSTANTS
    MaxHolds,       \* bound: how often the action is proposed
    MaxAttempts,    \* PROPOSAL_APPLY_MAX_ATTEMPTS
    Budget,         \* PROPOSAL_APPLY_RETRY_BUDGET_SECONDS
    MinRemaining,   \* MIN_REMAINING_BUDGET_FOR_RETRY_SECONDS
    Backoff,        \* PROPOSAL_APPLY_RETRY_BACKOFF_SECONDS
    MaxSleep,       \* MAX_BACKOFF_SLEEP_SECONDS
    None

Holds == 1..MaxHolds
Attempts == 1..MaxAttempts

Outcomes == {"applied", "failed", "indeterminate", "cancelled"}
Replies == {"applied", "not_applied", "indeterminate", "malformed",
            "refused", "conflict", "server_error"}

(* _read_max_attempts and _read_retry_budget_seconds refuse the rest.      *)
ASSUME ApplyAssumption ==
    /\ MaxHolds \in Nat \ {0}
    /\ MaxAttempts \in 1..10
    /\ MinRemaining \in Nat \ {0} /\ MaxSleep \in Nat /\ Backoff \in Nat \ {0}
    /\ Budget \in Nat /\ Budget >= MinRemaining
    /\ None \notin Outcomes \cup Replies

VARIABLES
    pc,         \* where apply_proposal is
    hold,       \* ctx.hold_id, the idempotency key of every attempt
    attempt,
    saw,        \* saw_ambiguous
    sent,       \* the request of this attempt left the process
    clock,      \* monotonic time since the call began
    wake,       \* when the sleep before the next attempt ends
    outcome,    \* what the calls returned to the board
    net,        \* requests on their way to the service
    reply,      \* the response that reached the client
    serving,    \* external: the request a hold's execution answers to
    record,     \* external: proposal_apply_attempts
    writes      \* external: how often the write was executed

client == <<pc, hold, attempt, saw, sent, clock, wake, outcome>>
service == <<serving, record, writes>>
vars == <<client, net, reply, service>>

TypeOK ==
    /\ pc \in {"idle", "top", "wire", "sleep", "returned"}
    /\ hold \in Holds /\ attempt \in Attempts
    /\ saw \in BOOLEAN /\ sent \in BOOLEAN
    /\ clock \in 0..(Budget + 1) /\ wake \in 0..(Budget + MaxSleep)
    /\ outcome \in [Holds -> Outcomes \cup {None}]
    /\ net \subseteq Holds \X Attempts
    /\ serving \subseteq Holds \X Attempts
    /\ reply \in Replies \cup {None}
    /\ record \in [Holds -> {"none", "running", "applied", "failed", "unknown"}]
    /\ writes \in [Holds -> 0..2]

Init ==
    /\ pc = "idle" /\ hold = 1 /\ attempt = 1
    /\ saw = FALSE /\ sent = FALSE /\ clock = 0 /\ wake = 0
    /\ outcome = [h \in Holds |-> None]
    /\ net = {} /\ serving = {} /\ reply = None
    /\ record = [h \in Holds |-> "none"] /\ writes = [h \in Holds |-> 0]

Remaining == Budget - clock

-----------------------------------------------------------------------------
(* What a failed attempt says about the write.                             *)

(* The exceptions httpx raises before a request leaves the process, and    *)
(* the ones it may raise at any time.                                      *)
NeverSent == {"ConnectError", "PoolTimeout", "ProxyError"}
Exceptions == NeverSent \cup {"ReadTimeout", "RemoteProtocolError"}

ClassifyException(e) == IF e \in NeverSent THEN "DEFINITE_CLEAN" ELSE "AMBIGUOUS"

(* 401, 403, 422 and every other status but 200, 409 and 5xx are "refused";*)
(* a 200 whose body is not the promised object is "malformed".             *)
ClassifyResponseFiveHundred(r) ==
    IF r \in {"applied", "not_applied"} THEN "DECIDED"
    ELSE IF r \in {"refused", "server_error"} THEN "DEFINITE_TERMINAL" ELSE "AMBIGUOUS"
ClassifyResponse(r) ==
    IF r \in {"applied", "not_applied"} THEN "DECIDED"
    ELSE IF r = "refused" THEN "DEFINITE_TERMINAL" ELSE "AMBIGUOUS"

-----------------------------------------------------------------------------
(* apply_proposal.                                                         *)

Return(o) ==
    /\ pc' = "returned"
    /\ outcome' = [outcome EXCEPT ![hold] = o]
    /\ UNCHANGED <<hold, attempt, saw, sent, clock, wake>>

(* No hold id, no usable URL, token, number or transport: nothing is sent. *)
Misconfigured ==
    /\ pc = "idle"
    /\ Return("failed")
    /\ UNCHANGED <<net, reply, service>>

Call ==
    /\ pc = "idle"
    /\ pc' = "top"
    /\ attempt' = 1 /\ saw' = FALSE /\ sent' = FALSE /\ clock' = 0 /\ wake' = 0
    /\ UNCHANGED <<hold, outcome, net, reply, service>>

(* After the loop, whether it broke or ran out of attempts.                *)
Exhausted(made, ambiguous) == IF made > 0 /\ ambiguous THEN "indeterminate" ELSE "failed"

BudgetSpent == Remaining <= 0 \/ (attempt > 1 /\ Remaining < MinRemaining)

OutOfBudget ==
    /\ pc = "top" /\ BudgetSpent
    /\ Return(Exhausted(attempt - 1, saw))
    /\ UNCHANGED <<net, reply, service>>

Attempt ==
    /\ pc = "top" /\ ~BudgetSpent
    /\ pc' = "wire" /\ sent' = FALSE /\ reply' = None
    /\ UNCHANGED <<hold, attempt, saw, clock, wake, outcome, net, service>>

Send ==
    /\ pc = "wire" /\ ~sent
    /\ sent' = TRUE
    /\ net' = net \cup {<<hold, attempt>>}
    /\ UNCHANGED <<pc, hold, attempt, saw, clock, wake, outcome, reply, service>>

MinOf(a, b) == IF a < b THEN a ELSE b

(* uniform(0, base) cut so that MinRemaining is left after it.             *)
LongestSleep == MinOf(MinOf(Backoff * 2^(attempt - 1), MaxSleep), Remaining - MinRemaining)

(* The attempt may have been executed: remember it, and try again if there *)
(* is an attempt and time for one.                                         *)
AmbiguousOneMore ==
    IF attempt <= MaxAttempts /\ Remaining >= MinRemaining
    THEN /\ \E d \in 0..LongestSleep : wake' = clock + d
         /\ pc' = "sleep" /\ saw' = TRUE
         /\ UNCHANGED <<hold, attempt, sent, clock, outcome>>
    ELSE Return(Exhausted(attempt, TRUE))
Ambiguous ==
    IF attempt < MaxAttempts /\ Remaining >= MinRemaining
    THEN /\ \E d \in 0..LongestSleep : wake' = clock + d
         /\ pc' = "sleep" /\ saw' = TRUE
         /\ UNCHANGED <<hold, attempt, sent, clock, outcome>>
    ELSE Return(Exhausted(attempt, TRUE))

(* "Once ambiguous, always ambiguous."                                     *)
DefiniteAsSeen == Return("failed")
Definite == Return(IF saw THEN "indeterminate" ELSE "failed")

Settle(disposition) == IF disposition = "AMBIGUOUS" THEN Ambiguous ELSE Definite

Exception(e) ==
    /\ pc = "wire"
    /\ e \in NeverSent => ~sent
    /\ Settle(ClassifyException(e))
    /\ UNCHANGED <<net, reply, service>>

(* asyncio.timeout(remaining_budget), reported as a ReadTimeout.           *)
WallClockOnConnect ==
    /\ pc = "wire" /\ clock >= Budget /\ ~sent
    /\ Settle(ClassifyException("ReadTimeout"))
    /\ UNCHANGED <<net, reply, service>>
WallClock ==
    /\ pc = "wire" /\ clock >= Budget
    /\ Settle(ClassifyException("ReadTimeout"))
    /\ UNCHANGED <<net, reply, service>>

Response ==
    /\ pc = "wire" /\ reply # None
    /\ IF ClassifyResponse(reply) = "DECIDED"
       THEN Return(IF reply = "applied" THEN "applied" ELSE "failed")
       ELSE Settle(ClassifyResponse(reply))
    /\ UNCHANGED <<net, reply, service>>

Wake ==
    /\ pc = "sleep" /\ clock >= wake
    /\ pc' = "top" /\ attempt' = attempt + 1
    /\ UNCHANGED <<hold, saw, sent, clock, wake, outcome, net, reply, service>>

(* CancelledError is re-raised; the board leaves the hold "applying".      *)
Cancelled ==
    /\ pc \in {"wire", "sleep"}
    /\ Return("cancelled")
    /\ UNCHANGED <<net, reply, service>>

(* The event loop may be late everywhere, but it ends a request at its     *)
(* deadline before it serves anything else.                                *)
TimePasses ==
    /\ pc \in {"top", "wire", "sleep"} /\ clock <= Budget
    /\ pc = "wire" => clock < Budget
    /\ clock' = clock + 1
    /\ UNCHANGED <<pc, hold, attempt, saw, sent, wake, outcome, net, reply, service>>

(* A failed hold no longer blocks its action: it is proposed and approved  *)
(* again, under a new id.                                                  *)
Resubmit ==
    /\ pc = "returned" /\ outcome[hold] = "failed" /\ hold < MaxHolds
    /\ hold' = hold + 1 /\ pc' = "idle"
    /\ UNCHANGED <<attempt, saw, sent, clock, wake, outcome, net, reply, service>>

-----------------------------------------------------------------------------
(* The approvals service and the network.                                  *)

(* A response reaches the client only if it still waits for that attempt.  *)
Deliver(q, r) == reply' = IF pc = "wire" /\ q = <<hold, attempt>> THEN r ELSE reply

(* Credentials and validation come before the attempt is looked up.        *)
Refuse(q) ==
    /\ q \in net
    /\ net' = net \ {q} /\ Deliver(q, "refused")
    /\ UNCHANGED <<client, service>>

Begin(q) ==
    /\ q \in net /\ record[q[1]] = "none"
    /\ record' = [record EXCEPT ![q[1]] = "running"]
    /\ net' = net \ {q} /\ serving' = serving \cup {q}
    /\ UNCHANGED <<client, reply, writes>>

(* The write is executed or fails; a crash loses which of the two it was.  *)
Execute(h) ==
    /\ record[h] = "running"
    /\ \E done \in BOOLEAN :
         /\ writes' = [writes EXCEPT ![h] = IF done THEN @ + 1 ELSE @]
         /\ \E e \in {IF done THEN "applied" ELSE "failed", "unknown"} :
              record' = [record EXCEPT ![h] = e]
    /\ UNCHANGED <<client, net, reply, serving>>

(* A second request for a hold meets its record, or its execution (409).   *)
Answer(q) ==
    /\ \/ q \in net /\ record[q[1]] # "none"
       \/ q \in serving /\ record[q[1]] # "running"
    /\ net' = net \ {q} /\ serving' = serving \ {q}
    /\ Deliver(q, CASE record[q[1]] = "running" -> "conflict"
                    [] record[q[1]] = "applied" -> "applied"
                    [] record[q[1]] = "failed"  -> "not_applied"
                    [] record[q[1]] = "unknown" -> "indeterminate")
    /\ UNCHANGED <<client, record, writes>>

(* A proxy answers for the service, or spoils its answer; the request may  *)
(* still be on its way or lost.                                            *)
Interfere(q) ==
    /\ q \in net \cup serving
    /\ \E r \in {"server_error", "malformed"} : Deliver(q, r)
    /\ net' \in {net, net \ {q}}
    /\ UNCHANGED <<client, service>>

-----------------------------------------------------------------------------
ClientStep ==
    \/ Misconfigured \/ Call \/ OutOfBudget \/ Attempt \/ Send
    \/ \E e \in Exceptions : Exception(e)
    \/ WallClock \/ Response \/ Wake

ServiceStep ==
    \/ \E q \in net \cup serving : Refuse(q) \/ Begin(q) \/ Answer(q) \/ Interfere(q)
    \/ \E h \in Holds : Execute(h)

Next == ClientStep \/ Cancelled \/ TimePasses \/ Resubmit \/ ServiceStep

Spec == Init /\ [][Next]_vars

(* The event loop runs the coroutine and its timers.  Nothing is assumed   *)
(* of the service, the network, the caller that cancels or the bot.        *)
Fairness == WF_vars(OutOfBudget \/ Attempt \/ WallClock \/ Response \/ Wake) /\ WF_vars(TimePasses)

LiveSpec == Spec /\ Fairness

-----------------------------------------------------------------------------
(* The docstrings of apply_proposal and ProposalApplyOutcome: "applied" is *)
(* returned only for a write that happened, "failed" only for one that did *)
(* not and, however late a request of the call is delivered, never will.   *)
OutcomeTrue ==
    \A h \in Holds :
        /\ outcome[h] = "applied" => writes[h] = 1
        /\ outcome[h] = "failed" => writes[h] = 0

(* "... rather than minting a fresh hold_id on resubmission, preventing    *)
(* duplicate external writes": retries and resubmissions of one action     *)
(* together execute it at most once.                                       *)
NoSecondWrite == Cardinality({h \in Holds : writes[h] > 0}) <= 1 /\ \A h \in Holds : writes[h] <= 1

(* A call returns to the board (or is cancelled) even if the service never *)
(* answers: the claimed hold is not left waiting for a request.            *)
CallReturns == pc = "top" ~> pc = "returned"
=============================================================================
