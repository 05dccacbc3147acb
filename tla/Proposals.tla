------------------------------ MODULE Proposals ------------------------------
(***************************************************************************)
(* The proposal pipeline of the board (service.py): a bot submits a change *)
(* to an external target, a judge may approve it at once, otherwise the    *)
(* owners decide, and an approved proposal is written to the target        *)
(* exactly where a request holds the claim status = "applying".            *)
(*                                                                         *)
(* Every request is a coroutine with a program counter.  One action is one *)
(* database transaction or one awaited external call; between two actions  *)
(* of a request any other request may run, which is what the code's        *)
(* commits and awaits allow.  A transaction that locks its row (FOR UPDATE *)
(* up to its commit) is one action; a SELECT without a lock followed by a  *)
(* later UPDATE is two.                                                    *)
(***************************************************************************)
EXTENDS Naturals, Sequences, FiniteSets

CONSTANTS
    Requests,          \* request coroutines (POST /proposals, decide, withdraw)
    Holds,             \* ids of proposal_holds rows
    Keys,              \* dedup keys: kind, bot, target_id, action_type, ...
    Payloads,          \* what a submission asks for (action, rationale, ...)
    Digests,           \* fingerprints of a target's state
    Owners,            \* human owners
    CrossKeys,         \* keys that name another agent's brain
    NoTargetKeys,      \* keys whose fingerprint is FINGERPRINT_NO_TARGET
    RequiredOwners,    \* key -> the owners whose approval it needs
    MaxCommitFaults,   \* bound: failing commits of terminal writes
    Aborts,            \* may a request die (crash, cancellation, DB error)?
    ContractViolations,\* may a judge's apply() return an unusable result?
    None               \* "not set"

ASSUME KeyAssumption ==
    /\ CrossKeys \subseteq Keys
    /\ NoTargetKeys \subseteq Keys
    /\ RequiredOwners \in [Keys -> SUBSET Owners]
(* _cross_brain_required_owners: its one owner, unless it crosses brains. *)
ASSUME OwnBrainAssumption ==
    \A k \in Keys \ CrossKeys : \E o \in Owners : RequiredOwners[k] = {o}
ASSUME SwitchAssumption ==
    /\ MaxCommitFaults \in Nat
    /\ Aborts \in BOOLEAN
    /\ ContractViolations \in BOOLEAN
ASSUME NoneAssumption ==
    /\ None \notin Requests /\ None \notin Holds /\ None \notin Keys
    /\ None \notin Digests

VARIABLES
    rows,      \* the proposal_holds table
    req,       \* the local state of every request
    target,    \* the digest of every key's external target
    faults,    \* terminal commits that failed so far
    writes,    \* history: the contents written to the target under each hold
    endorsed   \* history: who approved which content of each hold

vars == <<rows, req, target, faults, writes, endorsed>>

-----------------------------------------------------------------------------
(* The content of a hold: its payload and the fingerprint stored with it,  *)
(* the columns _proposal_resubmission_snapshot compares.                   *)
Content == [payload : Payloads, fp : Digests \cup {None}]

Statuses == {"absent", "pending", "applying", "rejected", "applied",
             "apply_failed", "stale", "withdrawn"}

(* What decision_note says: nothing, the decision's own note, that         *)
(* auto-approval was withheld, or that the judge failed.                   *)
Notes == {"none", "decision", "withheld", "judge_error"}

Row == [key : Keys \cup {None}, status : Statuses,
        content : Content \cup {None}, approvals : SUBSET Owners,
        source : {"none", "human", "auto", "bot"}, rule : BOOLEAN,
        note : Notes]

NoRow == [key |-> None, status |-> "absent", content |-> None,
          approvals |-> {}, source |-> "none", rule |-> FALSE,
          note |-> "none"]

Outcomes == {"none", "applied", "failed", "stale", "indeterminate"}

PCs == {"idle", "dedup", "insert", "reselect", "update", "judge", "gate",
        "read", "check", "apply", "finish", "recover", "lastditch",
        "done", "dead"}

(* What a request loaded with the unlocked SELECT of the dedup match; the  *)
(* ORM later emits an UPDATE of just the columns that differ from it.      *)
Loaded == [content : Content \cup {None}, approvals : SUBSET Owners]
Nothing == [content |-> None, approvals |-> {}]

Request == [pc : PCs, key : Keys \cup {None}, hold : Holds \cup {None},
            content : Content \cup {None}, loaded : Loaded, rule : BOOLEAN,
            outcome : Outcomes]

Fresh == [pc |-> "idle", key |-> None, hold |-> None, content |-> None,
          loaded |-> Nothing, rule |-> FALSE, outcome |-> "none"]

Endorsement == [by : Owners \cup {"judge"}, content : Content \cup {None}]

TypeOK ==
    /\ rows \in [Holds -> Row]
    /\ req \in [Requests -> Request]
    /\ target \in [Keys -> Digests]
    /\ faults \in 0..MaxCommitFaults
    /\ writes \in [Holds -> Seq(Content \cup {None})]
    /\ endorsed \in [Holds -> SUBSET Endorsement]

Init ==
    /\ rows = [h \in Holds |-> NoRow]
    /\ req = [r \in Requests |-> Fresh]
    /\ target \in [Keys -> Digests]
    /\ faults = 0
    /\ writes = [h \in Holds |-> <<>>]
    /\ endorsed = [h \in Holds |-> {}]

-----------------------------------------------------------------------------
(* Helpers.                                                                *)

(* The statuses the dedup predicate and its partial unique index select.   *)
OpenPendingOnly == {"pending"}
OpenStatuses == {"pending", "applying"}

Matches(k) == {h \in Holds : rows[h].key = k /\ rows[h].status \in OpenStatuses}

(* Requests that hold the claim of their row and have not tried to end it. *)
ClaimPCs == {"read", "check", "apply", "finish"}
(* ... and those that are retrying its terminal commit as well.            *)
DriverPCs == ClaimPCs \cup {"recover", "lastditch"}

(* judge.fingerprint: the target's digest, or the sentinel that stands for *)
(* "no pre-existing target".                                               *)
Fingerprint(k) == IF k \in NoTargetKeys THEN None ELSE target[k]

(* The status a proposal must be in to be claimed, decided or withdrawn.   *)
UndecidedUnchecked(h) == rows[h].status \in {"pending", "applying"}
Undecided(h) == rows[h].status = "pending"

(* A request that ends keeps only what it was working on.                  *)
Ended(q) == [Fresh EXCEPT !.pc = "done", !.hold = q.hold, !.outcome = q.outcome]

(* A request that goes on at pc.                                           *)
Going(q, pc) == [q EXCEPT !.pc = pc]


-----------------------------------------------------------------------------
(* POST /proposals: create_proposal.                                       *)

(* Validation, the cross-brain target and the fingerprint of the target    *)
(* come first; the request then knows the content it wants to store.       *)
Submitting(k, p) ==
    [Fresh EXCEPT !.pc = "dedup", !.key = k,
                  !.content = [payload |-> p, fp |-> Fingerprint(k)]]

Submit(r, k, p) ==
    /\ req[r].pc = "idle"
    /\ req' = [req EXCEPT ![r] = Submitting(k, p)]
    /\ UNCHANGED <<rows, target, faults, writes, endorsed>>

(* A submission that ends before it touches a row: refused by validation,  *)
(* by an unavailable target or by the rate limit.                          *)
SubmitRefused(r) ==
    /\ req[r].pc \in {"idle", "dedup"}
    /\ req' = [req EXCEPT ![r] = Ended(@)]
    /\ UNCHANGED <<rows, target, faults, writes, endorsed>>

(* The dedup SELECT, taken without a row lock.  A pending match will be    *)
(* rewritten by a later UPDATE, an applying one is returned as it is.      *)
DedupMatch(q, h, row) ==
    IF row.status = "pending"
    THEN [q EXCEPT !.pc = "update", !.hold = h,
                   !.loaded = [content |-> row.content, approvals |-> row.approvals]]
    ELSE [q EXCEPT !.pc = "judge", !.hold = h, !.content = row.content]

DedupSelect(r) ==
    /\ req[r].pc = "dedup"
    /\ \/ /\ Matches(req[r].key) = {}
          /\ req' = [req EXCEPT ![r] = Going(@, "insert")]
       \/ \E h \in Matches(req[r].key) :
             req' = [req EXCEPT ![r] = DedupMatch(@, h, rows[h])]
    /\ UNCHANGED <<rows, target, faults, writes, endorsed>>

(* The INSERT, refused by idx_proposal_holds_pending_dedup when an open    *)
(* row with the key has been committed since the SELECT.                   *)
NewRow(k, c) == [NoRow EXCEPT !.key = k, !.status = "pending", !.content = c]

Judging(q, h) == [q EXCEPT !.pc = "judge", !.hold = h, !.loaded = Nothing]

DedupInsert(r) ==
    /\ req[r].pc = "insert"
    /\ Matches(req[r].key) = {}
    /\ \E h \in Holds :
         /\ rows[h].status = "absent"
         /\ rows' = [rows EXCEPT ![h] = NewRow(req[r].key, req[r].content)]
         /\ req' = [req EXCEPT ![r] = Judging(@, h)]
    /\ UNCHANGED <<target, faults, writes, endorsed>>

DedupInsertLost(r) ==
    /\ req[r].pc = "insert"
    /\ Matches(req[r].key) # {}
    /\ req' = [req EXCEPT ![r] = Going(@, "reselect")]
    /\ UNCHANGED <<rows, target, faults, writes, endorsed>>

(* The second SELECT after a lost INSERT; the error propagates when the    *)
(* row that won has been closed meanwhile.                                 *)
DedupReselect(r) ==
    /\ req[r].pc = "reselect"
    /\ \/ /\ Matches(req[r].key) = {}
          /\ req' = [req EXCEPT ![r] = Ended(@)]
       \/ \E h \in Matches(req[r].key) :
             req' = [req EXCEPT ![r] = DedupMatch(@, h, rows[h])]
    /\ UNCHANGED <<rows, target, faults, writes, endorsed>>

(* The UPDATE of a resubmission: by id, of the columns that differ from    *)
(* what the SELECT loaded, whatever the row's status is by now.            *)
Rewritten(row, new, loaded) ==
    [row EXCEPT
        !.content = [payload |-> IF new.payload # loaded.content.payload
                                 THEN new.payload ELSE row.content.payload,
                     fp |-> IF new.fp # loaded.content.fp
                            THEN new.fp ELSE row.content.fp],
        !.approvals = IF loaded.approvals # {} THEN {} ELSE @]

ResubmitUpdate(r) ==
    /\ req[r].pc = "update"
    /\ rows' = [rows EXCEPT ![req[r].hold] =
                  Rewritten(@, req[r].content, req[r].loaded)]
    /\ req' = [req EXCEPT ![r] = Judging(@, req[r].hold)]
    /\ UNCHANGED <<target, faults, writes, endorsed>>

(* The judge answers "hold for a human" (or the approval of a cross-brain  *)
(* proposal is downgraded for want of an allowlisted rule).                *)
JudgeHolds(r) ==
    /\ req[r].pc = "judge"
    /\ req' = [req EXCEPT ![r] = Ended(@)]
    /\ UNCHANGED <<rows, target, faults, writes, endorsed>>

Noted(row, note) == [row EXCEPT !.note = note]

(* The judge raises or answers nonsense: the note is written to the row    *)
(* from the copy in memory, without a lock or a look at its status.        *)
JudgeErrs(r) ==
    /\ req[r].pc = "judge"
    /\ rows' = [rows EXCEPT ![req[r].hold] = Noted(@, "judge_error")]
    /\ req' = [req EXCEPT ![r] = Ended(@)]
    /\ UNCHANGED <<target, faults, writes, endorsed>>

(* The judge approves; a cross-brain approval counts only with a rule that *)
(* is on the operator's allowlist.                                         *)
Approving(q) == [q EXCEPT !.pc = "gate", !.rule = (q.key \in CrossKeys)]

JudgeApproves(r) ==
    /\ req[r].pc = "judge"
    /\ req' = [req EXCEPT ![r] = Approving(@)]
    /\ UNCHANGED <<rows, target, faults, writes, endorsed>>

(* The kill switch is on, the daily cap is reached or could not be read:   *)
(* an undecided hold is left to the humans with a note.                    *)
AutoApproveWithheld(r) ==
    /\ req[r].pc = "gate"
    /\ rows' = IF Undecided(req[r].hold)
               THEN [rows EXCEPT ![req[r].hold] = Noted(@, "withheld")] ELSE rows
    /\ req' = [req EXCEPT ![r] = Ended(@)]
    /\ UNCHANGED <<target, faults, writes, endorsed>>

(* The verdict may only be used on the very content that was judged.       *)
StillAsJudged(r) == rows[req[r].hold].content = req[r].content

(* A decision: the new status, who took it, and its note.                  *)
Decided(row, status, source) ==
    [row EXCEPT !.status = status, !.source = source, !.note = "decision"]

AutoClaimed(row, rule) ==
    [row EXCEPT !.status = "applying", !.source = "auto", !.note = "decision",
                !.rule = rule]

(* A request that holds a claim goes on in _apply_or_finalize_proposal_hold. *)
Driving(q, k, h) == [q EXCEPT !.pc = "read", !.key = k, !.hold = h, !.rule = FALSE]

(* _claim_proposal_hold_for_applying: a compare-and-set under FOR UPDATE.  *)
AutoClaim(r) ==
    LET h == req[r].hold IN
    /\ req[r].pc = "gate"
    /\ Undecided(h) /\ StillAsJudged(r)
    /\ rows' = [rows EXCEPT ![h] = AutoClaimed(@, req[r].rule)]
    /\ endorsed' = [endorsed EXCEPT
                      ![h] = @ \cup {[by |-> "judge", content |-> rows[h].content]}]
    /\ req' = [req EXCEPT ![r] = Driving(@, req[r].key, h)]
    /\ UNCHANGED <<target, faults, writes>>

AutoClaimLost(r) ==
    /\ req[r].pc = "gate"
    /\ ~(Undecided(req[r].hold) /\ StillAsJudged(r))
    /\ req' = [req EXCEPT ![r] = Ended(@)]
    /\ UNCHANGED <<rows, target, faults, writes, endorsed>>

-----------------------------------------------------------------------------
(* POST /proposals/{id}/decide and the bot's withdrawal.  Both lock the    *)
(* row for the whole transaction.                                          *)

Reject(r, o, h) ==
    /\ req[r].pc = "idle"
    /\ Undecided(h) /\ o \in RequiredOwners[rows[h].key]
    /\ rows' = [rows EXCEPT ![h] = Decided(@, "rejected", "human")]
    /\ req' = [req EXCEPT ![r] = Ended(@)]
    /\ UNCHANGED <<target, faults, writes, endorsed>>

(* A cross-brain hold collects approvals, any other needs its one owner.   *)
CollectedForAll(row, o) ==
    [row EXCEPT !.approvals = IF row.key \in CrossKeys
                              THEN RequiredOwners[row.key] ELSE @]
Collected(row, o) ==
    [row EXCEPT !.approvals = IF row.key \in CrossKeys THEN @ \cup {o} ELSE @]

AllApproved(row) ==
    row.key \in CrossKeys => RequiredOwners[row.key] \subseteq row.approvals

Approve(r, o, h) ==
    LET row == Collected(rows[h], o) IN
    /\ req[r].pc = "idle"
    /\ Undecided(h) /\ o \in RequiredOwners[rows[h].key]
    /\ endorsed' = [endorsed EXCEPT
                      ![h] = @ \cup {[by |-> o, content |-> rows[h].content]}]
    /\ \/ /\ AllApproved(row)
          /\ rows' = [rows EXCEPT ![h] = Decided(row, "applying", "human")]
          /\ req' = [req EXCEPT ![r] = Driving(@, rows[h].key, h)]
       \/ /\ ~AllApproved(row)
          /\ rows' = [rows EXCEPT ![h] = row]
          /\ req' = [req EXCEPT ![r] = Ended(@)]
    /\ UNCHANGED <<target, faults, writes>>

Withdraw(r, h) ==
    /\ req[r].pc = "idle"
    /\ Undecided(h)
    /\ rows' = [rows EXCEPT ![h] = Decided(@, "withdrawn", "bot")]
    /\ req' = [req EXCEPT ![r] = Ended(@)]
    /\ UNCHANGED <<target, faults, writes, endorsed>>


(* A decision or withdrawal of a hold that is already decided (409).       *)
DecisionRefused(r, h) ==
    /\ req[r].pc = "idle"
    /\ rows[h].status # "absent" /\ ~Undecided(h)
    /\ req' = [req EXCEPT ![r] = Ended(@)]
    /\ UNCHANGED <<rows, target, faults, writes, endorsed>>

-----------------------------------------------------------------------------
(* _apply_or_finalize_proposal_hold: what a request that claimed a row     *)
(* does with it.                                                           *)

(* A cross-brain hold that reached "applying" without every approval.      *)
CrossBrainUnapproved(row) ==
    /\ row.key \in CrossKeys
    /\ ~ \/ row.source = "human" /\ RequiredOwners[row.key] \subseteq row.approvals
         \/ row.source = "auto" /\ row.rule

(* The row is read again, without a lock, and its content captured for     *)
(* the external calls.                                                     *)
Reading(q, row) ==
    [q EXCEPT !.content = row.content,
              !.pc = IF CrossBrainUnapproved(row) THEN "finish" ELSE "check",
              !.outcome = IF CrossBrainUnapproved(row) THEN "failed" ELSE "none"]

ApplyRead(r) ==
    /\ req[r].pc = "read"
    /\ req' = [req EXCEPT ![r] = Reading(@, rows[req[r].hold])]
    /\ UNCHANGED <<rows, target, faults, writes, endorsed>>

(* FINGERPRINT_NO_TARGET is never stale, a digest is when it differs.      *)
IsStale(r) == /\ Fingerprint(req[r].key) # None
              /\ Fingerprint(req[r].key) # req[r].content.fp

(* The external calls are over; what remains is to record the outcome.     *)
Concluding(q, outcome) == [q EXCEPT !.pc = "finish", !.outcome = outcome]

ApplyCheck(r) ==
    /\ req[r].pc = "check"
    /\ req' = IF IsStale(r) THEN [req EXCEPT ![r] = Concluding(@, "stale")]
                              ELSE [req EXCEPT ![r] = Going(@, "apply")]
    /\ UNCHANGED <<rows, target, faults, writes, endorsed>>

(* The target is unavailable, or the request is cancelled while it is read. *)
ApplyCheckFails(r) ==
    /\ req[r].pc = "check"
    /\ req' = [req EXCEPT ![r] = Concluding(@, "failed")]
    /\ UNCHANGED <<rows, target, faults, writes, endorsed>>

(* What judge.apply can do: the answers it gives and, for each, whether    *)
(* the target may have been written.                                       *)
ApplyAnswers ==
    [says : {"applied"}, wrote : {TRUE}]
    \cup [says : {"refused"}, wrote : {FALSE}]
    \cup [says : {"ambiguous", "contradictory", "raised", "cancelled"},
          wrote : BOOLEAN]
    \cup (IF ContractViolations
          THEN [says : {"unusable", "malformed"}, wrote : BOOLEAN] ELSE {})

(* _safe_apply and _normalize_outcome: what the board makes of an answer.  *)
SafeApplyOptimistic(says) ==
    CASE says = "applied" -> "applied"
      [] OTHER -> "failed"
SafeApply(says) ==
    CASE says = "applied" -> "applied"
      [] says \in {"refused", "unusable", "malformed"} -> "failed"
      [] OTHER -> "indeterminate"

ApplyCall(r) ==
    LET h == req[r].hold IN
    /\ req[r].pc = "apply"
    /\ \E a \in ApplyAnswers :
         /\ req' = [req EXCEPT ![r] = Concluding(@, SafeApply(a.says))]
         /\ IF a.wrote
            THEN /\ writes' = [writes EXCEPT ![h] = Append(@, req[r].content)]
                 /\ \E d \in Digests : target' = [target EXCEPT ![req[r].key] = d]
            ELSE UNCHANGED <<writes, target>>
    /\ UNCHANGED <<rows, faults, endorsed>>

(* The row an outcome leaves behind.  An indeterminate one stays claimed,  *)
(* so that the key stays blocked.                                          *)
ResolvedVerbatim(row, outcome) ==
    [row EXCEPT !.note = "decision",
                !.status = IF outcome = "indeterminate" THEN @ ELSE outcome]
ResolvedEagerly(row, outcome) ==
    [row EXCEPT !.note = "decision",
                !.status = CASE outcome = "applied" -> "applied"
                             [] outcome = "stale" -> "stale"
                             [] OTHER -> "apply_failed"]
Resolved(row, outcome) ==
    [row EXCEPT !.note = "decision",
                !.status = CASE outcome = "applied" -> "applied"
                             [] outcome = "failed" -> "apply_failed"
                             [] outcome = "stale" -> "stale"
                             [] OTHER -> @]

(* One attempt to commit the outcome under FOR UPDATE: the row may have    *)
(* been resolved already; the commit may succeed, or fail without or after *)
(* taking effect, and then the request goes on at "retry".                 *)
TerminalWrite(r, retry) ==
    LET h == req[r].hold
        written == [rows EXCEPT ![h] = Resolved(@, req[r].outcome)] IN
    /\ \/ /\ rows[h].status # "applying"
          /\ req' = [req EXCEPT ![r] = Ended(@)]
          /\ UNCHANGED <<rows, faults>>
       \/ /\ rows[h].status = "applying"
          /\ rows' = written
          /\ req' = [req EXCEPT ![r] = Ended(@)]
          /\ UNCHANGED faults
       \/ /\ rows[h].status = "applying"
          /\ faults < MaxCommitFaults
          /\ faults' = faults + 1
          /\ rows' \in {rows, written}
          /\ req' = [req EXCEPT ![r] = IF retry = "done" THEN Ended(@)
                                       ELSE Going(@, retry)]
    /\ UNCHANGED <<target, writes, endorsed>>

Finish(r) ==
    /\ req[r].pc = "finish"
    /\ TerminalWrite(r, IF req[r].outcome = "indeterminate" THEN "done" ELSE "recover")

(* The recovery commit of the same outcome.                                *)
RecoverOnce(r) ==
    /\ req[r].pc = "recover"
    /\ TerminalWrite(r, "done")
Recover(r) ==
    /\ req[r].pc = "recover"
    /\ TerminalWrite(r, "lastditch")

(* The last-ditch commit; when it fails too the row is left "applying".    *)
LastDitch(r) ==
    /\ req[r].pc = "lastditch"
    /\ TerminalWrite(r, "done")

-----------------------------------------------------------------------------
(* The environment.                                                        *)

(* A request dies between two of its steps: its process is killed, it is   *)
(* cancelled outside the handled awaits, or an error propagates.           *)
Dead(q) == [Fresh EXCEPT !.pc = "dead", !.hold = q.hold]

Abort(r) ==
    /\ Aborts
    /\ req[r].pc \notin {"idle", "done", "dead"}
    /\ req' = [req EXCEPT ![r] = Dead(@)]
    /\ UNCHANGED <<rows, target, faults, writes, endorsed>>

(* Somebody else changes a target (or changes it back).                    *)
EditTarget(k) ==
    /\ k \notin NoTargetKeys
    /\ \E d \in Digests \ {target[k]} : target' = [target EXCEPT ![k] = d]
    /\ UNCHANGED <<rows, req, faults, writes, endorsed>>

(* The operator's manual repair of a row that no request works on any      *)
(* more, after a look at the target.                                       *)
Repaired(row, status) == [row EXCEPT !.status = status]

OperatorRepairs(h) ==
    /\ rows[h].status = "applying"
    /\ \A r \in Requests : req[r].hold = h => req[r].pc \notin DriverPCs
    /\ rows' = [rows EXCEPT ![h] =
                  Repaired(@, IF writes[h] = <<>> THEN "apply_failed" ELSE "applied")]
    /\ UNCHANGED <<req, target, faults, writes, endorsed>>

-----------------------------------------------------------------------------
SubmitStep(r) ==
    \/ DedupSelect(r) \/ DedupInsert(r) \/ DedupInsertLost(r) \/ DedupReselect(r)
    \/ ResubmitUpdate(r) \/ JudgeHolds(r) \/ JudgeErrs(r) \/ JudgeApproves(r)
    \/ AutoApproveWithheld(r) \/ AutoClaim(r) \/ AutoClaimLost(r)

ApplyStep(r) ==
    \/ ApplyRead(r) \/ ApplyCheck(r) \/ ApplyCheckFails(r) \/ ApplyCall(r)
    \/ Finish(r) \/ Recover(r) \/ LastDitch(r)

DecideStep(r, h) ==
    \/ \E o \in Owners : Reject(r, o, h) \/ Approve(r, o, h)
    \/ Withdraw(r, h) \/ DecisionRefused(r, h)

Next ==
    \/ \E r \in Requests :
         \/ \E k \in Keys, p \in Payloads : Submit(r, k, p)
         \/ SubmitRefused(r) \/ SubmitStep(r) \/ ApplyStep(r) \/ Abort(r)
         \/ \E h \in Holds : DecideStep(r, h)
    \/ \E k \in Keys : EditTarget(k)
    \/ \E h \in Holds : OperatorRepairs(h)

Spec == Init /\ [][Next]_vars

(* What a request that holds a claim does by itself: the transactions that *)
(* read its row and that record the outcome ...                            *)
RecordStep(r) == ApplyRead(r) \/ Finish(r) \/ Recover(r) \/ LastDitch(r)

(* ... and the awaits of judge.fingerprint() and judge.apply() in between. *)
JudgeCall(r) == ApplyCheck(r) \/ ApplyCheckFails(r) \/ ApplyCall(r)

(* The event loop resumes a coroutine whose await has returned, the        *)
(* database answers, and a row lock is released at the commit of a         *)
(* transaction that waits for nothing else.  Nothing makes a caller, a     *)
(* submission, a judge, an operator, an editor or a crash go on.           *)
Fairness == \A r \in Requests : WF_vars(RecordStep(r))

LiveSpec == Spec /\ Fairness

-----------------------------------------------------------------------------
(* Safety.                                                                 *)

(* _apply_or_finalize_proposal_hold's docstring: a request that claimed a  *)
(* row still finds it "applying" when it comes back from the external      *)
(* calls, because nobody else may resolve a claimed row.                   *)
ClaimHeld ==
    \A r \in Requests :
        req[r].pc \in ClaimPCs => rows[req[r].hold].status = "applying"

(* Two requests never work on the same target slot at the same time: the   *)
(* claim excludes a second request on the row, and the dedup index         *)
(* excludes a second open row with the key.                                *)
OneWriterPerKey ==
    \A r, s \in Requests :
        req[r].pc \in ClaimPCs /\ req[s].pc \in ClaimPCs /\ req[r].key = req[s].key
            => r = s

(* judge.apply() writes to the target at most once for a hold, whatever    *)
(* decide calls, resubmissions, crashes and failing commits come together. *)
AtMostOneWrite == \A h \in Holds : Len(writes[h]) <= 1

(* The stored outcome is honest: "applied" means the target was written;   *)
(* a hold that nobody claimed, was turned down or is "stale" wrote nothing *)
(* and, if the judge keeps its contract, neither did one that reads        *)
(* "apply_failed" (a false failure would invite a duplicate write).        *)
OutcomeHonest ==
    \A h \in Holds :
        /\ rows[h].status = "applied" => writes[h] # <<>>
        /\ rows[h].status \in {"absent", "pending", "rejected", "withdrawn", "stale"}
             => writes[h] = <<>>
        /\ rows[h].status = "apply_failed" /\ ~ContractViolations
             => writes[h] = <<>>

(* A cross-brain hold reaches the target only after each of its required   *)
(* owners approved it, or after an allowlisted rule did.                   *)
WrittenWithConsent ==
    \A h \in Holds :
        writes[h] # <<>> =>
            \/ \E e \in endorsed[h] : e.by = "judge"
            \/ \A o \in RequiredOwners[rows[h].key] :
                   \E e \in endorsed[h] : e.by = o

-----------------------------------------------------------------------------
(* Liveness.                                                               *)

(* The board awaits the injected judge without a timeout ("Latency is      *)
(* entirely a function of the configured judge", docs/DESIGN.md): that a   *)
(* call made under a claim returns, with whatever answer, is a premise.    *)
JudgeCallsReturn == \A r \in Requests : WF_vars(JudgeCall(r))

(* Without crashes and with at most two failing commits, a claimed hold is *)
(* resolved if the judge's calls return, unless the judge left its outcome *)
(* open.                                                                   *)
ClaimsResolve ==
    JudgeCallsReturn =>
        \A h \in Holds :
            rows[h].status = "applying" ~>
                \/ rows[h].status # "applying"
                \/ \E r \in Requests : req[r].hold = h /\ req[r].outcome = "indeterminate"

-----------------------------------------------------------------------------
(* What the repository says of this code and interleavings refute.         *)

(* "_dedup_or_insert_proposal does NOT mutate an 'applying' match in       *)
(* place": the content of a row changes only while the row is pending.     *)
DecidedContentFrozen ==
    [][\A h \in Holds :
          rows[h].content # rows'[h].content => rows[h].status \in {"absent", "pending"}]_vars

(* "a changed payload invalidates any owner approvals already recorded     *)
(* against the old one": the approvals on a pending row were given to the  *)
(* content it has.                                                         *)
ApprovalsMatchContent ==
    \A h \in Holds : rows[h].status = "pending" =>
        \A o \in rows[h].approvals : [by |-> o, content |-> rows[h].content] \in endorsed[h]

(* "Any exception the call raises fails closed to pending                  *)
(* (decision_note = judge error)": a decided row carries the note of its   *)
(* decision, never the judge's failure.                                    *)
JudgeErrorMeansPending ==
    \A h \in Holds : rows[h].note = "judge_error" => rows[h].status = "pending"

(* "that resubmitting call independently judges and drives the new         *)
(* payload": the row a resubmission commits holds the content it submits   *)
(* to the judge.                                                           *)
ResubmissionStoredWhole ==
    [][\A r \in Requests :
          req[r].pc = "update" /\ req'[r].pc = "judge"
              => rows'[req[r].hold].content = req[r].content]_vars

=============================================================================
