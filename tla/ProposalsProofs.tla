--------------------------- MODULE ProposalsProofs ---------------------------
(***************************************************************************)
(* Proofs about the proposal pipeline, for any number of requests, rows,   *)
(* keys, owners and failing commits.                                       *)
(***************************************************************************)
EXTENDS ProposalsImplement, SequenceTheorems, TLAPS

-----------------------------------------------------------------------------
(* What the operators on rows and on request records return.  Everything   *)
(* below uses these facts and never looks into a record again.             *)

(* The vocabularies of the columns, spelled out.                           *)
LEMMA Names ==
    /\ {"absent", "pending", "applying", "rejected", "applied", "apply_failed", "stale",
        "withdrawn"} \subseteq Statuses
    /\ {"none", "decision", "withheld", "judge_error"} \subseteq Notes
    /\ {"none", "applied", "failed", "stale", "indeterminate"} \subseteq Outcomes
  BY DEF Statuses, Notes, Outcomes

(* A row that does not exist yet is a row.                                 *)
LEMMA NoRowType == NoRow \in Row /\ NoRow.status = "absent"
  BY DEF NoRow, Row, Statuses, Notes

(* A request that has not begun is a request.                              *)
LEMMA FreshType == Fresh \in Request /\ Fresh.pc = "idle"
  BY DEF Fresh, Request, Loaded, Nothing, PCs, Outcomes

(* An inserted row is pending, with the submitted key and content.         *)
LEMMA NewRowFacts ==
    ASSUME NEW k \in Keys, NEW c \in Content
    PROVE  /\ NewRow(k, c) \in Row
           /\ NewRow(k, c).key = k
           /\ NewRow(k, c).status = "pending"
           /\ NewRow(k, c).content = c
  BY DEF NewRow, NoRow, Row, Statuses, Notes

(* Writing a note changes neither status nor content.                      *)
LEMMA NotedFacts ==
    ASSUME NEW row \in Row, NEW n \in Notes
    PROVE  /\ Noted(row, n) \in Row
           /\ Noted(row, n).key = row.key
           /\ Noted(row, n).status = row.status
           /\ Noted(row, n).content = row.content
  BY DEF Noted, Row

(* A decision sets the status and keeps key and content.                   *)
LEMMA DecidedFacts ==
    ASSUME NEW row \in Row, NEW st \in Statuses, NEW src \in {"human", "auto", "bot"}
    PROVE  /\ Decided(row, st, src) \in Row
           /\ Decided(row, st, src).key = row.key
           /\ Decided(row, st, src).status = st
           /\ Decided(row, st, src).content = row.content
  BY Names DEF Decided, Row

(* The judge's claim sets "applying" and keeps key and content.            *)
LEMMA AutoClaimedFacts ==
    ASSUME NEW row \in Row, NEW rule \in BOOLEAN
    PROVE  /\ AutoClaimed(row, rule) \in Row
           /\ AutoClaimed(row, rule).key = row.key
           /\ AutoClaimed(row, rule).status = "applying"
           /\ AutoClaimed(row, rule).content = row.content
  BY Names DEF AutoClaimed, Row

(* Recording an owner's approval does not decide the hold.                 *)
LEMMA CollectedFacts ==
    ASSUME NEW row \in Row, NEW o \in Owners
    PROVE  /\ Collected(row, o) \in Row
           /\ Collected(row, o).key = row.key
           /\ Collected(row, o).status = row.status
           /\ Collected(row, o).content = row.content
  BY DEF Collected, Row

(* A resubmission's UPDATE keeps status and key.                           *)
LEMMA RewrittenFacts ==
    ASSUME NEW row \in Row, row.content \in Content, NEW new \in Content,
           NEW loaded \in Loaded
    PROVE  /\ Rewritten(row, new, loaded) \in Row
           /\ Rewritten(row, new, loaded).key = row.key
           /\ Rewritten(row, new, loaded).status = row.status
           /\ Rewritten(row, new, loaded).content \in Content
  <1> DEFINE c == [payload |-> IF new.payload # loaded.content.payload
                               THEN new.payload ELSE row.content.payload,
                   fp |-> IF new.fp # loaded.content.fp THEN new.fp ELSE row.content.fp]
             a == IF loaded.approvals # {} THEN {} ELSE row.approvals
  <1>1. c \in Content
    BY DEF Content
  <1>2. a \in SUBSET Owners
    BY DEF Row
  <1>3. Rewritten(row, new, loaded) = [row EXCEPT !.content = c, !.approvals = a]
    BY DEF Rewritten, Row
  <1> HIDE DEF c, a
  <1> QED
    BY <1>1, <1>2, <1>3 DEF Row

(* What each outcome makes of the claimed row.                             *)
LEMMA ResolvedFacts ==
    ASSUME NEW row \in Row, NEW o \in Outcomes
    PROVE  /\ Resolved(row, o) \in Row
           /\ Resolved(row, o).key = row.key
           /\ Resolved(row, o).content = row.content
           /\ o = "applied" => Resolved(row, o).status = "applied"
           /\ o = "failed" => Resolved(row, o).status = "apply_failed"
           /\ o = "stale" => Resolved(row, o).status = "stale"
           /\ o \in {"none", "indeterminate"} => Resolved(row, o).status = row.status
  <1> DEFINE st == CASE o = "applied" -> "applied"
                     [] o = "failed" -> "apply_failed"
                     [] o = "stale" -> "stale"
                     [] OTHER -> row.status
  <1>1. /\ st \in Statuses
        /\ o = "applied" => st = "applied"
        /\ o = "failed" => st = "apply_failed"
        /\ o = "stale" => st = "stale"
        /\ o \in {"none", "indeterminate"} => st = row.status
    BY Names DEF Row
  <1>2. Resolved(row, o) = [row EXCEPT !.note = "decision", !.status = st]
    BY DEF Resolved, Row
  <1> HIDE DEF st
  <1> QED
    BY <1>1, <1>2, Names DEF Row

(* The operator's UPDATE sets the status alone.                            *)
LEMMA RepairedFacts ==
    ASSUME NEW row \in Row, NEW st \in Statuses
    PROVE  /\ Repaired(row, st) \in Row
           /\ Repaired(row, st).key = row.key
           /\ Repaired(row, st).status = st
           /\ Repaired(row, st).content = row.content
  BY DEF Repaired, Row

(* A request that ends is "done".                                          *)
LEMMA EndedFacts ==
    ASSUME NEW q \in Request
    PROVE  Ended(q) \in Request /\ Ended(q).pc = "done"
  BY FreshType DEF Ended, Request, PCs

(* A request that died is "dead".                                          *)
LEMMA DeadFacts ==
    ASSUME NEW q \in Request
    PROVE  Dead(q) \in Request /\ Dead(q).pc = "dead"
  BY FreshType DEF Dead, Request, PCs

(* Going on changes the program counter alone.                             *)
LEMMA GoingFacts ==
    ASSUME NEW q \in Request, NEW pc \in PCs
    PROVE  /\ Going(q, pc) \in Request
           /\ Going(q, pc).pc = pc
           /\ Going(q, pc).key = q.key
           /\ Going(q, pc).hold = q.hold
           /\ Going(q, pc).content = q.content
           /\ Going(q, pc).outcome = q.outcome
  BY DEF Going, Request

(* A submission knows its key and content before it reads the table.       *)
LEMMA SubmittingFacts ==
    ASSUME target \in [Keys -> Digests], NEW k \in Keys, NEW p \in Payloads
    PROVE  /\ Submitting(k, p) \in Request
           /\ Submitting(k, p).pc = "dedup"
           /\ Submitting(k, p).key = k
           /\ Submitting(k, p).content \in Content
  <1> DEFINE c == [payload |-> p, fp |-> Fingerprint(k)]
  <1>1. c \in Content
    BY DEF Content, Fingerprint
  <1>2. Submitting(k, p) = [Fresh EXCEPT !.pc = "dedup", !.key = k, !.content = c]
    BY DEF Submitting
  <1>3. "dedup" \in PCs
    BY DEF PCs
  <1> HIDE DEF c
  <1> QED
    BY <1>1, <1>2, <1>3, FreshType DEF Request

(* A dedup match makes the request work on the matching row.               *)
LEMMA DedupMatchFacts ==
    ASSUME NEW q \in Request, NEW h \in Holds, NEW row \in Row, row.content \in Content
    PROVE  /\ DedupMatch(q, h, row) \in Request
           /\ DedupMatch(q, h, row).pc \in {"update", "judge"}
           /\ DedupMatch(q, h, row).key = q.key
           /\ DedupMatch(q, h, row).hold = h
           /\ q.content \in Content => DedupMatch(q, h, row).content \in Content
  <1> DEFINE l == [content |-> row.content, approvals |-> row.approvals]
  <1>1. l \in Loaded
    BY DEF Loaded, Row
  <1>2. "update" \in PCs /\ "judge" \in PCs
    BY DEF PCs
  <1>3. CASE row.status = "pending"
    <2>1. DedupMatch(q, h, row) = [q EXCEPT !.pc = "update", !.hold = h, !.loaded = l]
      BY <1>3 DEF DedupMatch
    <2> HIDE DEF l
    <2> QED
      BY <1>1, <1>2, <2>1 DEF Request
  <1>4. CASE row.status # "pending"
    <2>1. DedupMatch(q, h, row) = [q EXCEPT !.pc = "judge", !.hold = h,
                                            !.content = row.content]
      BY <1>4 DEF DedupMatch
    <2> QED
      BY <1>2, <2>1 DEF Request
  <1> QED
    BY <1>3, <1>4

(* A stored submission goes to the judge with its own content.             *)
LEMMA JudgingFacts ==
    ASSUME NEW q \in Request, NEW h \in Holds
    PROVE  /\ Judging(q, h) \in Request
           /\ Judging(q, h).pc = "judge"
           /\ Judging(q, h).key = q.key
           /\ Judging(q, h).hold = h
           /\ Judging(q, h).content = q.content
  <1>1. "judge" \in PCs /\ Nothing \in Loaded
    BY DEF PCs, Nothing, Loaded
  <1> QED
    BY <1>1 DEF Judging, Request

(* An approval leaves the request with the row it judged.                  *)
LEMMA ApprovingFacts ==
    ASSUME NEW q \in Request
    PROVE  /\ Approving(q) \in Request
           /\ Approving(q).pc = "gate"
           /\ Approving(q).key = q.key
           /\ Approving(q).hold = q.hold
           /\ Approving(q).content = q.content
  <1> DEFINE b == (q.key \in CrossKeys)
  <1>1. "gate" \in PCs /\ b \in BOOLEAN
    BY DEF PCs
  <1>2. Approving(q) = [q EXCEPT !.pc = "gate", !.rule = b]
    BY DEF Approving
  <1> HIDE DEF b
  <1> QED
    BY <1>1, <1>2 DEF Request

(* A claimant starts at "read" with the row it claimed.                    *)
LEMMA DrivingFacts ==
    ASSUME NEW q \in Request, NEW k \in Keys, NEW h \in Holds
    PROVE  /\ Driving(q, k, h) \in Request
           /\ Driving(q, k, h).pc = "read"
           /\ Driving(q, k, h).key = k
           /\ Driving(q, k, h).hold = h
  <1>1. "read" \in PCs
    BY DEF PCs
  <1> QED
    BY <1>1 DEF Driving, Request

(* The re-read captures the content, or fails for want of consent.         *)
LEMMA ReadingFacts ==
    ASSUME NEW q \in Request, NEW row \in Row, row.content \in Content
    PROVE  /\ Reading(q, row) \in Request
           /\ \/ Reading(q, row).pc = "check"
              \/ Reading(q, row).pc = "finish" /\ Reading(q, row).outcome = "failed"
           /\ Reading(q, row).key = q.key
           /\ Reading(q, row).hold = q.hold
           /\ Reading(q, row).content \in Content
  <1> DEFINE pc == IF CrossBrainUnapproved(row) THEN "finish" ELSE "check"
             oc == IF CrossBrainUnapproved(row) THEN "failed" ELSE "none"
  <1>1. /\ pc \in PCs /\ oc \in Outcomes
        /\ pc = "check" \/ (pc = "finish" /\ oc = "failed")
    BY DEF PCs, Outcomes
  <1>2. Reading(q, row) = [q EXCEPT !.content = row.content, !.pc = pc, !.outcome = oc]
    BY DEF Reading
  <1> HIDE DEF pc, oc
  <1> QED
    BY <1>1, <1>2 DEF Request

(* The outcome is recorded before the terminal write.                      *)
LEMMA ConcludingFacts ==
    ASSUME NEW q \in Request, NEW o \in Outcomes
    PROVE  /\ Concluding(q, o) \in Request
           /\ Concluding(q, o).pc = "finish"
           /\ Concluding(q, o).key = q.key
           /\ Concluding(q, o).hold = q.hold
           /\ Concluding(q, o).outcome = o
  <1>1. "finish" \in PCs
    BY DEF PCs
  <1> QED
    BY <1>1 DEF Concluding, Request

(* "applied" is only recorded of a write, and a failure only of a refusal. *)
LEMMA SafeApplyFacts ==
    ASSUME NEW a \in ApplyAnswers
    PROVE  /\ SafeApply(a.says) \in {"applied", "failed", "indeterminate"}
           /\ SafeApply(a.says) = "applied" => a.wrote
           /\ SafeApply(a.says) = "failed" /\ ~ContractViolations => ~a.wrote
  BY SwitchAssumption DEF ApplyAnswers, SafeApply

-----------------------------------------------------------------------------
(* The inductive invariant.                                                *)

(* Rows that exist and requests that work on one are complete.             *)
FormedRow(row) ==
    row.status # "absent" => row.key \in Keys /\ row.content \in Content

FormedReq(q) ==
    /\ q.pc \in {"dedup", "insert", "reselect"} => q.key \in Keys /\ q.content \in Content
    /\ q.pc \in {"update", "judge", "gate"} \cup DriverPCs
         => /\ q.hold \in Holds
            /\ rows[q.hold].status # "absent"
            /\ q.key = rows[q.hold].key
    /\ q.pc \in {"update", "judge", "gate"} => q.content \in Content

Formed ==
    /\ \A h \in Holds : FormedRow(rows[h])
    /\ \A r \in Requests : FormedReq(req[r])

(* The empty table and the idle coroutines service.py starts with are well *)
(* typed and well formed.                                                  *)
LEMMA InitTyped == Init => TypeOK /\ Formed
  <1> SUFFICES ASSUME Init PROVE TypeOK /\ Formed
    OBVIOUS
  <1>1. \A h \in Holds : rows[h] = NoRow
    BY DEF Init
  <1>2. \A r \in Requests : req[r] = Fresh
    BY DEF Init
  <1>3. TypeOK
    BY NoRowType, FreshType, SwitchAssumption DEF Init, TypeOK
  <1>4. Formed
    BY <1>1, <1>2, NoRowType, FreshType DEF Formed, FormedRow, FormedReq, DriverPCs, ClaimPCs
  <1> QED
    BY <1>3, <1>4

(* A step changes at most one row and at most one request, to records that *)
(* are again well typed.                                                   *)
LEMMA StepTyped == TypeOK /\ Formed /\ [Next]_vars => TypeOK'
  <1> SUFFICES ASSUME TypeOK, Formed, [Next]_vars PROVE TypeOK'
    OBVIOUS
  <1> USE DEF TypeOK
  <1>1. ASSUME NEW r \in Requests, NEW k \in Keys, NEW p \in Payloads, Submit(r, k, p)
        PROVE  TypeOK'
    BY <1>1, SubmittingFacts DEF Submit
  <1>2. ASSUME NEW r \in Requests, SubmitRefused(r) PROVE TypeOK'
    BY <1>2, EndedFacts DEF SubmitRefused
  <1>3. ASSUME NEW r \in Requests, DedupSelect(r) PROVE TypeOK'
    <2>1. CASE Matches(req[r].key) = {} /\ req' = [req EXCEPT ![r] = Going(@, "insert")]
      BY <1>3, <2>1, GoingFacts DEF DedupSelect, PCs
    <2>2. ASSUME NEW h \in Matches(req[r].key),
                 req' = [req EXCEPT ![r] = DedupMatch(@, h, rows[h])]
          PROVE  TypeOK'
      BY <1>3, <2>2, DedupMatchFacts DEF DedupSelect, Matches, OpenStatuses, Formed, FormedRow, FormedReq
    <2> QED
      BY <1>3, <2>1, <2>2 DEF DedupSelect
  <1>4. ASSUME NEW r \in Requests, DedupInsert(r) PROVE TypeOK'
    BY <1>4, NewRowFacts, JudgingFacts DEF DedupInsert, Formed, FormedRow, FormedReq
  <1>5. ASSUME NEW r \in Requests, DedupInsertLost(r) PROVE TypeOK'
    BY <1>5, GoingFacts DEF DedupInsertLost, PCs
  <1>6. ASSUME NEW r \in Requests, DedupReselect(r) PROVE TypeOK'
    <2>1. CASE req' = [req EXCEPT ![r] = Ended(@)]
      BY <1>6, <2>1, EndedFacts DEF DedupReselect
    <2>2. ASSUME NEW h \in Matches(req[r].key),
                 req' = [req EXCEPT ![r] = DedupMatch(@, h, rows[h])]
          PROVE  TypeOK'
      BY <1>6, <2>2, DedupMatchFacts DEF DedupReselect, Matches, OpenStatuses, Formed, FormedRow, FormedReq
    <2> QED
      BY <1>6, <2>1, <2>2 DEF DedupReselect
  <1>7. ASSUME NEW r \in Requests, ResubmitUpdate(r) PROVE TypeOK'
    <2>1. /\ req[r].hold \in Holds /\ req[r].content \in Content
          /\ rows[req[r].hold].content \in Content
      BY <1>7 DEF ResubmitUpdate, Formed, FormedRow, FormedReq
    <2>2. req[r].loaded \in Loaded
      BY DEF Request
    <2> QED
      BY <1>7, <2>1, <2>2, RewrittenFacts, JudgingFacts DEF ResubmitUpdate
  <1>8. ASSUME NEW r \in Requests, JudgeHolds(r) PROVE TypeOK'
    BY <1>8, EndedFacts DEF JudgeHolds
  <1>9. ASSUME NEW r \in Requests, JudgeErrs(r) PROVE TypeOK'
    BY <1>9, EndedFacts, NotedFacts, Names DEF JudgeErrs
  <1>10. ASSUME NEW r \in Requests, JudgeApproves(r) PROVE TypeOK'
    BY <1>10, ApprovingFacts DEF JudgeApproves
  <1>11. ASSUME NEW r \in Requests, AutoApproveWithheld(r) PROVE TypeOK'
    BY <1>11, EndedFacts, NotedFacts, Names DEF AutoApproveWithheld
  <1>12. ASSUME NEW r \in Requests, AutoClaim(r) PROVE TypeOK'
    <2>1. /\ req[r].hold \in Holds /\ req[r].key \in Keys
          /\ rows[req[r].hold].content \in Content
      BY <1>12 DEF AutoClaim, Formed, FormedRow, FormedReq
    <2>2. req[r].rule \in BOOLEAN
      BY DEF Request
    <2>3. rows' \in [Holds -> Row] /\ req' \in [Requests -> Request]
      BY <1>12, <2>1, <2>2, AutoClaimedFacts, DrivingFacts DEF AutoClaim
    <2>4. endorsed' \in [Holds -> SUBSET Endorsement]
      BY <1>12, <2>1 DEF AutoClaim, Endorsement
    <2> QED
      BY <1>12, <2>3, <2>4 DEF AutoClaim
  <1>13. ASSUME NEW r \in Requests, AutoClaimLost(r) PROVE TypeOK'
    BY <1>13, EndedFacts DEF AutoClaimLost
  <1>14. ASSUME NEW r \in Requests, NEW h \in Holds, NEW o \in Owners, Reject(r, o, h)
         PROVE  TypeOK'
    BY <1>14, EndedFacts, DecidedFacts, Names DEF Reject
  <1>15. ASSUME NEW r \in Requests, NEW h \in Holds, NEW o \in Owners, Approve(r, o, h)
         PROVE  TypeOK'
    <2>1. rows[h].key \in Keys /\ rows[h].content \in Content
      BY <1>15 DEF Approve, Undecided, Formed, FormedRow, FormedReq
    <2>2. endorsed' \in [Holds -> SUBSET Endorsement]
      BY <1>15, <2>1 DEF Approve, Endorsement
    <2>3. rows' \in [Holds -> Row] /\ req' \in [Requests -> Request]
      <3>1. /\ Collected(rows[h], o) \in Row
            /\ Decided(Collected(rows[h], o), "applying", "human") \in Row
        BY CollectedFacts, DecidedFacts, Names
      <3>2. Ended(req[r]) \in Request /\ Driving(req[r], rows[h].key, h) \in Request
        BY <2>1, DrivingFacts, EndedFacts
      <3> QED
        BY <1>15, <3>1, <3>2 DEF Approve
    <2> QED
      BY <1>15, <2>2, <2>3 DEF Approve
  <1>16. ASSUME NEW r \in Requests, NEW h \in Holds, Withdraw(r, h) PROVE TypeOK'
    BY <1>16, EndedFacts, DecidedFacts, Names DEF Withdraw
  <1>17. ASSUME NEW r \in Requests, NEW h \in Holds, DecisionRefused(r, h) PROVE TypeOK'
    BY <1>17, EndedFacts DEF DecisionRefused
  <1>18. ASSUME NEW r \in Requests, ApplyRead(r) PROVE TypeOK'
    BY <1>18, ReadingFacts DEF ApplyRead, Formed, FormedRow, FormedReq, DriverPCs, ClaimPCs
  <1>19. ASSUME NEW r \in Requests, ApplyCheck(r) \/ ApplyCheckFails(r) PROVE TypeOK'
    <2>1. "apply" \in PCs /\ "stale" \in Outcomes /\ "failed" \in Outcomes
      BY DEF PCs, Outcomes
    <2>2. /\ Going(req[r], "apply") \in Request
          /\ Concluding(req[r], "stale") \in Request
          /\ Concluding(req[r], "failed") \in Request
      BY <2>1, GoingFacts, ConcludingFacts
    <2> QED
      BY <1>19, <2>2 DEF ApplyCheck, ApplyCheckFails
  <1>20. ASSUME NEW r \in Requests, ApplyCall(r) PROVE TypeOK'
    <2>1. PICK a \in ApplyAnswers :
             /\ req' = [req EXCEPT ![r] = Concluding(@, SafeApply(a.says))]
             /\ \/ /\ writes' = [writes EXCEPT ![req[r].hold] = Append(@, req[r].content)]
                   /\ \E d \in Digests : target' = [target EXCEPT ![req[r].key] = d]
                \/ UNCHANGED <<writes, target>>
      BY <1>20 DEF ApplyCall
    <2>2. SafeApply(a.says) \in Outcomes
      BY SafeApplyFacts, Names
    <2>3. req' \in [Requests -> Request]
      BY <2>1, <2>2, ConcludingFacts
    <2>4. req[r].hold \in Holds /\ req[r].content \in Content \cup {None}
      BY <1>20 DEF ApplyCall, Formed, FormedRow, FormedReq, DriverPCs, ClaimPCs, Request
    <2>5. writes' \in [Holds -> Seq(Content \cup {None})]
      <3>1. Append(writes[req[r].hold], req[r].content) \in Seq(Content \cup {None})
        BY <2>4
      <3> QED
        BY <2>1, <2>4, <3>1
    <2>6. target' \in [Keys -> Digests]
      BY <2>1
    <2> QED
      BY <1>20, <2>3, <2>5, <2>6 DEF ApplyCall
  <1>21. ASSUME NEW r \in Requests, NEW retry \in {"done", "recover", "lastditch"},
                req[r].hold \in Holds, TerminalWrite(r, retry)
         PROVE  TypeOK'
    <2>1. req[r].outcome \in Outcomes
      BY DEF Request
    <2>2. rows' \in [Holds -> Row]
      BY <1>21, <2>1, ResolvedFacts DEF TerminalWrite
    <2>3. retry \in PCs
      BY DEF PCs
    <2>4. req' \in [Requests -> Request]
      <3>1. Ended(req[r]) \in Request /\ Going(req[r], retry) \in Request
        BY <2>3, EndedFacts, GoingFacts
      <3> QED
        BY <1>21, <3>1 DEF TerminalWrite
    <2>5. faults' \in 0..MaxCommitFaults
      BY <1>21, SwitchAssumption DEF TerminalWrite
    <2> QED
      BY <1>21, <2>2, <2>4, <2>5 DEF TerminalWrite
  <1>22. ASSUME NEW r \in Requests, Finish(r) \/ Recover(r) \/ LastDitch(r) PROVE TypeOK'
    BY <1>21, <1>22 DEF Finish, Recover, LastDitch, Formed, FormedRow, FormedReq, DriverPCs, ClaimPCs
  <1>23. ASSUME NEW r \in Requests, Abort(r) PROVE TypeOK'
    BY <1>23, DeadFacts DEF Abort
  <1>24. ASSUME NEW k \in Keys, EditTarget(k) PROVE TypeOK'
    BY <1>24 DEF EditTarget
  <1>25. ASSUME NEW h \in Holds, OperatorRepairs(h) PROVE TypeOK'
    BY <1>25, RepairedFacts, Names DEF OperatorRepairs
  <1>26. CASE UNCHANGED vars
    BY <1>26 DEF vars
  <1> QED
    BY <1>1, <1>2, <1>3, <1>4, <1>5, <1>6, <1>7, <1>8, <1>9, <1>10, <1>11, <1>12,
       <1>13, <1>14, <1>15, <1>16, <1>17, <1>18, <1>19, <1>20, <1>22, <1>23, <1>24,
       <1>25, <1>26
    DEF Next, SubmitStep, ApplyStep, DecideStep

-----------------------------------------------------------------------------
(* The shapes of a step.  What matters to the invariants and to the        *)
(* refinement is which row changes its status and who drives which row;    *)
(* the two dozen actions come down to eight shapes.                        *)

OtherRows(h) == \A g \in Holds \ {h} : rows'[g] = rows[g]
OtherReqs(r) == \A s \in Requests \ {r} : req'[s] = req[s]

(* Row h keeps its key and is complete. *)
KeepsKey(h) == rows'[h].key = rows[h].key /\ FormedRow(rows'[h])

(* No status changes and the request does not hold a claim. *)
Background(r) ==
    /\ \A h \in Holds : rows'[h].status = rows[h].status /\ KeepsKey(h)
    /\ writes' = writes
    /\ OtherReqs(r) /\ req'[r].pc \notin DriverPCs /\ FormedReq(req[r])'

Inserting(r, h) ==
    /\ rows[h].status = "absent"
    /\ rows'[h].status = "pending" /\ FormedRow(rows'[h])
    /\ Matches(rows'[h].key) = {}
    /\ OtherRows(h) /\ writes' = writes
    /\ OtherReqs(r) /\ req'[r].pc = "judge" /\ FormedReq(req[r])'

Dropping(r, h) ==
    /\ rows[h].status = "pending"
    /\ rows'[h].status \in {"rejected", "withdrawn"} /\ KeepsKey(h)
    /\ OtherRows(h) /\ writes' = writes
    /\ OtherReqs(r) /\ req'[r].pc = "done"

Claiming(r, h) ==
    /\ rows[h].status = "pending"
    /\ rows'[h].status = "applying" /\ KeepsKey(h)
    /\ OtherRows(h) /\ writes' = writes
    /\ OtherReqs(r) /\ req[r].pc \notin DriverPCs
    /\ req'[r].pc = "read" /\ req'[r].hold = h /\ req'[r].key = rows[h].key

(* A claimant gets on with its row, which it leaves alone. *)
Advancing(r) ==
    /\ rows' = rows /\ writes' = writes
    /\ OtherReqs(r) /\ req[r].pc \in {"read", "check"}
    /\ req'[r].hold = req[r].hold /\ req'[r].key = req[r].key
    /\ \/ req'[r].pc \in {"check", "apply"}
       \/ req'[r].pc = "finish" /\ req'[r].outcome \in {"stale", "failed"}

Calling(r) ==
    /\ rows' = rows
    /\ OtherReqs(r) /\ req[r].pc = "apply" /\ req'[r].pc = "finish"
    /\ req'[r].hold = req[r].hold /\ req'[r].key = req[r].key
    /\ \/ /\ writes' = [writes EXCEPT ![req[r].hold] = Append(@, req[r].content)]
          /\ \/ req'[r].outcome \in {"applied", "indeterminate"}
             \/ req'[r].outcome = "failed" /\ ContractViolations
       \/ /\ writes' = writes
          /\ req'[r].outcome \in {"failed", "indeterminate"}

(* What outcome o may make of a claimed row. *)
Closes(o, st) ==
    \/ o = "applied" /\ st = "applied"
    \/ o = "failed" /\ st = "apply_failed"
    \/ o = "stale" /\ st = "stale"

Closing(r, h) ==
    /\ h = req[r].hold
    /\ \/ rows'[h].status = rows[h].status
       \/ rows[h].status = "applying" /\ Closes(req[r].outcome, rows'[h].status)
    /\ KeepsKey(h) /\ OtherRows(h) /\ writes' = writes
    /\ OtherReqs(r) /\ req[r].pc \in {"finish", "recover", "lastditch"}
    /\ \/ req'[r].pc = "done"
       \/ /\ req'[r].pc \in {"recover", "lastditch"}
          /\ req'[r].hold = h /\ req'[r].key = req[r].key
          /\ req'[r].outcome = req[r].outcome

Repairing(h) ==
    /\ rows[h].status = "applying"
    /\ rows'[h].status = (IF writes[h] = <<>> THEN "apply_failed" ELSE "applied")
    /\ KeepsKey(h) /\ OtherRows(h) /\ writes' = writes /\ req' = req
    /\ \A r \in Requests : req[r].hold = h => req[r].pc \notin DriverPCs

Still == rows' = rows /\ req' = req /\ writes' = writes

Shape ==
    \/ \E r \in Requests :
         \/ Background(r) \/ Advancing(r) \/ Calling(r)
         \/ \E h \in Holds :
              Inserting(r, h) \/ Dropping(r, h) \/ Claiming(r, h) \/ Closing(r, h)
    \/ \E h \in Holds : Repairing(h)
    \/ Still

(* Every step of the pipeline has one of these shapes.                     *)
LEMMA StepShape == TypeOK /\ Formed /\ [Next]_vars => Shape
  <1> SUFFICES ASSUME TypeOK, Formed, [Next]_vars PROVE Shape
    OBVIOUS
  <1>a. rows \in [Holds -> Row] /\ req \in [Requests -> Request]
    BY DEF TypeOK
  <1>b. \A h \in Holds : FormedRow(rows[h])
    BY DEF Formed
  <1>c. \A r \in Requests : FormedReq(req[r])
    BY DEF Formed
  <1>d. ASSUME NEW r \in Requests, NEW q \in Request, q.pc \in {"done", "dead"},
               req' = [req EXCEPT ![r] = q], rows' = rows, writes' = writes
        PROVE  Background(r)
    BY <1>a, <1>b, <1>d
    DEF Background, KeepsKey, OtherReqs, FormedReq, DriverPCs, ClaimPCs
  <1>1. ASSUME NEW r \in Requests, NEW k \in Keys, NEW p \in Payloads, Submit(r, k, p)
        PROVE  Background(r)
    BY <1>a, <1>b, <1>1, SubmittingFacts
    DEF TypeOK, Submit, Background, KeepsKey, OtherReqs, FormedReq, DriverPCs, ClaimPCs
  <1>2. ASSUME NEW r \in Requests,
               \/ SubmitRefused(r) \/ JudgeHolds(r) \/ AutoClaimLost(r)
               \/ \E h \in Holds : DecisionRefused(r, h)
        PROVE  Background(r)
    BY <1>a, <1>2, <1>d, EndedFacts
    DEF SubmitRefused, JudgeHolds, AutoClaimLost, DecisionRefused
  <1>3. ASSUME NEW r \in Requests, NEW h \in Matches(req[r].key),
               req[r].pc \in {"dedup", "reselect"}, rows' = rows, writes' = writes,
               req' = [req EXCEPT ![r] = DedupMatch(@, h, rows[h])]
        PROVE  Background(r)
    <2>1. h \in Holds /\ rows[h].key = req[r].key /\ rows[h].status # "absent"
      BY DEF Matches, OpenStatuses
    <2>2. rows[h].content \in Content /\ req[r].content \in Content
      BY <1>b, <1>c, <1>3, <2>1 DEF FormedRow, FormedReq
    <2>3. /\ req'[r].pc \in {"update", "judge"} /\ req'[r].key = req[r].key
          /\ req'[r].hold = h /\ req'[r].content \in Content
      BY <1>a, <1>3, <2>1, <2>2, DedupMatchFacts
    <2> QED
      BY <1>a, <1>b, <1>3, <2>1, <2>3
      DEF Background, KeepsKey, OtherReqs, FormedReq, DriverPCs, ClaimPCs
  <1>4. ASSUME NEW r \in Requests, NEW pc \in {"insert", "reselect"},
               req[r].pc \in {"dedup", "insert"}, rows' = rows, writes' = writes,
               req' = [req EXCEPT ![r] = Going(@, pc)]
        PROVE  Background(r)
    <2>1. pc \in PCs
      BY DEF PCs
    <2>2. /\ req'[r].pc = pc /\ req'[r].key = req[r].key
          /\ req'[r].content = req[r].content
      BY <1>a, <1>4, <2>1, GoingFacts
    <2> QED
      BY <1>a, <1>b, <1>c, <1>4, <2>2
      DEF Background, KeepsKey, OtherReqs, FormedReq, DriverPCs, ClaimPCs
  <1>5. ASSUME NEW r \in Requests, DedupSelect(r) \/ DedupReselect(r) \/ DedupInsertLost(r)
        PROVE  Background(r)
    BY <1>a, <1>d, <1>3, <1>4, <1>5, EndedFacts
    DEF DedupSelect, DedupReselect, DedupInsertLost
  <1>6. ASSUME NEW r \in Requests, DedupInsert(r)
        PROVE  \E h \in Holds : Inserting(r, h)
    <2>1. PICK h \in Holds :
             /\ rows[h].status = "absent"
             /\ rows' = [rows EXCEPT ![h] = NewRow(req[r].key, req[r].content)]
             /\ req' = [req EXCEPT ![r] = Judging(@, h)]
      BY <1>6 DEF DedupInsert
    <2>2. req[r].key \in Keys /\ req[r].content \in Content
      BY <1>c, <1>6 DEF DedupInsert, FormedReq
    <2>3. /\ rows'[h].status = "pending" /\ rows'[h].key = req[r].key
          /\ rows'[h].content \in Content
      BY <1>a, <2>1, <2>2, NewRowFacts
    <2>4. /\ req'[r].pc = "judge" /\ req'[r].key = req[r].key
          /\ req'[r].hold = h /\ req'[r].content \in Content
      BY <1>a, <2>1, <2>2, JudgingFacts
    <2> QED
      BY <1>a, <1>6, <2>1, <2>2, <2>3, <2>4
      DEF DedupInsert, Inserting, OtherRows, OtherReqs, FormedRow, FormedReq, DriverPCs,
          ClaimPCs
  <1>7. ASSUME NEW r \in Requests, NEW h \in Holds, NEW row \in Row,
               rows[h].status # "absent", rows' = [rows EXCEPT ![h] = row],
               row.key = rows[h].key, row.status = rows[h].status, row.content \in Content
        PROVE  \A g \in Holds : rows'[g].status = rows[g].status /\ KeepsKey(g)
    BY <1>a, <1>b, <1>7 DEF KeepsKey, FormedRow
  <1>8. ASSUME NEW r \in Requests, ResubmitUpdate(r) PROVE Background(r)
    <2>1. /\ req[r].hold \in Holds /\ req[r].content \in Content
          /\ rows[req[r].hold].status # "absent"
          /\ rows[req[r].hold].content \in Content
          /\ req[r].key = rows[req[r].hold].key
      BY <1>b, <1>c, <1>8 DEF ResubmitUpdate, FormedRow, FormedReq
    <2>2. req[r].loaded \in Loaded
      BY <1>a DEF Request
    <2>3. \A g \in Holds : rows'[g].status = rows[g].status /\ KeepsKey(g)
      BY <1>a, <1>7, <1>8, <2>1, <2>2, RewrittenFacts DEF ResubmitUpdate
    <2>4. /\ req'[r].pc = "judge" /\ req'[r].key = req[r].key
          /\ req'[r].hold = req[r].hold /\ req'[r].content \in Content
      BY <1>a, <1>8, <2>1, JudgingFacts DEF ResubmitUpdate
    <2> QED
      BY <1>a, <1>8, <2>1, <2>3, <2>4
      DEF ResubmitUpdate, Background, KeepsKey, OtherReqs, FormedReq, DriverPCs, ClaimPCs
  <1>9. ASSUME NEW r \in Requests, JudgeErrs(r) \/ AutoApproveWithheld(r)
        PROVE  Background(r)
    <2>1. /\ req[r].hold \in Holds /\ rows[req[r].hold].status # "absent"
          /\ rows[req[r].hold].content \in Content
      BY <1>b, <1>c, <1>9 DEF JudgeErrs, AutoApproveWithheld, FormedRow, FormedReq
    <2>2. \A n \in Notes : rows' = [rows EXCEPT ![req[r].hold] = Noted(@, n)] =>
            \A g \in Holds : rows'[g].status = rows[g].status /\ KeepsKey(g)
      BY <1>a, <1>7, <2>1, NotedFacts
    <2>3. rows' = rows => \A g \in Holds : rows'[g].status = rows[g].status /\ KeepsKey(g)
      BY <1>b DEF KeepsKey
    <2>4. \A g \in Holds : rows'[g].status = rows[g].status /\ KeepsKey(g)
      BY <1>9, <2>2, <2>3, Names DEF JudgeErrs, AutoApproveWithheld
    <2>5. req' = [req EXCEPT ![r] = Ended(@)] /\ writes' = writes
      BY <1>9 DEF JudgeErrs, AutoApproveWithheld
    <2>6. req'[r].pc = "done"
      BY <1>a, <2>5, EndedFacts
    <2> QED
      BY <1>a, <2>4, <2>5, <2>6
      DEF Background, OtherReqs, FormedReq, DriverPCs, ClaimPCs
  <1>10. ASSUME NEW r \in Requests, JudgeApproves(r) PROVE Background(r)
    BY <1>a, <1>b, <1>c, <1>10, ApprovingFacts
    DEF JudgeApproves, Background, KeepsKey, OtherReqs, FormedReq, DriverPCs, ClaimPCs
  <1>11. ASSUME NEW r \in Requests, NEW h \in Holds, NEW row \in Row,
                rows[h].status = "pending", row.status = "applying",
                row.key = rows[h].key, row.content = rows[h].content,
                rows' = [rows EXCEPT ![h] = row], writes' = writes,
                req[r].pc \notin DriverPCs,
                req' = [req EXCEPT ![r] = Driving(@, rows[h].key, h)]
         PROVE  Claiming(r, h)
    <2>1. rows[h].key \in Keys /\ rows[h].content \in Content
      BY <1>b, <1>11 DEF FormedRow
    <2>2. /\ req'[r].pc = "read" /\ req'[r].hold = h /\ req'[r].key = rows[h].key
      BY <1>a, <1>11, <2>1, DrivingFacts
    <2> QED
      BY <1>a, <1>11, <2>1, <2>2
      DEF Claiming, KeepsKey, FormedRow, OtherRows, OtherReqs
  <1>12. ASSUME NEW r \in Requests, AutoClaim(r)
         PROVE  \E h \in Holds : Claiming(r, h)
    <2>1. req[r].hold \in Holds /\ req[r].key = rows[req[r].hold].key
      BY <1>c, <1>12 DEF AutoClaim, FormedReq
    <2>2. req[r].rule \in BOOLEAN
      BY <1>a DEF Request
    <2>3. rows[req[r].hold].status = "pending" /\ req[r].pc \notin DriverPCs
      BY <1>12 DEF AutoClaim, Undecided, DriverPCs, ClaimPCs
    <2>4. Claiming(r, req[r].hold)
      BY <1>a, <1>11, <1>12, <2>1, <2>2, <2>3, AutoClaimedFacts DEF AutoClaim
    <2> QED
      BY <2>1, <2>4
  <1>13. ASSUME NEW r \in Requests, NEW h \in Holds, NEW o \in Owners, Approve(r, o, h)
         PROVE  Background(r) \/ Claiming(r, h)
    <2> DEFINE row == Collected(rows[h], o)
    <2>1. rows[h].status = "pending" /\ req[r].pc \notin DriverPCs /\ writes' = writes
      BY <1>13 DEF Approve, Undecided, DriverPCs, ClaimPCs
    <2>2. /\ row \in Row /\ row.key = rows[h].key /\ row.status = rows[h].status
          /\ row.content = rows[h].content
      BY <1>a, CollectedFacts
    <2>3. rows[h].content \in Content
      BY <1>b, <2>1 DEF FormedRow
    <2>4. CASE /\ rows' = [rows EXCEPT ![h] = Decided(row, "applying", "human")]
               /\ req' = [req EXCEPT ![r] = Driving(@, rows[h].key, h)]
      <3>1. /\ Decided(row, "applying", "human") \in Row
            /\ Decided(row, "applying", "human").key = rows[h].key
            /\ Decided(row, "applying", "human").status = "applying"
            /\ Decided(row, "applying", "human").content = rows[h].content
        BY <2>2, DecidedFacts, Names
      <3> QED
        BY <1>11, <2>1, <2>4, <3>1
    <2>5. CASE /\ rows' = [rows EXCEPT ![h] = row]
               /\ req' = [req EXCEPT ![r] = Ended(@)]
      <3>1. \A g \in Holds : rows'[g].status = rows[g].status /\ KeepsKey(g)
        <4> HIDE DEF row
        <4> QED
          BY <1>7, <2>1, <2>2, <2>3, <2>5
      <3>2. req'[r].pc = "done"
        BY <1>a, <2>5, EndedFacts
      <3> QED
        BY <1>a, <2>1, <2>5, <3>1, <3>2
        DEF Background, OtherReqs, FormedReq, DriverPCs, ClaimPCs
    <2> QED
      BY <1>13, <2>4, <2>5 DEF Approve
  <1>14. ASSUME NEW r \in Requests, NEW h \in Holds,
                Withdraw(r, h) \/ \E o \in Owners : Reject(r, o, h)
         PROVE  Dropping(r, h)
    <2>1. PICK st \in {"rejected", "withdrawn"}, src \in {"human", "bot"} :
             rows' = [rows EXCEPT ![h] = Decided(@, st, src)]
      BY <1>14 DEF Withdraw, Reject
    <2>2. /\ rows'[h].status = st /\ rows'[h].key = rows[h].key
          /\ rows'[h].content = rows[h].content
      <3>1. st \in Statuses /\ src \in {"human", "auto", "bot"}
        BY Names
      <3>2. /\ Decided(rows[h], st, src).key = rows[h].key
            /\ Decided(rows[h], st, src).status = st
            /\ Decided(rows[h], st, src).content = rows[h].content
        BY <1>a, <3>1, DecidedFacts
      <3> QED
        BY <1>a, <2>1, <3>2
    <2>3. rows[h].status = "pending" /\ req' = [req EXCEPT ![r] = Ended(@)] /\ writes' = writes
      BY <1>14 DEF Withdraw, Reject, Undecided
    <2>4. req'[r].pc = "done"
      BY <1>a, <2>3, EndedFacts
    <2> QED
      BY <1>a, <1>b, <2>1, <2>2, <2>3, <2>4
      DEF Dropping, KeepsKey, FormedRow, OtherRows, OtherReqs
  <1>15. ASSUME NEW r \in Requests, ApplyRead(r) PROVE Advancing(r)
    BY <1>a, <1>b, <1>c, <1>15, ReadingFacts
    DEF ApplyRead, Advancing, OtherReqs, FormedRow, FormedReq, DriverPCs, ClaimPCs
  <1>16. ASSUME NEW r \in Requests, ApplyCheck(r) \/ ApplyCheckFails(r) PROVE Advancing(r)
    <2>1. "apply" \in PCs /\ "stale" \in Outcomes /\ "failed" \in Outcomes
      BY DEF PCs, Outcomes
    <2> QED
      BY <1>a, <1>16, <2>1, GoingFacts, ConcludingFacts
      DEF ApplyCheck, ApplyCheckFails, Advancing, OtherReqs
  <1>17. ASSUME NEW r \in Requests, ApplyCall(r) PROVE Calling(r)
    <2>1. PICK a \in ApplyAnswers :
             /\ req' = [req EXCEPT ![r] = Concluding(@, SafeApply(a.says))]
             /\ IF a.wrote
                THEN writes' = [writes EXCEPT ![req[r].hold] = Append(@, req[r].content)]
                ELSE writes' = writes
      BY <1>17 DEF ApplyCall
    <2>2. /\ SafeApply(a.says) \in {"applied", "failed", "indeterminate"}
          /\ SafeApply(a.says) = "applied" => a.wrote
          /\ SafeApply(a.says) = "failed" /\ ~ContractViolations => ~a.wrote
      BY SafeApplyFacts
    <2>3. SafeApply(a.says) \in Outcomes
      BY <2>2 DEF Outcomes
    <2>4. /\ req'[r].pc = "finish" /\ req'[r].hold = req[r].hold
          /\ req'[r].key = req[r].key /\ req'[r].outcome = SafeApply(a.says)
      BY <1>a, <2>1, <2>3, ConcludingFacts
    <2> QED
      BY <1>a, <1>17, <2>1, <2>2, <2>4 DEF ApplyCall, Calling, OtherReqs
  <1>18. ASSUME NEW r \in Requests, NEW retry \in {"done", "recover", "lastditch"},
                req[r].pc \in {"finish", "recover", "lastditch"}, TerminalWrite(r, retry)
         PROVE  \E h \in Holds : Closing(r, h)
    <2> DEFINE h == req[r].hold
    <2>1. h \in Holds /\ rows[h].status # "absent"
      BY <1>c, <1>18 DEF FormedReq, DriverPCs, ClaimPCs
    <2>2. req[r].outcome \in Outcomes /\ retry \in PCs
      BY <1>a DEF Request, PCs
    <2>3. /\ writes' = writes
          /\ \/ rows' = rows
             \/ /\ rows[h].status = "applying"
                /\ rows' = [rows EXCEPT ![h] = Resolved(@, req[r].outcome)]
      BY <1>18 DEF TerminalWrite
    <2>4. \/ req' = [req EXCEPT ![r] = Ended(@)]
          \/ retry # "done" /\ req' = [req EXCEPT ![r] = Going(@, retry)]
      BY <1>18 DEF TerminalWrite
    <2>5. /\ Resolved(rows[h], req[r].outcome).key = rows[h].key
          /\ Resolved(rows[h], req[r].outcome).content = rows[h].content
          /\ \/ Resolved(rows[h], req[r].outcome).status = rows[h].status
             \/ Closes(req[r].outcome, Resolved(rows[h], req[r].outcome).status)
      BY <1>a, <2>1, <2>2, ResolvedFacts DEF Closes, Outcomes
    <2>6. /\ \/ rows'[h].status = rows[h].status
             \/ rows[h].status = "applying" /\ Closes(req[r].outcome, rows'[h].status)
          /\ KeepsKey(h) /\ OtherRows(h)
      BY <1>a, <1>b, <2>1, <2>3, <2>5 DEF KeepsKey, FormedRow, OtherRows
    <2>7. /\ OtherReqs(r)
          /\ \/ req'[r].pc = "done"
             \/ /\ req'[r].pc \in {"recover", "lastditch"}
                /\ req'[r].hold = h /\ req'[r].key = req[r].key
                /\ req'[r].outcome = req[r].outcome
      BY <1>a, <2>2, <2>4, EndedFacts, GoingFacts DEF OtherReqs
    <2> QED
      BY <1>18, <2>1, <2>3, <2>6, <2>7 DEF Closing
  <1>19. ASSUME NEW r \in Requests, Finish(r) \/ Recover(r) \/ LastDitch(r)
         PROVE  \E h \in Holds : Closing(r, h)
    BY <1>18, <1>19 DEF Finish, Recover, LastDitch
  <1>20. ASSUME NEW r \in Requests, Abort(r) PROVE Background(r)
    BY <1>a, <1>d, <1>20, DeadFacts DEF Abort
  <1>21. ASSUME NEW h \in Holds, OperatorRepairs(h) PROVE Repairing(h)
    <2> DEFINE st == IF writes[h] = <<>> THEN "apply_failed" ELSE "applied"
    <2>1. st \in Statuses
      BY Names
    <2>2. rows' = [rows EXCEPT ![h] = Repaired(@, st)]
      BY <1>21 DEF OperatorRepairs
    <2> HIDE DEF st
    <2>3. /\ Repaired(rows[h], st).key = rows[h].key
          /\ Repaired(rows[h], st).status = st
          /\ Repaired(rows[h], st).content = rows[h].content
      BY <1>a, <2>1, RepairedFacts
    <2>4. rows[h].status = "applying" /\ FormedRow(rows[h])
      BY <1>b, <1>21 DEF OperatorRepairs
    <2>5. rows'[h].status = st /\ KeepsKey(h) /\ OtherRows(h)
      BY <1>a, <2>2, <2>3, <2>4 DEF KeepsKey, FormedRow, OtherRows
    <2> USE DEF st
    <2> QED
      BY <1>21, <2>4, <2>5 DEF OperatorRepairs, Repairing
  <1>22. ASSUME UNCHANGED vars \/ \E k \in Keys : EditTarget(k) PROVE Still
    BY <1>22 DEF vars, EditTarget, Still
  <1> QED
    BY <1>1, <1>2, <1>5, <1>6, <1>8, <1>9, <1>10, <1>12, <1>13, <1>14, <1>15, <1>16,
       <1>17, <1>19, <1>20, <1>21, <1>22
    DEF Shape, Next, SubmitStep, ApplyStep, DecideStep
-----------------------------------------------------------------------------
(* The inductive invariant, continued.                                     *)

(* At most one open row per key: what the partial unique index promises.   *)
SlotUnique ==
    \A g, h \in Holds :
        /\ rows[g].status \in OpenStatuses /\ rows[h].status \in OpenStatuses
        /\ rows[g].key = rows[h].key
        => g = h

(* At most one request drives a row, from the claim to its last commit.    *)
DriverUnique ==
    \A r, s \in Requests :
        /\ req[r].pc \in DriverPCs /\ req[s].pc \in DriverPCs
        /\ req[r].hold = req[s].hold
        => r = s

(* A driven row was claimed; the claim cannot be taken twice.              *)
DriverClaimed ==
    \A r \in Requests :
        req[r].pc \in DriverPCs => rows[req[r].hold].status \notin {"absent", "pending"}

Exclusive == SlotUnique /\ DriverUnique /\ DriverClaimed /\ ClaimHeld

(* What a driver believes of its row's writes is true.                     *)
Accounted(q) ==
    /\ q.pc \in {"read", "check", "apply"} => writes[q.hold] = <<>>
    /\ q.pc \in {"finish", "recover", "lastditch"} =>
         /\ q.outcome = "applied" => writes[q.hold] # <<>>
         /\ q.outcome = "stale" => writes[q.hold] = <<>>
         /\ q.outcome = "failed" /\ ~ContractViolations => writes[q.hold] = <<>>

Accounting == \A r \in Requests : Accounted(req[r])

IInv == TypeOK /\ Formed /\ Exclusive /\ Accounting /\ AtMostOneWrite /\ OutcomeHonest

(* Nothing is open, driven or written in an initial state.                 *)
LEMMA InitIInv == Init => IInv
  <1> SUFFICES ASSUME Init PROVE IInv
    OBVIOUS
  <1>1. \A h \in Holds : rows[h].status = "absent" /\ writes[h] = <<>>
    BY NoRowType DEF Init
  <1>2. \A r \in Requests : req[r].pc = "idle"
    BY FreshType DEF Init
  <1>3. Exclusive
    BY <1>1, <1>2 DEF Exclusive, SlotUnique, DriverUnique, DriverClaimed, ClaimHeld,
                      OpenStatuses, DriverPCs, ClaimPCs
  <1>4. Accounting
    BY <1>2 DEF Accounting, Accounted
  <1>5. AtMostOneWrite /\ OutcomeHonest
    BY <1>1 DEF AtMostOneWrite, OutcomeHonest
  <1> QED
    BY <1>3, <1>4, <1>5, InitTyped DEF IInv

(* A row that exists is never removed and never changes its key: there is  *)
(* no DELETE in the pipeline, and the key columns are never rewritten.     *)
LEMMA RowsStay ==
    ASSUME Formed, Shape, NEW h \in Holds, rows[h].status # "absent"
    PROVE  rows'[h].status # "absent" /\ rows'[h].key = rows[h].key
  BY DEF Shape, Background, Advancing, Calling, Inserting, Dropping, Claiming, Closing,
         Closes, Repairing, Still, OtherRows, KeepsKey

(* The request a step belongs to is well formed afterwards.                *)
LEMMA StepFormed == TypeOK /\ Formed /\ Shape => Formed'
  <1> SUFFICES ASSUME TypeOK, Formed, Shape PROVE Formed'
    OBVIOUS
  <1>1. ASSUME NEW h \in Holds PROVE FormedRow(rows[h])'
    BY <1>1 DEF Shape, Background, Advancing, Calling, Inserting, Dropping, Claiming,
                Closing, Repairing, Still, OtherRows, KeepsKey, FormedRow, Formed
  <1>2. ASSUME NEW s \in Requests, req'[s] = req[s] PROVE FormedReq(req[s])'
    BY <1>2, RowsStay DEF Formed, FormedReq
  <1>3. ASSUME NEW r \in Requests, Advancing(r) \/ Calling(r) PROVE FormedReq(req[r])'
    BY <1>3, RowsStay
    DEF Advancing, Calling, Formed, FormedReq, DriverPCs, ClaimPCs
  <1>4. ASSUME NEW r \in Requests, NEW h \in Holds,
               Dropping(r, h) \/ Claiming(r, h) \/ Closing(r, h)
        PROVE  FormedReq(req[r])'
    BY <1>4, RowsStay
    DEF Dropping, Claiming, Closing, KeepsKey, Formed, FormedReq, DriverPCs, ClaimPCs
  <1>5. ASSUME NEW s \in Requests PROVE FormedReq(req[s])'
    BY <1>2, <1>3, <1>4
    DEF Shape, Background, Advancing, Calling, Inserting, Dropping, Claiming, Closing,
        Repairing, Still, OtherReqs
  <1> QED
    BY <1>1, <1>5 DEF Formed

(* The claim and the dedup index keep writers apart.  Only an INSERT opens *)
(* a row, and only when no open row has its key; only a claim makes a      *)
(* request a driver, and only of a row nobody drives, since it is pending; *)
(* and a driven row is closed by its driver or by nobody.                  *)
LEMMA StepExclusive == TypeOK /\ Formed /\ Exclusive /\ Shape => Exclusive'
  <1> SUFFICES ASSUME TypeOK, Formed, Exclusive, Shape PROVE Exclusive'
    OBVIOUS
  <1> USE DEF Exclusive
  <1>1. SlotUnique'
    <2>1. ASSUME NEW h \in Holds, rows'[h].status \in OpenStatuses,
                 \A r \in Requests : ~Inserting(r, h)
          PROVE  rows[h].status \in OpenStatuses /\ rows'[h].key = rows[h].key
      BY <2>1
      DEF Shape, Background, Advancing, Calling, Inserting, Dropping, Claiming, Closing,
          Closes, Repairing, Still, OtherRows, KeepsKey, OpenStatuses
    <2>2. ASSUME NEW r \in Requests, NEW g \in Holds, NEW h \in Holds, g # h,
                 Inserting(r, h), rows'[g].status \in OpenStatuses
          PROVE  rows'[g].key # rows'[h].key
      BY <2>2 DEF Inserting, OtherRows, Matches
    <2> QED
      BY <2>1, <2>2 DEF SlotUnique
  <1>2. ASSUME NEW r \in Requests, req'[r].pc \in DriverPCs,
               \A h \in Holds : ~Claiming(r, h)
        PROVE  req[r].pc \in DriverPCs /\ req'[r].hold = req[r].hold
    BY <1>2
    DEF Shape, Background, Advancing, Calling, Inserting, Dropping, Claiming, Closing,
        Repairing, Still, OtherReqs, DriverPCs, ClaimPCs
  <1>3. ASSUME NEW r \in Requests, NEW s \in Requests, NEW h \in Holds, r # s,
               Claiming(r, h), req'[s].pc \in DriverPCs
        PROVE  req'[s].hold # h /\ req'[r].hold = h
    BY <1>3 DEF Claiming, OtherReqs, DriverClaimed
  <1>4. DriverUnique'
    <2> SUFFICES ASSUME NEW r \in Requests, NEW s \in Requests, r # s,
                        req'[r].pc \in DriverPCs, req'[s].pc \in DriverPCs
                 PROVE  req'[r].hold # req'[s].hold
      BY DEF DriverUnique
    <2> QED
      BY <1>2, <1>3 DEF DriverUnique
  <1>5. ASSUME NEW h \in Holds, rows[h].status \notin {"absent", "pending"}
        PROVE  rows'[h].status \notin {"absent", "pending"}
    BY <1>5
    DEF Shape, Background, Advancing, Calling, Inserting, Dropping, Claiming, Closing,
        Closes, Repairing, Still, OtherRows, KeepsKey
  <1>6. DriverClaimed'
    <2> SUFFICES ASSUME NEW r \in Requests, req'[r].pc \in DriverPCs
                 PROVE  rows'[req'[r].hold].status \notin {"absent", "pending"}
      BY DEF DriverClaimed
    <2>1. CASE \E h \in Holds : Claiming(r, h)
      BY <2>1 DEF Claiming
    <2>2. CASE \A h \in Holds : ~Claiming(r, h)
      BY <1>2, <1>5, <2>2 DEF DriverClaimed, Formed, FormedReq
    <2> QED
      BY <2>1, <2>2
  <1>7. ClaimHeld'
    <2> SUFFICES ASSUME NEW r \in Requests, req'[r].pc \in ClaimPCs
                 PROVE  rows'[req'[r].hold].status = "applying"
      BY DEF ClaimHeld
    <2>1. CASE \E h \in Holds : Claiming(r, h)
      BY <2>1 DEF Claiming
    <2>2. CASE \A h \in Holds : ~Claiming(r, h)
      <3> DEFINE h == req[r].hold
      <3>1. /\ req[r].pc \in ClaimPCs /\ req'[r].hold = h
            /\ \A g \in Holds : ~Closing(r, g)
        BY <2>2
        DEF Shape, Background, Advancing, Calling, Inserting, Dropping, Claiming, Closing,
            Repairing, Still, OtherReqs, DriverPCs, ClaimPCs
      <3>2. h \in Holds /\ rows[h].status = "applying"
        BY <3>1 DEF ClaimHeld, Formed, FormedReq, DriverPCs
      <3>3. \A s \in Requests : Closing(s, h) => s = r
        BY <3>1 DEF Closing, DriverUnique, DriverPCs, ClaimPCs
      <3>4. ~Repairing(h)
        BY <3>1 DEF Repairing, DriverPCs
      <3>5. rows'[h].status = "applying"
        BY <3>1, <3>2, <3>3, <3>4
        DEF Shape, Background, Advancing, Calling, Inserting, Dropping, Claiming, Closing,
            Repairing, Still, OtherRows
      <3> QED
        BY <3>1, <3>5
    <2> QED
      BY <2>1, <2>2
  <1> QED
    BY <1>1, <1>4, <1>6, <1>7
(* The books stay in order.  Only the driver of a row writes under it, and *)
(* only once, since its next step leaves "apply"; every other step leaves  *)
(* the history alone, and a status that claims something about it is given *)
(* by the driver, whose outcome is accounted for, or by the operator.      *)
LEMMA StepAccounting == IInv /\ Shape => Accounting' /\ AtMostOneWrite' /\ OutcomeHonest'
  <1> SUFFICES ASSUME IInv, Shape
               PROVE  Accounting' /\ AtMostOneWrite' /\ OutcomeHonest'
    OBVIOUS
  <1>a. /\ TypeOK /\ Formed /\ Exclusive /\ Accounting /\ AtMostOneWrite /\ OutcomeHonest
        /\ writes \in [Holds -> Seq(Content \cup {None})]
    BY DEF IInv, TypeOK
  <1>1. ASSUME NEW r \in Requests, Calling(r)
        PROVE  Accounting' /\ AtMostOneWrite' /\ OutcomeHonest'
    <2> DEFINE h == req[r].hold
    <2>1. /\ h \in Holds /\ rows[h].status = "applying" /\ writes[h] = <<>>
          /\ req[r].content \in Content \cup {None}
          /\ req[r].pc = "apply" /\ rows' = rows
      BY <1>a, <1>1
      DEF Calling, Exclusive, ClaimHeld, Formed, FormedReq, Accounting, Accounted, TypeOK,
          Request, DriverPCs, ClaimPCs
    <2>2. Append(<<>>, req[r].content) # <<>> /\ Len(Append(<<>>, req[r].content)) = 1
      OBVIOUS
    <2>3. \/ /\ writes' = [writes EXCEPT ![h] = Append(<<>>, req[r].content)]
             /\ req'[r].outcome # "stale"
             /\ req'[r].outcome = "failed" => ContractViolations
          \/ writes' = writes /\ req'[r].outcome \in {"failed", "indeterminate"}
      BY <1>1, <2>1 DEF Calling
    <2> DEFINE w == Append(<<>>, req[r].content)
    <2>4. /\ \A g \in Holds \ {h} : writes'[g] = writes[g]
          /\ writes'[h] = w \/ writes'[h] = <<>>
          /\ req'[r].outcome = "applied" => writes'[h] = w
          /\ req'[r].outcome = "stale" => writes'[h] = <<>>
          /\ req'[r].outcome = "failed" /\ ~ContractViolations => writes'[h] = <<>>
      <3> HIDE DEF w
      <3>1. w = Append(<<>>, req[r].content)
        BY DEF w
      <3> QED
        BY <1>a, <2>1, <2>3, <3>1
    <2>5. w # <<>> /\ Len(w) = 1 /\ Len(<<>>) = 0
      BY <2>2
    <2> HIDE DEF w
    <2>6. AtMostOneWrite'
      <3>1. ASSUME NEW g \in Holds PROVE Len(writes'[g]) <= 1
        <4>1. CASE g # h
          BY <1>a, <2>4, <4>1 DEF AtMostOneWrite
        <4>2. CASE g = h
          <5>1. Len(writes'[g]) = Len(w) \/ Len(writes'[g]) = Len(<<>>)
            BY ONLY <2>4, <4>2, Zenon
          <5>2. Len(writes'[g]) = 1 \/ Len(writes'[g]) = 0
            BY ONLY <2>5, <5>1, Zenon
          <5>3. 1 <= 1 /\ 0 <= 1
            OBVIOUS
          <5> QED
            BY ONLY <5>2, <5>3, Zenon
        <4> QED
          BY <4>1, <4>2
      <3> QED
        BY <3>1 DEF AtMostOneWrite
    <2>7. OutcomeHonest'
      BY <1>a, <2>1, <2>4 DEF OutcomeHonest
    <2>8. req'[r].pc = "finish" /\ req'[r].hold = h /\ OtherReqs(r)
      BY <1>1 DEF Calling
    <2>9. \A s \in Requests \ {r} : req'[s] = req[s] /\ Accounted(req[s])
      BY <1>a, <2>8 DEF OtherReqs, Accounting
    <2>10. \A s \in Requests \ {r} : req[s].pc \in DriverPCs =>
              req[s].hold # h /\ req[s].hold \in Holds
      BY <1>a, <2>1 DEF Exclusive, DriverUnique, Formed, FormedReq, DriverPCs, ClaimPCs
    <2>11. Accounted(req[r])'
      BY <2>4, <2>5, <2>8 DEF Accounted
    <2>12. ASSUME NEW s \in Requests \ {r} PROVE Accounted(req[s])'
      <3>1. req'[s] = req[s] /\ Accounted(req[s])
        BY <2>9
      <3>2. req[s].pc \in DriverPCs => writes'[req[s].hold] = writes[req[s].hold]
        BY <2>4, <2>10
      <3> QED
        BY <3>1, <3>2 DEF Accounted, DriverPCs, ClaimPCs
    <2>13. Accounting'
      BY <2>11, <2>12 DEF Accounting
    <2> QED
      BY <2>6, <2>7, <2>13
  <1>2. ASSUME \A r \in Requests : ~Calling(r)
        PROVE  Accounting' /\ AtMostOneWrite' /\ OutcomeHonest'
    <2>1. writes' = writes
      BY <1>2 DEF Shape, Background, Advancing, Inserting, Dropping, Claiming, Closing,
                  Repairing, Still
    <2>2. AtMostOneWrite'
      BY <1>a, <2>1 DEF AtMostOneWrite
    <2>3. OutcomeHonest'
      <3> SUFFICES ASSUME NEW h \in Holds, rows'[h].status # rows[h].status
                   PROVE  /\ rows'[h].status = "applied" => writes[h] # <<>>
                          /\ rows'[h].status \in {"absent", "pending", "rejected",
                                                  "withdrawn", "stale"} => writes[h] = <<>>
                          /\ rows'[h].status = "apply_failed" /\ ~ContractViolations
                               => writes[h] = <<>>
        BY <1>a, <2>1 DEF OutcomeHonest
      <3>1. ASSUME NEW r \in Requests, Inserting(r, h) \/ Dropping(r, h) \/ Claiming(r, h)
            PROVE  writes[h] = <<>> /\ rows'[h].status # "applied"
        BY <1>a, <3>1 DEF Inserting, Dropping, Claiming, OutcomeHonest
      <3>2. ASSUME NEW r \in Requests, Closing(r, h)
            PROVE  \/ rows'[h].status = "applied" /\ writes[h] # <<>>
                   \/ rows'[h].status = "stale" /\ writes[h] = <<>>
                   \/ rows'[h].status = "apply_failed"
                      /\ (~ContractViolations => writes[h] = <<>>)
        BY <1>a, <3>2 DEF Closing, Closes, Accounting, Accounted
      <3>3. ASSUME Repairing(h)
            PROVE  \/ rows'[h].status = "applied" /\ writes[h] # <<>>
                   \/ rows'[h].status = "apply_failed" /\ writes[h] = <<>>
        BY <3>3 DEF Repairing
      <3>4. \/ \E r \in Requests : Inserting(r, h) \/ Dropping(r, h) \/ Claiming(r, h)
            \/ \E r \in Requests : Closing(r, h)
            \/ Repairing(h)
        BY <1>2 DEF Shape, Background, Advancing, Inserting, Dropping, Claiming, Closing,
                    Repairing, Still, OtherRows
      <3>5. CASE \E r \in Requests : Inserting(r, h) \/ Dropping(r, h) \/ Claiming(r, h)
        BY <3>1, <3>5
      <3>6. CASE \E r \in Requests : Closing(r, h)
        BY <3>2, <3>6
      <3>7. CASE Repairing(h)
        BY <3>3, <3>7
      <3> QED
        BY <3>4, <3>5, <3>6, <3>7
    <2>4. Accounting'
      <3> SUFFICES ASSUME NEW r \in Requests PROVE Accounted(req[r])'
        BY DEF Accounting
      <3>1. CASE \E h \in Holds : Claiming(r, h)
        BY <1>a, <2>1, <3>1 DEF Claiming, OutcomeHonest, Accounted
      <3>2. CASE Advancing(r)
        BY <1>a, <2>1, <3>2 DEF Advancing, Accounting, Accounted
      <3>3. CASE \E h \in Holds : Closing(r, h)
        BY <1>a, <2>1, <3>3 DEF Closing, Accounting, Accounted
      <3>4. CASE req'[r] = req[r]
        BY <1>a, <2>1, <3>4 DEF Accounting, Accounted
      <3>5. CASE req'[r].pc \notin DriverPCs
        BY <3>5 DEF Accounted, DriverPCs, ClaimPCs
      <3> QED
        BY <1>2, <3>1, <3>2, <3>3, <3>4, <3>5
        DEF Shape, Background, Inserting, Dropping, Claiming, Closing, Advancing, Repairing,
            Still, OtherReqs, DriverPCs, ClaimPCs
    <2> QED
      BY <2>2, <2>3, <2>4
  <1> QED
    BY <1>1, <1>2

(* IInv is inductive.                                                      *)
LEMMA StepIInv == IInv /\ [Next]_vars => IInv'
  <1> SUFFICES ASSUME IInv, [Next]_vars PROVE IInv'
    OBVIOUS
  <1>1. TypeOK /\ Formed /\ Exclusive
    BY DEF IInv
  <1>2. Shape
    BY <1>1, StepShape
  <1>3. TypeOK' /\ Formed' /\ Exclusive'
    BY <1>1, <1>2, StepTyped, StepFormed, StepExclusive
  <1>4. Accounting' /\ AtMostOneWrite' /\ OutcomeHonest'
    BY <1>2, StepAccounting
  <1> QED
    BY <1>3, <1>4 DEF IInv

-----------------------------------------------------------------------------
(* The theorems.                                                           *)

(* The inductive invariant holds throughout.                               *)
THEOREM Invariance == Spec => []IInv
  BY InitIInv, StepIInv, PTL DEF Spec

(* Rows, requests and histories keep their types: no handler stores a      *)
(* status, a note or an outcome outside the columns' vocabularies.         *)
THEOREM TypeCorrect == Spec => []TypeOK
  <1>1. IInv => TypeOK
    BY DEF IInv
  <1> QED
    BY <1>1, Invariance, PTL

(* A request that claimed a row finds it "applying" when it returns from   *)
(* the judge: _apply_or_finalize_proposal_hold's assumption.               *)
THEOREM ClaimSafe == Spec => []ClaimHeld
  <1>1. IInv => ClaimHeld
    BY DEF IInv, Exclusive
  <1> QED
    BY <1>1, Invariance, PTL

(* Never two requests inside the external calls of the same target slot.   *)
THEOREM OneWriter == Spec => []OneWriterPerKey
  <1>1. IInv => OneWriterPerKey
    <2> SUFFICES ASSUME IInv, NEW r \in Requests, NEW s \in Requests,
                        req[r].pc \in ClaimPCs, req[s].pc \in ClaimPCs,
                        req[r].key = req[s].key
                 PROVE  r = s
      BY DEF OneWriterPerKey
    <2>1. req[r].pc \in DriverPCs /\ req[s].pc \in DriverPCs
      BY DEF DriverPCs
    <2>2. /\ req[r].hold \in Holds /\ rows[req[r].hold].key = req[r].key
          /\ req[s].hold \in Holds /\ rows[req[s].hold].key = req[s].key
      BY <2>1 DEF IInv, Formed, FormedReq
    <2>3. rows[req[r].hold].status = "applying" /\ rows[req[s].hold].status = "applying"
      BY DEF IInv, Exclusive, ClaimHeld
    <2>4. req[r].hold = req[s].hold
      BY <2>2, <2>3 DEF IInv, Exclusive, SlotUnique, OpenStatuses
    <2> QED
      BY <2>1, <2>4 DEF IInv, Exclusive, DriverUnique
  <1> QED
    BY <1>1, Invariance, PTL

(* judge.apply() writes at most once for a hold, for any number of racing  *)
(* submissions, decisions, crashes and failing commits.                    *)
THEOREM WriteOnce == Spec => []AtMostOneWrite
  <1>1. IInv => AtMostOneWrite
    BY DEF IInv
  <1> QED
    BY <1>1, Invariance, PTL

(* The status a hold ends with tells whether its target was written.       *)
THEOREM Honest == Spec => []OutcomeHonest
  <1>1. IInv => OutcomeHonest
    BY DEF IInv
  <1> QED
    BY <1>1, Invariance, PTL
-----------------------------------------------------------------------------
(* Consent.                                                                *)

(* o endorsed some content of the hold.                                    *)
Endorsed(h, o) == \E e \in endorsed[h] : e.by = o

ClaimedStatuses == {"applying", "applied", "apply_failed", "stale"}

(* The approvals on a row were given, and a row that was ever claimed was  *)
(* endorsed by the judge or by every required owner.                       *)
Vouched ==
    \A h \in Holds :
        /\ \A o \in rows[h].approvals : Endorsed(h, o)
        /\ rows[h].status \in ClaimedStatuses =>
             \/ Endorsed(h, "judge")
             \/ \A o \in RequiredOwners[rows[h].key] : Endorsed(h, o)

(* Only a resubmission and a decision of an owner touch the approvals.     *)
LEMMA ApprovalFacts ==
    ASSUME NEW row \in Row
    PROVE  /\ \A n \in Notes : Noted(row, n).approvals = row.approvals
           /\ \A st, src : Decided(row, st, src).approvals = row.approvals
           /\ \A b : AutoClaimed(row, b).approvals = row.approvals
           /\ \A o : Resolved(row, o).approvals = row.approvals
           /\ \A st : Repaired(row, st).approvals = row.approvals
           /\ \A new, loaded : Rewritten(row, new, loaded).approvals \subseteq row.approvals
           /\ \A o \in Owners : /\ Collected(row, o).approvals \subseteq row.approvals \cup {o}
                                /\ row.key \notin CrossKeys =>
                                     Collected(row, o).approvals = row.approvals
           /\ NoRow.approvals = {} /\ \A k, c : NewRow(k, c).approvals = {}
  BY DEF Row, Noted, Decided, AutoClaimed, Resolved, Repaired, Rewritten, Collected, NoRow, NewRow

(* A row that loses approvals or nothing, and is not claimed by the step.  *)
LEMMA UnclaimedVouched ==
    ASSUME Vouched, NEW h \in Holds, OtherRows(h), endorsed' = endorsed,
           rows'[h].approvals \subseteq rows[h].approvals,
           \/ rows'[h].status \notin ClaimedStatuses
           \/ rows[h].status \in ClaimedStatuses /\ rows'[h].key = rows[h].key
    PROVE  Vouched'
  <1> SUFFICES ASSUME NEW g \in Holds
               PROVE  /\ \A o \in rows'[g].approvals : Endorsed(g, o)
                      /\ rows'[g].status \in ClaimedStatuses =>
                           \/ Endorsed(g, "judge")
                           \/ \A o \in RequiredOwners[rows'[g].key] : Endorsed(g, o)
    BY DEF Vouched, Endorsed
  <1>1. /\ \A o \in rows[g].approvals : Endorsed(g, o)
        /\ rows[g].status \in ClaimedStatuses =>
             \/ Endorsed(g, "judge")
             \/ \A o \in RequiredOwners[rows[g].key] : Endorsed(g, o)
    BY DEF Vouched
  <1>2. CASE g = h
    BY <1>1, <1>2
  <1>3. CASE g # h
    BY <1>1, <1>3 DEF OtherRows
  <1> QED
    BY <1>2, <1>3

(* Steps that leave the rows and the endorsements alone.                   *)
LEMMA SameVouched ==
    ASSUME Vouched, rows' = rows, endorsed' = endorsed
    PROVE  Vouched'
  BY DEF Vouched, Endorsed

(* The judge's claim is the judge's endorsement.                           *)
LEMMA AutoClaimVouched ==
    ASSUME TypeOK, Formed, Vouched, NEW r \in Requests, AutoClaim(r)
    PROVE  Vouched'
  <1>1. PICK h \in Holds : h = req[r].hold
    BY DEF AutoClaim, Formed, FormedReq
  <1>2. PICK e : e = [by |-> "judge", content |-> rows[h].content]
    OBVIOUS
  <1>3. /\ rows \in [Holds -> Row] /\ rows[h] \in Row /\ e.by = "judge"
        /\ endorsed \in [Holds -> SUBSET Endorsement]
    BY <1>2 DEF TypeOK
  <1>4. /\ rows' = [rows EXCEPT ![h] = AutoClaimed(@, req[r].rule)]
        /\ endorsed' = [endorsed EXCEPT ![h] = @ \cup {e}]
    BY <1>1, <1>2 DEF AutoClaim
  <1>5. /\ rows'[h].approvals = rows[h].approvals
        /\ endorsed'[h] = endorsed[h] \cup {e}
        /\ \A g \in Holds : g # h => rows'[g] = rows[g] /\ endorsed'[g] = endorsed[g]
    BY <1>3, <1>4, ApprovalFacts
  <1> SUFFICES ASSUME NEW g \in Holds
               PROVE  /\ \A o \in rows'[g].approvals : Endorsed(g, o)'
                      /\ rows'[g].status \in ClaimedStatuses =>
                           \/ Endorsed(g, "judge")'
                           \/ \A o \in RequiredOwners[rows'[g].key] : Endorsed(g, o)'
    BY DEF Vouched
  <1>6. CASE g = h
    BY <1>3, <1>5, <1>6 DEF Vouched, Endorsed
  <1>7. CASE g # h
    BY <1>5, <1>7 DEF Vouched, Endorsed
  <1> QED
    BY <1>6, <1>7

(* An owner's approval is recorded with the decision it may complete.      *)
LEMMA ApproveVouched ==
    ASSUME TypeOK, Formed, Vouched, NEW r \in Requests, NEW o \in Owners, NEW h \in Holds,
           Approve(r, o, h)
    PROVE  Vouched'
  <1>1. PICK e : e = [by |-> o, content |-> rows[h].content]
    OBVIOUS
  <1>2. PICK row : row = Collected(rows[h], o)
    OBVIOUS
  <1>3. /\ rows \in [Holds -> Row] /\ rows[h] \in Row /\ e.by = o
        /\ endorsed \in [Holds -> SUBSET Endorsement]
        /\ rows[h].status = "pending" /\ o \in RequiredOwners[rows[h].key]
        /\ rows[h].key \in Keys
    BY <1>1 DEF TypeOK, Approve, Undecided, Formed, FormedRow
  <1>4. /\ row \in Row /\ row.key = rows[h].key /\ row.status = "pending"
        /\ row.approvals \subseteq rows[h].approvals \cup {o}
    BY <1>2, <1>3, CollectedFacts, ApprovalFacts
  <1>5. /\ endorsed' = [endorsed EXCEPT ![h] = @ \cup {e}]
        /\ \/ AllApproved(row) /\ rows' = [rows EXCEPT ![h] = Decided(row, "applying", "human")]
           \/ rows' = [rows EXCEPT ![h] = row]
    BY <1>1, <1>2 DEF Approve
  <1>6. /\ rows'[h].approvals = row.approvals /\ rows'[h].key = row.key
        /\ rows'[h].status = "pending" \/ AllApproved(row)
        /\ \A g \in Holds : g # h => rows'[g] = rows[g] /\ endorsed'[g] = endorsed[g]
    <2>1. Decided(row, "applying", "human").approvals = row.approvals
      BY <1>4, ApprovalFacts
    <2>2. Decided(row, "applying", "human").key = row.key
      BY <1>4, Names, DecidedFacts
    <2> QED
      BY <1>3, <1>4, <1>5, <2>1, <2>2
  <1>7. endorsed'[h] = endorsed[h] \cup {e}
    BY <1>3, <1>5
  <1>8. \A p \in rows[h].approvals \cup {o} : Endorsed(h, p)'
    BY <1>3, <1>7 DEF Vouched, Endorsed
  <1>9. AllApproved(row) => \A p \in RequiredOwners[row.key] : p \in row.approvals \cup {o}
    BY <1>3, <1>4, OwnBrainAssumption DEF AllApproved
  <1> SUFFICES ASSUME NEW g \in Holds
               PROVE  /\ \A p \in rows'[g].approvals : Endorsed(g, p)'
                      /\ rows'[g].status \in ClaimedStatuses =>
                           \/ Endorsed(g, "judge")'
                           \/ \A p \in RequiredOwners[rows'[g].key] : Endorsed(g, p)'
    BY DEF Vouched
  <1>10. CASE g = h
    BY <1>4, <1>6, <1>8, <1>9, <1>10 DEF ClaimedStatuses
  <1>11. CASE g # h
    BY <1>6, <1>11 DEF Vouched, Endorsed
  <1> QED
    BY <1>10, <1>11

(* The other steps that write a row.                                       *)
LEMMA RowVouched ==
    ASSUME TypeOK, Formed, Vouched,
           \/ \E r \in Requests :
                \/ DedupInsert(r) \/ ResubmitUpdate(r) \/ JudgeErrs(r) \/ AutoApproveWithheld(r)
                \/ Finish(r) \/ Recover(r) \/ LastDitch(r)
                \/ \E h \in Holds : Withdraw(r, h) \/ \E o \in Owners : Reject(r, o, h)
           \/ \E h \in Holds : OperatorRepairs(h)
    PROVE  Vouched'
  <1>1. rows \in [Holds -> Row] /\ \A h \in Holds : rows[h] \in Row
    BY DEF TypeOK
  <1> DEFINE Tame(h) ==
               /\ rows'[h].approvals \subseteq rows[h].approvals
               /\ \/ rows'[h].status \notin ClaimedStatuses
                  \/ rows[h].status \in ClaimedStatuses /\ rows'[h].key = rows[h].key
  <1>2. SUFFICES rows' = rows \/ \E h \in Holds : OtherRows(h) /\ Tame(h)
    BY SameVouched, UnclaimedVouched DEF DedupInsert, ResubmitUpdate, JudgeErrs, AutoApproveWithheld, Finish,
       Recover, LastDitch, TerminalWrite, Withdraw, Reject, OperatorRepairs
  <1>3. ASSUME NEW r \in Requests, DedupInsert(r)
        PROVE  \E h \in Holds : OtherRows(h) /\ Tame(h)
    <2>1. PICK h \in Holds : rows' = [rows EXCEPT ![h] = NewRow(req[r].key, req[r].content)]
      BY <1>3 DEF DedupInsert
    <2>2. req[r].key \in Keys /\ req[r].content \in Content
      BY <1>3 DEF DedupInsert, Formed, FormedReq
    <2>3. rows'[h].approvals = {} /\ rows'[h].status = "pending" /\ OtherRows(h)
      BY <1>1, <2>1, <2>2, ApprovalFacts, NewRowFacts DEF OtherRows
    <2> QED
      BY <2>3 DEF ClaimedStatuses
  <1>4. ASSUME NEW r \in Requests, NEW h \in Holds, NEW row \in Row,
               rows' = [rows EXCEPT ![h] = row],
               row.approvals \subseteq rows[h].approvals, row.key = rows[h].key,
               \/ row.status = rows[h].status \/ rows[h].status = "applying"
               \/ row.status \notin ClaimedStatuses
        PROVE  \E g \in Holds : OtherRows(g) /\ Tame(g)
    <2>1. OtherRows(h) /\ rows'[h] = row
      BY <1>1, <1>4 DEF OtherRows
    <2> QED
      BY <1>4, <2>1 DEF ClaimedStatuses
  <1>5. ASSUME NEW r \in Requests,
               ResubmitUpdate(r) \/ JudgeErrs(r) \/ AutoApproveWithheld(r)
        PROVE  rows' = rows \/ \E h \in Holds : OtherRows(h) /\ Tame(h)
    <2>1. PICK h \in Holds : h = req[r].hold /\ rows[h].content \in Content
      BY <1>5 DEF ResubmitUpdate, JudgeErrs, AutoApproveWithheld, Formed, FormedReq, FormedRow
    <2>2. PICK row : \/ row = Rewritten(rows[h], req[r].content, req[r].loaded) /\ ResubmitUpdate(r)
                     \/ row = Noted(rows[h], "judge_error") /\ JudgeErrs(r)
                     \/ row = Noted(rows[h], "withheld") /\ AutoApproveWithheld(r)
      BY <1>5
    <2>3. rows' = rows \/ rows' = [rows EXCEPT ![h] = row]
      BY <2>1, <2>2 DEF ResubmitUpdate, JudgeErrs, AutoApproveWithheld
    <2>4. /\ row \in Row /\ row.key = rows[h].key /\ row.status = rows[h].status
          /\ row.approvals \subseteq rows[h].approvals
      <3>1. CASE ResubmitUpdate(r) /\ row = Rewritten(rows[h], req[r].content, req[r].loaded)
        <4>1. req[r].content \in Content /\ req[r].loaded \in Loaded
          BY <3>1 DEF ResubmitUpdate, Formed, FormedReq, TypeOK, Request
        <4> QED
          BY <1>1, <2>1, <3>1, <4>1, RewrittenFacts, ApprovalFacts
      <3>2. CASE row \in {Noted(rows[h], "judge_error"), Noted(rows[h], "withheld")}
        <4>1. {"judge_error", "withheld"} \subseteq Notes
          BY Names
        <4>2. PICK n \in Notes : row = Noted(rows[h], n)
          BY <3>2, <4>1
        <4> QED
          BY <1>1, <2>1, <4>2, NotedFacts, ApprovalFacts
      <3> QED
        BY <2>2, <3>1, <3>2
    <2> HIDE DEF Tame
    <2> QED
      BY <1>4, <2>3, <2>4
  <1>6. ASSUME NEW r \in Requests, Finish(r) \/ Recover(r) \/ LastDitch(r)
        PROVE  rows' = rows \/ \E h \in Holds : OtherRows(h) /\ Tame(h)
    <2>1. PICK h \in Holds : h = req[r].hold
      BY <1>6 DEF Finish, Recover, LastDitch, Formed, FormedReq, DriverPCs, ClaimPCs
    <2>2. PICK row : row = Resolved(rows[h], req[r].outcome)
      OBVIOUS
    <2>3. rows' = rows \/ (rows[h].status = "applying" /\ rows' = [rows EXCEPT ![h] = row])
      BY <1>6, <2>1, <2>2 DEF Finish, Recover, LastDitch, TerminalWrite
    <2>4. row \in Row /\ row.key = rows[h].key /\ row.approvals = rows[h].approvals
      <3>1. req[r].outcome \in Outcomes
        BY DEF TypeOK, Request
      <3> QED
        BY <1>1, <2>2, <3>1, ResolvedFacts, ApprovalFacts
    <2> HIDE DEF Tame
    <2> QED
      BY <1>4, <2>3, <2>4
  <1>7. ASSUME NEW r \in Requests, NEW h \in Holds, Withdraw(r, h) \/ \E o \in Owners : Reject(r, o, h)
        PROVE  \E g \in Holds : OtherRows(g) /\ Tame(g)
    <2>1. PICK st \in {"withdrawn", "rejected"}, src \in {"bot", "human"} :
            rows' = [rows EXCEPT ![h] = Decided(@, st, src)]
      BY <1>7 DEF Withdraw, Reject
    <2>2. PICK row : row = Decided(rows[h], st, src)
      OBVIOUS
    <2>3. rows' = [rows EXCEPT ![h] = row]
      BY <2>1, <2>2
    <2>4. /\ row \in Row /\ row.key = rows[h].key /\ row.approvals = rows[h].approvals
          /\ row.status \notin ClaimedStatuses
      <3>1. st \in Statuses /\ src \in {"human", "auto", "bot"}
        BY Names
      <3>2. row \in Row /\ row.key = rows[h].key /\ row.status = st
        BY <1>1, <2>2, <3>1, DecidedFacts
      <3>3. row.approvals = rows[h].approvals
        BY <1>1, <2>2, ApprovalFacts
      <3> QED
        BY <3>2, <3>3 DEF ClaimedStatuses
    <2> HIDE DEF Tame
    <2> QED
      BY <1>4, <1>7, <2>3, <2>4
  <1>8. ASSUME NEW h \in Holds, OperatorRepairs(h)
        PROVE  \E g \in Holds : OtherRows(g) /\ Tame(g)
    <2>1. PICK st \in {"applied", "apply_failed"} : rows' = [rows EXCEPT ![h] = Repaired(@, st)]
      BY <1>8 DEF OperatorRepairs
    <2>2. PICK row : row = Repaired(rows[h], st)
      OBVIOUS
    <2>3. rows' = [rows EXCEPT ![h] = row] /\ rows[h].status = "applying"
      BY <1>8, <2>1, <2>2 DEF OperatorRepairs
    <2>4. row \in Row /\ row.key = rows[h].key /\ row.approvals = rows[h].approvals
      <3>1. st \in Statuses
        BY Names
      <3> QED
        BY <1>1, <2>2, <3>1, RepairedFacts, ApprovalFacts
    <2>5. OtherRows(h) /\ rows'[h] = row
      BY <1>1, <2>3 DEF OtherRows
    <2> QED
      BY <2>3, <2>4, <2>5 DEF ClaimedStatuses
  <1> HIDE DEF Tame
  <1> QED
    BY <1>3, <1>5, <1>6, <1>7, <1>8

(* Every step keeps the consent on record.                                 *)
LEMMA StepVouched == TypeOK /\ Formed /\ Vouched /\ [Next]_vars => Vouched'
  <1> SUFFICES ASSUME TypeOK, Formed, Vouched, [Next]_vars PROVE Vouched'
    OBVIOUS
  <1>1. ASSUME NEW r \in Requests, AutoClaim(r) PROVE Vouched'
    BY <1>1, AutoClaimVouched
  <1>2. ASSUME NEW r \in Requests, NEW o \in Owners, NEW h \in Holds, Approve(r, o, h)
        PROVE  Vouched'
    BY <1>2, ApproveVouched
  <1>3. ASSUME NEW r \in Requests,
               \/ DedupInsert(r) \/ ResubmitUpdate(r) \/ JudgeErrs(r) \/ AutoApproveWithheld(r)
               \/ Finish(r) \/ Recover(r) \/ LastDitch(r)
               \/ \E h \in Holds : Withdraw(r, h) \/ \E o \in Owners : Reject(r, o, h)
        PROVE  Vouched'
    BY <1>3, RowVouched
  <1>4. ASSUME NEW h \in Holds, OperatorRepairs(h) PROVE Vouched'
    BY <1>4, RowVouched
  <1>5. ASSUME NEW r \in Requests,
               \/ \E k \in Keys, p \in Payloads : Submit(r, k, p)
               \/ SubmitRefused(r) \/ DedupSelect(r) \/ DedupInsertLost(r) \/ DedupReselect(r)
               \/ JudgeHolds(r) \/ JudgeApproves(r) \/ AutoClaimLost(r)
               \/ ApplyRead(r) \/ ApplyCheck(r) \/ ApplyCheckFails(r) \/ ApplyCall(r) \/ Abort(r)
               \/ \E h \in Holds : DecisionRefused(r, h)
        PROVE  Vouched'
    BY <1>5, SameVouched DEF Submit, SubmitRefused, DedupSelect, DedupInsertLost, DedupReselect,
       JudgeHolds, JudgeApproves, AutoClaimLost, ApplyRead, ApplyCheck, ApplyCheckFails,
       ApplyCall, Abort, DecisionRefused
  <1>6. ASSUME UNCHANGED vars \/ \E k \in Keys : EditTarget(k) PROVE Vouched'
    BY <1>6, SameVouched DEF vars, EditTarget
  <1> QED
    BY <1>1, <1>2, <1>3, <1>4, <1>5, <1>6 DEF Next, SubmitStep, ApplyStep, DecideStep

(* decide_proposal and _apply_or_finalize_proposal_hold: the target is     *)
(* written only under a hold that the judge, or every owner it needs,      *)
(* approved, whatever resubmissions cleared of the approvals in between.   *)
THEOREM ConsentGiven == Spec => []WrittenWithConsent
  <1>1. Init => Vouched
    <2>1. ASSUME Init PROVE \A h \in Holds : rows[h].approvals = {} /\ rows[h].status = "absent"
      BY <2>1, NoRowType DEF Init, NoRow
    <2> QED
      BY <2>1 DEF Vouched, ClaimedStatuses
  <1>2. IInv /\ Vouched /\ [Next]_vars => Vouched'
    BY StepVouched DEF IInv
  <1>3. IInv /\ Vouched => WrittenWithConsent
    <2> SUFFICES ASSUME IInv, Vouched, NEW h \in Holds, writes[h] # <<>>
                 PROVE  \/ \E e \in endorsed[h] : e.by = "judge"
                        \/ \A o \in RequiredOwners[rows[h].key] : \E e \in endorsed[h] : e.by = o
      BY DEF WrittenWithConsent
    <2>1. rows[h].status \in Statuses
      BY DEF IInv, TypeOK, Row
    <2>2. rows[h].status \in ClaimedStatuses
      BY <2>1 DEF IInv, OutcomeHonest, ClaimedStatuses, Statuses
    <2> QED
      BY <2>2 DEF Vouched, Endorsed
  <1> QED
    BY <1>1, <1>2, <1>3, Invariance, PTL DEF Spec

-----------------------------------------------------------------------------
(* Refinement.                                                             *)

(* The empty table is the empty lifecycle.                                 *)
LEMMA InitRefines == Init => Lifecycle!LifecycleInit
  <1> SUFFICES ASSUME Init PROVE Lifecycle!LifecycleInit
    OBVIOUS
  <1>1. \A h \in Holds : rows[h].key = None /\ rows[h].status = "absent"
    BY DEF Init, NoRow
  <1>2. \A h \in Holds : writes[h] = <<>>
    BY DEF Init
  <1>3. [h \in Holds |-> PhaseOf(rows[h].status)] = [h \in Holds |-> "absent"]
    BY <1>1 DEF PhaseOf
  <1>4. [h \in Holds |-> Len(writes[h])] = [h \in Holds |-> 0]
    BY <1>2
  <1> QED
    BY <1>1, <1>3, <1>4 DEF Lifecycle!LifecycleInit

(* The phases the statuses map to.                                         *)
LEMMA PhaseFacts ==
    /\ PhaseOf("absent") = "absent"
    /\ PhaseOf("pending") = "open"
    /\ PhaseOf("applying") = "claimed"
    /\ PhaseOf("applied") = "applied"
    /\ \A st \in {"rejected", "withdrawn", "apply_failed", "stale"} : PhaseOf(st) = "closed"
    /\ \A st \in Statuses : PhaseOf(st) \in {"open", "claimed"} => st \in OpenStatuses
  BY DEF PhaseOf, Statuses, OpenStatuses

(* Every step of the pipeline is a step of the lifecycle or a stutter, for *)
(* a judge that keeps its contract.                                        *)
LEMMA StepRefines ==
    ASSUME ~ContractViolations, IInv, [Next]_vars
    PROVE  Lifecycle!LifecycleNext \/ UNCHANGED Lifecycle!lifecycleVars
  <1> DEFINE slot == [h \in Holds |-> rows[h].key]
             phase == [h \in Holds |-> PhaseOf(rows[h].status)]
             effects == [h \in Holds |-> Len(writes[h])]
  <1>a. /\ TypeOK /\ Formed /\ Exclusive /\ Accounting /\ AtMostOneWrite /\ OutcomeHonest
        /\ TypeOK' /\ Shape /\ Formed'
    BY StepIInv, StepShape, StepTyped, StepFormed DEF IInv
  <1>b. /\ \A h \in Holds : slot[h] = rows[h].key /\ slot'[h] = rows'[h].key
        /\ \A h \in Holds : phase[h] = PhaseOf(rows[h].status)
                            /\ phase'[h] = PhaseOf(rows'[h].status)
        /\ \A h \in Holds : effects[h] = Len(writes[h]) /\ effects'[h] = Len(writes'[h])
    OBVIOUS
  <1>c. ASSUME NEW h \in Holds
        PROVE  /\ writes[h] = <<>> => effects[h] = 0
               /\ writes[h] # <<>> => effects[h] = 1
    <2> DEFINE n == effects[h]
    <2>1. writes[h] \in Seq(Content \cup {None}) /\ n = Len(writes[h])
      BY <1>a DEF TypeOK
    <2>2. writes[h] = <<>> => n = 0
      BY <2>1, EmptySeq
    <2>3. writes[h] # <<>> => n \in Nat \ {0}
      BY <2>1, EmptySeq
    <2>4. n <= 1
      BY <1>a, <2>1 DEF AtMostOneWrite
    <2> HIDE DEF n
    <2>5. n \in Nat \ {0} => n = 1
      BY <2>4
    <2> QED
      BY <2>2, <2>3, <2>5 DEF n
  <1>d. ASSUME rows' = rows \/ \A h \in Holds : /\ rows'[h].status = rows[h].status
                                               /\ rows'[h].key = rows[h].key,
               writes' = writes
        PROVE  UNCHANGED <<slot, phase, effects>>
    BY <1>d
  <1>e. ASSUME NEW h \in Holds, OtherRows(h), rows'[h].key = rows[h].key, writes' = writes
        PROVE  /\ slot' = slot /\ effects' = effects
               /\ phase' = [phase EXCEPT ![h] = PhaseOf(rows'[h].status)]
    BY <1>e DEF OtherRows
  <1>1. ASSUME NEW r \in Requests, Background(r) PROVE UNCHANGED <<slot, phase, effects>>
    BY <1>d, <1>1 DEF Background, KeepsKey
  <1>2. ASSUME (\E r \in Requests : Advancing(r)) \/ Still
        PROVE  UNCHANGED <<slot, phase, effects>>
    BY <1>d, <1>2 DEF Advancing, Still
  <1>3. ASSUME NEW r \in Requests, NEW h \in Holds, Inserting(r, h)
        PROVE  \E k \in Keys : Lifecycle!Create(h, k)
    <2>0. PICK k \in Keys : k = rows'[h].key
      BY <1>3 DEF Inserting, FormedRow
    <2>1. phase[h] = "absent" /\ phase' = [phase EXCEPT ![h] = "open"]
      BY <1>3, PhaseFacts DEF Inserting, OtherRows
    <2>2. slot' = [slot EXCEPT ![h] = k] /\ effects' = effects
      BY <1>3, <2>0 DEF Inserting, OtherRows
    <2>3. \A g \in Holds : phase[g] \in {"open", "claimed"} => slot[g] # k
      <3> SUFFICES ASSUME NEW g \in Holds, PhaseOf(rows[g].status) \in {"open", "claimed"}
                   PROVE  rows[g].key # k
        BY <1>b
      <3>1. rows[g].status \in OpenStatuses
        BY <1>a, PhaseFacts DEF TypeOK, Row
      <3> QED
        BY <1>3, <2>0, <3>1 DEF Inserting, Matches
    <2> HIDE DEF slot, phase, effects
    <2> QED
      BY <2>1, <2>2, <2>3 DEF Lifecycle!Create, Lifecycle!Free, slot, phase, effects
  <1>4. ASSUME NEW r \in Requests, NEW h \in Holds, Dropping(r, h) PROVE Lifecycle!Drop(h)
    BY <1>4, <1>b, <1>e, PhaseFacts DEF Dropping, KeepsKey, Lifecycle!Drop
  <1>5. ASSUME NEW r \in Requests, NEW h \in Holds, Claiming(r, h) PROVE Lifecycle!Claim(h)
    BY <1>5, <1>b, <1>e, PhaseFacts DEF Claiming, KeepsKey, Lifecycle!Claim
  <1>6. ASSUME NEW r \in Requests, Calling(r)
        PROVE  (\E h \in Holds : Lifecycle!Effect(h)) \/ UNCHANGED <<slot, phase, effects>>
    <2>0. PICK h \in Holds : h = req[r].hold
      BY <1>a, <1>6 DEF Calling, Formed, FormedReq, DriverPCs, ClaimPCs
    <2>1. /\ rows[h].status = "applying" /\ writes[h] = <<>> /\ rows' = rows
      BY <1>a, <1>6, <2>0 DEF Calling, Exclusive, ClaimHeld, Accounting, Accounted, ClaimPCs
    <2>2. CASE writes' = writes
      BY <1>d, <2>1, <2>2
    <2>3. CASE writes' = [writes EXCEPT ![h] = Append(@, req[r].content)]
      <3>1. phase[h] = "claimed" /\ slot' = slot /\ phase' = phase
        BY <2>1, PhaseFacts
      <3>2. Len(Append(<<>>, req[r].content)) = 1 /\ Len(<<>>) = 0
        OBVIOUS
      <3>3. writes'[h] = Append(<<>>, req[r].content)
        BY <1>a, <2>1, <2>3 DEF TypeOK
      <3>4. effects[h] = 0 /\ effects'[h] = 1
        <4>1. effects[h] = Len(<<>>) /\ effects'[h] = Len(Append(<<>>, req[r].content))
          BY ONLY <1>b, <2>1, <3>3, Zenon
        <4> QED
          BY ONLY <3>2, <4>1, Zenon
      <3>5. \A g \in Holds \ {h} : effects'[g] = effects[g]
        BY <1>a, <2>1, <2>3 DEF TypeOK
      <3>6. effects' = [effects EXCEPT ![h] = 1]
        BY <2>1, <3>4, <3>5
      <3> HIDE DEF slot, phase, effects
      <3> QED
        BY <3>1, <3>4, <3>6 DEF Lifecycle!Effect, slot, phase, effects
    <2> QED
      BY <1>6, <2>0, <2>2, <2>3 DEF Calling
  <1>7. ASSUME NEW h \in Holds, rows[h].status = "applying", OtherRows(h), KeepsKey(h),
               writes' = writes, rows'[h].status = "applied", writes[h] # <<>>
        PROVE  Lifecycle!Succeed(h)
    <2>1. /\ phase[h] = "claimed" /\ slot' = slot /\ effects' = effects
          /\ phase' = [phase EXCEPT ![h] = "applied"]
      BY <1>7, <1>e, PhaseFacts DEF KeepsKey
    <2>2. effects[h] = 1
      BY <1>7, <1>c
    <2> HIDE DEF slot, phase, effects
    <2> QED
      BY <2>1, <2>2 DEF Lifecycle!Succeed, slot, phase, effects
  <1>8. ASSUME NEW h \in Holds, rows[h].status = "applying", OtherRows(h), KeepsKey(h),
               writes' = writes, rows'[h].status \in {"stale", "apply_failed"},
               writes[h] = <<>>
        PROVE  Lifecycle!Fail(h)
    <2>1. /\ phase[h] = "claimed" /\ slot' = slot /\ effects' = effects
          /\ phase' = [phase EXCEPT ![h] = "closed"]
      BY <1>8, <1>e, PhaseFacts DEF KeepsKey
    <2>2. effects[h] = 0
      BY <1>8, <1>c
    <2> HIDE DEF slot, phase, effects
    <2> QED
      BY <2>1, <2>2 DEF Lifecycle!Fail, slot, phase, effects
  <1>9. ASSUME NEW r \in Requests, NEW h \in Holds, Closing(r, h)
        PROVE  \/ Lifecycle!Succeed(h) \/ Lifecycle!Fail(h)
               \/ UNCHANGED <<slot, phase, effects>>
    <2>1. CASE rows'[h].status = rows[h].status
      BY <1>9, <1>d, <2>1 DEF Closing, KeepsKey, OtherRows
    <2>2. CASE rows[h].status = "applying" /\ Closes(req[r].outcome, rows'[h].status)
      BY <1>9, <1>a, <1>7, <1>8, <2>2 DEF Closing, Closes, Accounting, Accounted
    <2> QED
      BY <1>9, <2>1, <2>2 DEF Closing
  <1>10. ASSUME NEW h \in Holds, Repairing(h)
         PROVE  Lifecycle!Succeed(h) \/ Lifecycle!Fail(h)
    BY <1>10, <1>7, <1>8 DEF Repairing
  <1>11. CASE UNCHANGED <<slot, phase, effects>>
    BY <1>11 DEF Lifecycle!lifecycleVars
  <1> HIDE DEF slot, phase, effects
  <1>12. CASE \E r \in Requests : Calling(r)
    BY <1>6, <1>11, <1>12 DEF Lifecycle!LifecycleNext
  <1>13. CASE \E r \in Requests, h \in Holds :
                 Inserting(r, h) \/ Dropping(r, h) \/ Claiming(r, h) \/ Closing(r, h)
    BY <1>3, <1>4, <1>5, <1>9, <1>11, <1>13 DEF Lifecycle!LifecycleNext
  <1>14. CASE \E h \in Holds : Repairing(h)
    BY <1>10, <1>14 DEF Lifecycle!LifecycleNext
  <1> QED
    BY <1>a, <1>1, <1>2, <1>11, <1>12, <1>13, <1>14 DEF Shape

(* The pipeline implements its promise: one slot per key, one claim and at *)
(* most one effect per hold, and an honest ending.                         *)
THEOREM Implements ==
    ASSUME ~ContractViolations
    PROVE  Spec => ImplementsLifecycle
  <1>1. IInv /\ [Next]_vars => [Lifecycle!LifecycleNext]_Lifecycle!lifecycleVars
    BY StepRefines
  <1> QED
    BY <1>1, InitRefines, Invariance, PTL
    DEF Spec, ImplementsLifecycle, Lifecycle!LifecycleSpec
=============================================================================
