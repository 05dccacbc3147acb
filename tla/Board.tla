-------------------------------- MODULE Board --------------------------------
(***************************************************************************)
(* One conversation of the board (service.py): its state, its              *)
(* participants, its messages, and the approval holds that messages and    *)
(* invitations are diverted to.  Conversations share nothing but agents    *)
(* and rate limits, so one conversation is the whole of it.  The read      *)
(* cursors are in ReadCursor.                                              *)
(*                                                                         *)
(* A handler that locks the conversation (SELECT ... FOR UPDATE up to its  *)
(* commit) is one action.  A handler that does not is a load, which        *)
(* checks a copy, and a commit, which writes the columns it changed on     *)
(* that copy.  Deciding a hold is two actions as well: it locks the hold,  *)
(* looks at its deadline, and may then wait for the conversation's lock.   *)
(***************************************************************************)
EXTENDS Naturals, Sequences

CONSTANTS
    Requests,   \* coroutines of handlers that take more than one step
    Agents,     \* registered agents
    Holds,      \* ids of approval_holds rows
    Types,      \* the message types in use
    MaxLog,     \* bound: messages of the conversation
    None        \* "not set"

KnownTypes == {"note", "report", "confirm", "task_complete", "decline",
               "task_decline", "task_cancel"}

ASSUME TypesAssumption == Types \subseteq KnownTypes
ASSUME LogAssumption == MaxLog \in Nat
ASSUME UnsetAssumption == None \notin Agents /\ None \notin Holds
ASSUME HoldIdAssumption == Holds \cap {"none", "founding", "direct"} = {}

VARIABLES
    conv,     \* the conversations row
    part,     \* the participants rows, by agent
    log,      \* the messages, by sequence number
    holds,    \* the approval_holds rows
    req,      \* the local state of every request
    reopened, \* history: the length of the log at the last reopening
    via       \* history: how each agent came to be a participant

vars == <<conv, part, log, holds, req, reopened, via>>

-----------------------------------------------------------------------------
States == {"absent", "active", "completed", "canceled", "expired"}

(* lapsed: expires_at <= now.                                              *)
Conversation == [state : States, archived : BOOLEAN, lapsed : BOOLEAN]

Participant == [role : {"none", "owner", "member"},
                status : {"none", "invited", "active", "declined", "left"}]
NoParticipant == [role |-> "none", status |-> "none"]

(* "conversation_opened" is the marker the board posts itself when the     *)
(* opening message is held.                                                *)
Message == [type : KnownTypes \cup {"conversation_opened"}, hold : Holds \cup {None}]

(* The status "pending_auto" is left in the transaction that creates the   *)
(* row and is never seen by another one.                                   *)
HoldStatuses == {"absent", "pending_human", "auto_approved", "approved",
                 "rejected", "expired"}

ApprovalHold == [kind : {"none", "message", "invite"}, status : HoldStatuses,
                 sender : Agents \cup {None}, target : Agents \cup {None},
                 type : KnownTypes \cup {None}, lapsed : BOOLEAN]
NoHold == [kind |-> "none", status |-> "absent", sender |-> None,
           target |-> None, type |-> None, lapsed |-> FALSE]

(* A request between its load and its commit: what it is about to write.   *)
(* expire: the load found the conversation active and lapsed.              *)
PCs == {"idle", "touch", "accept", "decline", "leave", "expire_hold",
        "deciding", "revalidate"}
Request == [pc : PCs, agent : Agents \cup {None}, hold : Holds \cup {None},
            expire : BOOLEAN]
Idle == [pc |-> "idle", agent |-> None, hold |-> None, expire |-> FALSE]

TypeOK ==
    /\ conv \in Conversation
    /\ part \in [Agents -> Participant]
    /\ log \in Seq(Message)
    /\ holds \in [Holds -> ApprovalHold]
    /\ req \in [Requests -> Request]
    /\ reopened \in Nat
    /\ via \in [Agents -> Holds \cup {"none", "founding", "direct"}]

Init ==
    /\ conv = [state |-> "absent", archived |-> FALSE, lapsed |-> FALSE]
    /\ part = [a \in Agents |-> NoParticipant]
    /\ log = <<>>
    /\ holds = [h \in Holds |-> NoHold]
    /\ req = [r \in Requests |-> Idle]
    /\ reopened = 0
    /\ via = [a \in Agents |-> "none"]

-----------------------------------------------------------------------------
(* Helpers.                                                                *)

(* _maybe_expire: an active conversation past its deadline has expired.    *)
Expires == conv.state = "active" /\ conv.lapsed
Current == IF Expires THEN "expired" ELSE conv.state

InState(c, s) == [c EXCEPT !.state = s]

(* What the conversation accepts messages and invitations in.              *)
OpenUnlessClosed == Current = "active"
Open == Current = "active" /\ ~conv.archived

(* state_machine.resulting_conversation_state, "active" for no transition. *)
ResultingStateVerbatim(type, allDeclined) ==
    CASE type \in {"confirm", "task_complete"} -> "completed"
      [] type = "decline" /\ allDeclined -> "canceled"
      [] type \in {"task_decline", "task_cancel"} -> "canceled"
      [] OTHER -> "none"
ResultingState(type, allDeclined) ==
    CASE type \in {"confirm", "task_complete"} -> "completed"
      [] type = "decline" /\ allDeclined -> "canceled"
      [] type \in {"task_decline", "task_cancel"} -> "canceled"
      [] OTHER -> "active"

(* _MESSAGE_TYPE_SENDER_ROLES.                                             *)
MaySend(role, type) ==
    /\ type = "task_cancel" => role = "owner"
    /\ type = "task_decline" => role = "member"

(* plugins.BARRIER_SENSITIVE_TYPES: the types that carry free text.        *)
HasNoteHistory == \E i \in 1..Len(log) : log[i].type = "note"

Said(type, h) == [type |-> type, hold |-> h]

MessageHold(a, type, status) ==
    [NoHold EXCEPT !.kind = "message", !.status = status, !.sender = a, !.type = type]
InviteHold(a, b, status) ==
    [NoHold EXCEPT !.kind = "invite", !.status = status, !.sender = a, !.target = b]

Invited == [NoParticipant EXCEPT !.role = "member", !.status = "invited"]
WithStatus(p, status) == [p EXCEPT !.status = status]

(* decide_hold holds the row lock of the hold up to its commit.            *)
Unlocked(h) == \A r \in Requests : req[r].pc = "deciding" => req[r].hold # h

-----------------------------------------------------------------------------
(* start_conversation: the initiator is active, everybody else invited.    *)
(* The opening message is posted, or held behind a marker, or held and     *)
(* cleared by the auto-approver in the same transaction.                   *)
Founded(a, targets) ==
    [b \in Agents |-> IF b = a THEN [NoParticipant EXCEPT !.role = "owner", !.status = "active"]
                      ELSE IF b \in targets THEN Invited ELSE NoParticipant]

Marker == Said("conversation_opened", None)

Started(state, lapsed) == [state |-> state, archived |-> FALSE, lapsed |-> lapsed]

(* Validation, rate limits, the resolution of the targets, admission and   *)
(* the risk score may refuse; what is left is that somebody else is named  *)
(* and that an owner may send the type.                                    *)
MayStart(a, targets, type) ==
    /\ conv.state = "absent"
    /\ targets # {} /\ targets \subseteq Agents \ {a}
    /\ MaySend("owner", type)

StartConversation(a, targets, type) ==
    /\ MayStart(a, targets, type)
    /\ \E lapsed \in BOOLEAN :
         \/ /\ conv' = Started(ResultingState(type, FALSE), lapsed)
            /\ log' = <<Said(type, None)>>
            /\ UNCHANGED holds
         \/ \E h \in Holds :
              /\ conv' = Started("active", lapsed)
              /\ log' = <<Marker>>
              /\ holds' = [holds EXCEPT ![h] = MessageHold(a, type, "pending_human")]
         \/ \E h \in Holds :
              /\ conv' = Started(ResultingState(type, FALSE), lapsed)
              /\ log' = <<Marker, Said(type, h)>>
              /\ holds' = [holds EXCEPT ![h] = MessageHold(a, type, "auto_approved")]
    /\ part' = Founded(a, targets)
    /\ via' = [b \in Agents |-> IF b \in targets \cup {a} THEN "founding" ELSE "none"]
    /\ UNCHANGED <<req, reopened>>

-----------------------------------------------------------------------------
(* Handlers that lock the conversation.                                    *)

(* A denial commits, and with it the expiry its load noticed.  Archiving   *)
(* an archived conversation, and expiry met by a denied decision, are the  *)
(* same step.                                                              *)
LockedDenied(a) ==
    /\ part[a].role # "none"
    /\ conv' = InState(conv, Current)
    /\ UNCHANGED <<part, log, holds, req, reopened, via>>

(* post_message, up to the verdict of the risk scorer.                     *)
MayPost(a, type) ==
    /\ part[a].status = "active"
    /\ Open
    /\ MaySend(part[a].role, type)
    /\ Len(log) < MaxLog

(* _all_non_owners_declined, after the sender's own status has been set.   *)
AllDeclined(p) ==
    /\ \E b \in Agents : p[b].role = "member"
    /\ \A b \in Agents : p[b].role = "member" => p[b].status = "declined"

(* A low-risk message is posted and has the effect of its type.            *)
Post(a, type) ==
    /\ MayPost(a, type)
    /\ log' = Append(log, Said(type, None))
    /\ part' = IF type = "decline" THEN [part EXCEPT ![a] = WithStatus(@, "declined")] ELSE part
    /\ conv' = InState(conv, ResultingState(type, AllDeclined(part')))
    /\ UNCHANGED <<holds, req, reopened, via>>

(* _divert_high_risk_message: the message is held for a human ...          *)
PostHeldClosing(a, type, h) ==
    /\ MayPost(a, type)
    /\ holds[h].status = "absent"
    /\ holds' = [holds EXCEPT ![h] = MessageHold(a, type, "pending_human")]
    /\ conv' = InState(conv, ResultingState(type, FALSE))
    /\ UNCHANGED <<part, log, req, reopened, via>>
PostHeld(a, type, h) ==
    /\ MayPost(a, type)
    /\ holds[h].status = "absent"
    /\ holds' = [holds EXCEPT ![h] = MessageHold(a, type, "pending_human")]
    /\ UNCHANGED <<conv, part, log, req, reopened, via>>

(* ... or cleared and posted at once; the effect of its type is not taken. *)
PostCleared(a, type, h) ==
    /\ MayPost(a, type)
    /\ holds[h].status = "absent"
    /\ holds' = [holds EXCEPT ![h] = MessageHold(a, type, "auto_approved")]
    /\ log' = Append(log, Said(type, h))
    /\ UNCHANGED <<conv, part, req, reopened, via>>

(* invite, up to the look at the history.                                  *)
MayInvite(a, b) ==
    /\ part[a].status = "active"
    /\ Open
    /\ part[b].role = "none"

InviteUnguarded(a, b) ==
    /\ MayInvite(a, b)
    /\ part' = [part EXCEPT ![b] = Invited]
    /\ via' = [via EXCEPT ![b] = "direct"]
    /\ UNCHANGED <<conv, log, holds, req, reopened>>
Invite(a, b) ==
    /\ MayInvite(a, b)
    /\ ~HasNoteHistory
    /\ part' = [part EXCEPT ![b] = Invited]
    /\ via' = [via EXCEPT ![b] = "direct"]
    /\ UNCHANGED <<conv, log, holds, req, reopened>>

(* _divert_invite_for_approval: free text may only be shown to a new       *)
(* participant with an approval.                                           *)
InviteHeld(a, b, h) ==
    /\ MayInvite(a, b)
    /\ HasNoteHistory
    /\ holds[h].status = "absent"
    /\ holds' = [holds EXCEPT ![h] = InviteHold(a, b, "pending_human")]
    /\ UNCHANGED <<conv, part, log, req, reopened, via>>

InviteCleared(a, b, h) ==
    /\ MayInvite(a, b)
    /\ HasNoteHistory
    /\ holds[h].status = "absent"
    /\ holds' = [holds EXCEPT ![h] = InviteHold(a, b, "auto_approved")]
    /\ part' = [part EXCEPT ![b] = Invited]
    /\ via' = [via EXCEPT ![b] = h]
    /\ UNCHANGED <<conv, log, req, reopened>>

Archived(c, s) == [c EXCEPT !.state = s, !.archived = TRUE]

ArchiveConversation(a) ==
    /\ part[a].status = "active"
    /\ conv' = Archived(conv, Current)
    /\ UNCHANGED <<part, log, holds, req, reopened, via>>

(* A new deadline is later than the old one and in the future.             *)
Revived(c) == [c EXCEPT !.state = "active", !.lapsed = FALSE]

ExtendConversation(a) ==
    /\ part[a].status = "active"
    /\ ~conv.archived
    /\ Current \in {"active", "expired"}
    /\ conv' = Revived(conv)
    /\ UNCHANGED <<part, log, holds, req, reopened, via>>

(* Owner only; a deadline that has lapsed has to be replaced.              *)
ReopenConversation(a) ==
    /\ part[a].status = "active" /\ part[a].role = "owner"
    /\ ~conv.archived
    /\ Current \in {"completed", "canceled", "expired"}
    /\ conv' = Revived(conv)
    /\ reopened' = Len(log)
    /\ UNCHANGED <<part, log, holds, req, via>>

-----------------------------------------------------------------------------
(* Handlers that load the conversation and the participant without a lock. *)
(* The load decides on its copy what the commit will write.                *)

Pending(pc, a) == [Idle EXCEPT !.pc = pc, !.agent = a, !.expire = Expires]
Touching == [Idle EXCEPT !.pc = "touch", !.expire = TRUE]

(* accept_invite, decline_invite and leave, when the copy allows them.     *)
LoadAccept(r, a) ==
    /\ req[r].pc = "idle"
    /\ part[a].status = "invited"
    /\ ~conv.archived
    /\ Current \notin {"completed", "canceled"}
    /\ req' = [req EXCEPT ![r] = Pending("accept", a)]
    /\ UNCHANGED <<conv, part, log, holds, reopened, via>>

LoadDecline(r, a) ==
    /\ req[r].pc = "idle"
    /\ part[a].status = "invited"
    /\ req' = [req EXCEPT ![r] = Pending("decline", a)]
    /\ UNCHANGED <<conv, part, log, holds, reopened, via>>

LoadLeave(r, a) ==
    /\ req[r].pc = "idle"
    /\ part[a].status = "active"
    /\ req' = [req EXCEPT ![r] = Pending("leave", a)]
    /\ UNCHANGED <<conv, part, log, holds, reopened, via>>

(* rename_conversation, get_conversation and every denial write nothing    *)
(* here but the expiry they noticed.                                       *)
LoadTouch(r, a) ==
    /\ req[r].pc = "idle"
    /\ part[a].role # "none"
    /\ Expires
    /\ req' = [req EXCEPT ![r] = Touching]
    /\ UNCHANGED <<conv, part, log, holds, reopened, via>>

(* The commits.  An UPDATE goes by primary key: it sets what the handler   *)
(* changed on its copy, whatever the row holds by now.  (The session may   *)
(* flush an expiry before its commit and then holds the row's lock until   *)
(* the commit, which only takes interleavings away.)                       *)
Commit(r, status) ==
    /\ conv' = IF req[r].expire THEN InState(conv, "expired") ELSE conv
    /\ part' = IF status = "none" THEN part
               ELSE [part EXCEPT ![req[r].agent] = WithStatus(@, status)]
    /\ req' = [req EXCEPT ![r] = Idle]
    /\ UNCHANGED <<log, holds, reopened, via>>

AcceptInvite(r) == req[r].pc = "accept" /\ Commit(r, "active")
DeclineInvite(r) == req[r].pc = "decline" /\ Commit(r, "declined")
Leave(r) == req[r].pc = "leave" /\ Commit(r, "left")
Touch(r) == req[r].pc = "touch" /\ Commit(r, "none")

-----------------------------------------------------------------------------
(* Approval holds.                                                         *)

HoldExpires(h) == holds[h].status = "pending_human" /\ holds[h].lapsed

OnHold(pc, h) == [Idle EXCEPT !.pc = pc, !.hold = h]
(* The deadline of a settled hold no longer matters.                       *)
Settled(hold, status) == [hold EXCEPT !.status = status, !.lapsed = FALSE]

(* get_hold_status and list_pending_approval_holds notice the expiry on a  *)
(* copy and write it later, when nobody holds the row's lock.              *)
LoadHold(r, h) ==
    /\ req[r].pc = "idle"
    /\ HoldExpires(h)
    /\ req' = [req EXCEPT ![r] = OnHold("expire_hold", h)]
    /\ UNCHANGED <<conv, part, log, holds, reopened, via>>

CommitExpiredHold(r) ==
    /\ req[r].pc = "expire_hold"
    /\ Unlocked(req[r].hold)
    /\ holds' = [holds EXCEPT ![req[r].hold] = Settled(@, "expired")]
    /\ req' = [req EXCEPT ![r] = Idle]
    /\ UNCHANGED <<conv, part, log, reopened, via>>

(* decide_hold and get_hold_conversation_participants lock the hold first; *)
(* an expired one is settled and the call refused.                         *)
LockExpiredHold(h) ==
    /\ Unlocked(h)
    /\ HoldExpires(h)
    /\ holds' = [holds EXCEPT ![h] = Settled(@, "expired")]
    /\ UNCHANGED <<conv, part, log, req, reopened, via>>

DecideHoldUnlocked(r, h) ==
    /\ req[r].pc = "idle"
    /\ holds[h].status = "pending_human" /\ ~holds[h].lapsed
    /\ req' = [req EXCEPT ![r] = OnHold("deciding", h)]
    /\ UNCHANGED <<conv, part, log, holds, reopened, via>>
DecideHold(r, h) ==
    /\ req[r].pc = "idle"
    /\ Unlocked(h)
    /\ holds[h].status = "pending_human" /\ ~holds[h].lapsed
    /\ req' = [req EXCEPT ![r] = OnHold("deciding", h)]
    /\ UNCHANGED <<conv, part, log, holds, reopened, via>>

RejectHold(r) ==
    /\ req[r].pc = "deciding"
    /\ holds' = [holds EXCEPT ![req[r].hold] = Settled(@, "rejected")]
    /\ req' = [req EXCEPT ![r] = Idle]
    /\ UNCHANGED <<conv, part, log, reopened, via>>

(* The conversation is locked and not open, or a recipient no longer takes *)
(* the type, or ownership cannot be looked up: the hold stays undecided.   *)
ApproveDenied(r) ==
    /\ req[r].pc = "deciding"
    /\ conv' = InState(conv, Current)
    /\ req' = [req EXCEPT ![r] = Idle]
    /\ UNCHANGED <<part, log, holds, reopened, via>>

(* The held message is posted and, unlike an auto-approved one, closes the *)
(* conversation if its type does; a held decline leaves its sender active. *)
ApproveMessage(r) ==
    LET h == req[r].hold IN
    /\ req[r].pc = "deciding"
    /\ holds[h].kind = "message"
    /\ Open
    /\ Len(log) < MaxLog
    /\ log' = Append(log, Said(holds[h].type, h))
    /\ holds' = [holds EXCEPT ![h] = Settled(@, "approved")]
    /\ conv' = InState(conv, ResultingState(holds[h].type, FALSE))
    /\ req' = [req EXCEPT ![r] = Idle]
    /\ UNCHANGED <<part, reopened, via>>

ApproveInviteUnchecked(r) ==
    LET h == req[r].hold IN
    /\ req[r].pc = "deciding"
    /\ holds[h].kind = "invite"
    /\ Open
    /\ part' = [part EXCEPT ![holds[h].target] = Invited]
    /\ via' = [via EXCEPT ![holds[h].target] = h]
    /\ holds' = [holds EXCEPT ![h] = Settled(@, "approved")]
    /\ req' = [req EXCEPT ![r] = Idle]
    /\ UNCHANGED <<conv, log, reopened>>
ApproveInvite(r) ==
    LET h == req[r].hold IN
    /\ req[r].pc = "deciding"
    /\ holds[h].kind = "invite"
    /\ Open
    /\ part[holds[h].target].role = "none"
    /\ part' = [part EXCEPT ![holds[h].target] = Invited]
    /\ via' = [via EXCEPT ![holds[h].target] = h]
    /\ holds' = [holds EXCEPT ![h] = Settled(@, "approved")]
    /\ req' = [req EXCEPT ![r] = Idle]
    /\ UNCHANGED <<conv, log, reopened>>

(* The target has come in by another path: the hold is rejected.           *)
ApproveInviteMoot(r) ==
    LET h == req[r].hold IN
    /\ req[r].pc = "deciding"
    /\ holds[h].kind = "invite"
    /\ Open
    /\ part[holds[h].target].role # "none"
    /\ holds' = [holds EXCEPT ![h] = Settled(@, "rejected")]
    /\ req' = [req EXCEPT ![r] = Idle]
    /\ UNCHANGED <<conv, part, log, reopened, via>>

(* The target may no longer be admitted.  The denial commits and gives up  *)
(* both locks; the hold is locked again to reject it, if still undecided.  *)
ApproveInviteInvalid(r) ==
    LET h == req[r].hold IN
    /\ req[r].pc = "deciding"
    /\ holds[h].kind = "invite"
    /\ Open
    /\ part[holds[h].target].role = "none"
    /\ req' = [req EXCEPT ![r] = OnHold("revalidate", h)]
    /\ UNCHANGED <<conv, part, log, holds, reopened, via>>

RejectInvalid(r) ==
    LET h == req[r].hold IN
    /\ req[r].pc = "revalidate"
    /\ Unlocked(h)
    /\ holds' = IF holds[h].status = "pending_human"
                THEN [holds EXCEPT ![h] = Settled(@, "rejected")] ELSE holds
    /\ req' = [req EXCEPT ![r] = Idle]
    /\ UNCHANGED <<conv, part, log, reopened, via>>

-----------------------------------------------------------------------------
(* The environment: deadlines pass, requests die before their commit.      *)

Lapsed(x) == [x EXCEPT !.lapsed = TRUE]

(* (The deadline of a closed conversation matters only to its reopening,   *)
(* which then sets a new one.)                                             *)
Lapse ==
    /\ conv.state = "active"
    /\ conv' = Lapsed(conv)
    /\ UNCHANGED <<part, log, holds, req, reopened, via>>

HoldLapse(h) ==
    /\ holds[h].status = "pending_human"
    /\ holds' = [holds EXCEPT ![h] = Lapsed(@)]
    /\ UNCHANGED <<conv, part, log, req, reopened, via>>

Abort(r) ==
    /\ req[r].pc # "idle"
    /\ req' = [req EXCEPT ![r] = Idle]
    /\ UNCHANGED <<conv, part, log, holds, reopened, via>>

-----------------------------------------------------------------------------
LockedStep(a) ==
    \/ LockedDenied(a) \/ ArchiveConversation(a)
    \/ ExtendConversation(a) \/ ReopenConversation(a)
    \/ \E type \in Types :
         \/ Post(a, type)
         \/ \E h \in Holds : PostHeld(a, type, h) \/ PostCleared(a, type, h)
    \/ \E b \in Agents :
         \/ Invite(a, b)
         \/ \E h \in Holds : InviteHeld(a, b, h) \/ InviteCleared(a, b, h)

LoadStep(r, a) ==
    \/ LoadAccept(r, a) \/ LoadDecline(r, a) \/ LoadLeave(r, a)
    \/ LoadTouch(r, a)

DecideStep(r) ==
    \/ RejectHold(r) \/ ApproveDenied(r) \/ ApproveMessage(r)
    \/ ApproveInvite(r) \/ ApproveInviteMoot(r) \/ ApproveInviteInvalid(r)
    \/ RejectInvalid(r)

Next ==
    \/ \E a \in Agents, targets \in SUBSET Agents, type \in Types :
         StartConversation(a, targets, type)
    \/ \E a \in Agents : LockedStep(a)
    \/ \E r \in Requests :
         \/ \E a \in Agents : LoadStep(r, a)
         \/ AcceptInvite(r) \/ DeclineInvite(r) \/ Leave(r) \/ Touch(r)
         \/ CommitExpiredHold(r)
         \/ DecideStep(r) \/ Abort(r)
         \/ \E h \in Holds : LoadHold(r, h) \/ DecideHold(r, h)
    \/ \E h \in Holds : LockExpiredHold(h) \/ HoldLapse(h)
    \/ Lapse

Spec == Init /\ [][Next]_vars

-----------------------------------------------------------------------------
(* Safety.                                                                 *)

(* The sequence numbers under which a hold's message was posted.           *)
PostedFrom(h) == {i \in 1..Len(log) : log[i].hold = h}

(* A diverted message or invitation takes effect at most once, and when    *)
(* its hold reads pending or rejected it has not, when it reads approved   *)
(* it has (DESIGN.md: "a diversion always produces exactly one of ...").   *)
HoldOutcomeHonest ==
    \A h \in Holds :
        /\ \A i, j \in PostedFrom(h) : i = j
        /\ holds[h].status \in {"absent", "pending_human", "rejected"}
             => PostedFrom(h) = {} /\ \A a \in Agents : via[a] # h
        /\ holds[h].status \in {"approved", "auto_approved"}
             => IF holds[h].kind = "message" THEN PostedFrom(h) # {}
                ELSE via[holds[h].target] = h

(* A conversation reads completed or canceled only because a message of    *)
(* a type that closes it was posted since it was last reopened.            *)
ClosureExplained ==
    /\ conv.state = "completed" =>
         \E i \in reopened + 1..Len(log) : log[i].type \in {"confirm", "task_complete"}
    /\ conv.state = "canceled" =>
         \E i \in reopened + 1..Len(log) :
             log[i].type \in {"decline", "task_decline", "task_cancel"}

(* Nobody was invited past the barrier: an agent that came in after the    *)
(* first free-text message came in through a hold.                         *)
BarrierKept ==
    [][HasNoteHistory =>
         \A a \in Agents : part[a].role = "none" /\ part'[a].role # "none"
             => \E h \in Holds : /\ via'[a] = h
                                 /\ holds'[h].kind = "invite" /\ holds'[h].target = a
                                 /\ holds'[h].status \in {"approved", "auto_approved"}]_vars

(* Archiving is final: nothing is posted to an archived conversation,      *)
(* nobody new comes in and it is not reopened, whatever was loaded, held   *)
(* or invited before.                                                      *)
ArchivedQuiet ==
    [][conv.archived =>
         /\ conv'.archived
         /\ log' = log
         /\ conv'.state = "active" => conv.state = "active"
         /\ \A a \in Agents : part'[a].role = part[a].role]_vars

-----------------------------------------------------------------------------
(* What the repository says of this code and interleavings refute.         *)

(* "This is the only board operation that REVERSES another participant's   *)
(* own explicit terminal decision" (reopen): a completed or canceled       *)
(* conversation changes its state only by being reopened.                  *)
TerminalDecisionStands ==
    [][conv.state \in {"completed", "canceled"} /\ conv'.state # conv.state
         => reopened' = Len(log) /\ conv'.state = "active"]_vars

(* "an invite accepted after archiving would admit a brand new ACTIVE      *)
(* participant ... so accept is blocked".                                  *)
NobodyJoinsArchived ==
    [][conv.archived =>
         \A a \in Agents : part'[a].status = "active" => part[a].status = "active"]_vars

(* "`rejected`/`expired` (content never posts)".                           *)
ExpiredNeverPosts ==
    \A h \in Holds : holds[h].status = "expired" => PostedFrom(h) = {}

(* "confirm -> always transitions to 'completed'": an active conversation  *)
(* has seen no confirm since it was last reopened.                         *)
ConfirmCompletes ==
    conv.state = "active" =>
        \A i \in reopened + 1..Len(log) : log[i].type # "confirm"

(* "decline ... Sets the SENDER's participant status to 'declined'": also  *)
(* when the message was held before it was posted.                         *)
DeclineTakesEffect ==
    [][\A h \in Holds :
          (/\ holds[h].type = "decline" /\ holds[h].status = "pending_human"
           /\ holds'[h].status = "approved")
              => part'[holds[h].sender].status # "active"]_vars
=============================================================================
