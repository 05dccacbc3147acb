------------------------------- MODULE Boundary -------------------------------
(***************************************************************************)
(* Who may be in a conversation and what may be said there unreviewed: the *)
(* ownership rules of service.py (open, invite, and the second look at an  *)
(* invitation when its hold is approved) and BoundaryCrossingScorer.       *)
(*                                                                         *)
(* The rules are checked at different times: pairs at the opening, a newly *)
(* invited agent against a snapshot taken then, a message against the      *)
(* owners of its audience when it is posted.  Meanwhile owners and the     *)
(* is_shared flag move, people leave, and holds wait for days.  A member   *)
(* reads everything said before it came, so what the rules promise is a    *)
(* statement about all pairs of an author and a reader, at any time.       *)
(*                                                                         *)
(* One conversation.  Invitations and posts are one step each: both hold   *)
(* the conversation's row (Board shows what that is for).                  *)
(***************************************************************************)
EXTENDS Integers, FiniteSets

CONSTANTS
    Agents, Owners,
    MaxMoves,       \* bound: changes of an agent's owners or sharing
    MaxMessages,    \* bound: messages that were posted unreviewed
    MaxHolds        \* bound: holds waiting for a decision

ASSUME BoundaryAssumption ==
    /\ IsFiniteSet(Agents) /\ IsFiniteSet(Owners)
    /\ MaxMoves \in Nat /\ MaxMessages \in Nat /\ MaxHolds \in Nat

VARIABLES
    owners,     \* OwnershipClient: {} when there is no verified owner
    shared,     \* OwnershipClient: is_shared
    type,       \* Conversation.type, "none" before it is opened
    opened,     \* the rows are committed (or start_conversation still runs)
    snapshot,   \* Conversation.owner_snapshot
    part,       \* Participant.status
    history,    \* some free-text message was posted
    asked,      \* targets of pending invite holds
    held,       \* pending message holds
    msgs,       \* messages nobody reviewed
    founders,   \* history: the initiator and its targets
    moved,      \* history: agents changed since they were admitted
    moves

conversation == <<type, opened, snapshot, founders>>
vars == <<owners, shared, conversation, part, history, asked, held, msgs, moved, moves>>

Types == {"internal", "asymmetric", "open"}

(* sensitive: of BARRIER_SENSITIVE_TYPES.  excused is history: the agents  *)
(* whose ownership changed after the board looked at it for this message,  *)
(* and the readers it need not have been scored for, because they came     *)
(* later and were approved in front of it, or it is not sensitive.         *)
Message == [author : Agents, sensitive : BOOLEAN, excused : SUBSET Agents]
MessageHold == [author : Agents, sensitive : BOOLEAN]

TypeOK ==
    /\ owners \in [Agents -> SUBSET Owners] /\ shared \in [Agents -> BOOLEAN]
    /\ type \in Types \cup {"none"} /\ opened \in BOOLEAN
    /\ snapshot \in SUBSET Owners
    /\ part \in [Agents -> {"none", "invited", "active", "gone"}]
    /\ history \in BOOLEAN
    /\ asked \subseteq Agents /\ held \subseteq MessageHold
    /\ \A m \in msgs : m \in Message
    /\ founders \subseteq Agents /\ moved \subseteq Agents /\ moves \in 0..MaxMoves

Init ==
    /\ owners \in [Agents -> SUBSET Owners] /\ shared \in [Agents -> BOOLEAN]
    /\ type = "none" /\ opened = FALSE /\ snapshot = {}
    /\ part = [a \in Agents |-> "none"]
    /\ history = FALSE /\ asked = {} /\ held = {} /\ msgs = {}
    /\ founders = {} /\ moved = {} /\ moves = 0

(* A failing lookup denies whatever asked for it, and changes nothing.     *)
Verified(s) == \A a \in s : owners[a] # {}
OwnersOfEach(s) == {owners[a] : a \in s}
OwnersOf(s) == UNION {owners[a] : a \in s}

-----------------------------------------------------------------------------
(* Opening.                                                                *)

MayAssign(a, b) == owners[a] \cap owners[b] # {}

PairwiseAdmitted(ty, s) ==
    IF ty = "internal" THEN \A a, b \in s : owners[a] = owners[b]
    ELSE \A a, b \in s : a = b \/ shared[a] \/ shared[b] \/ MayAssign(a, b)

MayOpen(ty, s) ==
    \/ ty = "open"
    \/ /\ Verified(s)
       /\ ty = "internal" => \A a \in s : ~shared[a]
       /\ PairwiseAdmitted(ty, s)

(* _authorize_conversation_open: nothing is written yet.                   *)
AuthorizeOpen(a, targets, ty) ==
    LET s == {a} \cup targets IN
    /\ type = "none" /\ a \notin targets /\ targets # {}
    /\ MayOpen(ty, s)
    /\ type' = ty /\ founders' = s
    /\ snapshot' = IF ty = "open" THEN {} ELSE OwnersOf(s)
    /\ part' = [b \in Agents |-> CASE b = a -> "active" [] b \in targets -> "invited"
                                   [] OTHER -> "none"]
    /\ moved' = {}
    /\ UNCHANGED <<owners, shared, opened, history, asked, held, msgs, moves>>

-----------------------------------------------------------------------------
(* BoundaryCrossingScorer.score                                            *)

Members == {a \in Agents : part[a] \in {"invited", "active"}}

(* None of these raises RiskScoringInfraError.                             *)
Scorable(a, others, sensitive) ==
    \/ type # "asymmetric"
    \/ \E b \in others : shared[b]
    \/ ~sensitive \/ shared[a]
    \/ Verified(others \cup {a})

HighRiskTypeFirst(a, others, sensitive) ==
    CASE type = "internal"   -> FALSE
      [] type = "open"       -> sensitive
      [] type = "asymmetric" -> /\ sensitive
                                /\ \/ \E b \in others : shared[b]
                                   \/ ~shared[a] /\ ~(OwnersOf(others) \subseteq owners[a])
HighRisk(a, others, sensitive) ==
    CASE type = "internal"   -> FALSE
      [] type = "open"       -> sensitive
      [] type = "asymmetric" -> \/ \E b \in others : shared[b]
                                \/ sensitive /\ ~shared[a] /\ ~(OwnersOf(others) \subseteq owners[a])

(* An internal message relies on what was checked at admission.            *)
Unreviewed(a, sensitive) ==
    [author |-> a, sensitive |-> sensitive, excused |-> IF type = "internal" THEN moved ELSE {}]

RoomForHold == Cardinality(held) + Cardinality(asked) < MaxHolds

(* The message is posted, or diverted to a hold that the auto-approver     *)
(* clears at once or leaves to a human.  review_reason asks for the human. *)
Say(a, others, sensitive, review) ==
    /\ Scorable(a, others, sensitive)
    /\ IF HighRisk(a, others, sensitive) \/ review
       THEN \/ /\ RoomForHold
               /\ held' = held \cup {[author |-> a, sensitive |-> sensitive]}
               /\ UNCHANGED <<msgs, history>>
            \/ /\ ~review
               /\ history' = (history \/ sensitive)
               /\ UNCHANGED <<msgs, held>>
       ELSE /\ Cardinality(msgs) < MaxMessages
            /\ msgs' = msgs \cup {Unreviewed(a, sensitive)}
            /\ history' = (history \/ sensitive)
            /\ UNCHANGED held

(* The opener is scored against live owners, then everything is committed. *)
StartConversation(a, sensitive) ==
    /\ type # "none" /\ ~opened /\ part[a] = "active"
    /\ Say(a, Members \ {a}, sensitive, FALSE)
    /\ opened' = TRUE
    /\ UNCHANGED <<owners, shared, type, snapshot, founders, part, asked, moved, moves>>

PostMessage(a, sensitive) ==
    /\ opened /\ part[a] = "active"
    /\ \E review \in BOOLEAN : Say(a, Members \ {a}, sensitive, review)
    /\ UNCHANGED <<owners, shared, conversation, part, asked, moved, moves>>

-----------------------------------------------------------------------------
(* Coming and going.                                                       *)

(* _authorize_invite_owner_freeze                                          *)
OwnerFrozen(t) ==
    \/ type = "open"
    \/ /\ Verified({t})
       /\ type = "internal" => ~shared[t] /\ owners[t] = snapshot
       /\ type = "asymmetric" => owners[t] \subseteq snapshot

Excuse(a, ms) == {[m EXCEPT !.excused = @ \cup {a}] : m \in ms}

Admit(t) ==
    /\ part' = [part EXCEPT ![t] = "invited"]
    /\ moved' = moved \ {t}
    /\ LET plain == {m \in msgs : ~m.sensitive} IN
       msgs' = Excuse(t, plain) \cup (msgs \ plain)

(* Admitted in front of everything already said.                           *)
AdmitCleared(t) ==
    /\ part' = [part EXCEPT ![t] = "invited"]
    /\ moved' = moved \ {t}
    /\ msgs' = Excuse(t, msgs)

MayInvite(t) ==
    /\ opened /\ part[t] = "none" /\ OwnerFrozen(t)
    /\ \E a \in Agents : part[a] = "active"

(* Free text was said: a human or the auto-approver must agree.            *)
HasNoteHistoryNever == FALSE
HasNoteHistory == history

Invite(t) ==
    /\ MayInvite(t) /\ ~HasNoteHistory
    /\ Admit(t)
    /\ UNCHANGED <<owners, shared, conversation, history, asked, held, moves>>

InviteDiverted(t) ==
    /\ MayInvite(t) /\ HasNoteHistory
    /\ \/ RoomForHold /\ asked' = asked \cup {t} /\ UNCHANGED <<part, moved, msgs>>
       \/ AdmitCleared(t) /\ UNCHANGED asked
    /\ UNCHANGED <<owners, shared, conversation, history, held, moves>>

(* decide_hold looks at the target again.                                  *)
RevalidatedAtInvite(t) == TRUE
Revalidated(t) == OwnerFrozen(t)

ApproveInvite(t) ==
    /\ t \in asked /\ part[t] = "none" /\ Revalidated(t)
    /\ asked' = asked \ {t}
    /\ AdmitCleared(t)
    /\ UNCHANGED <<owners, shared, conversation, history, held, moves>>

(* It came in another way, or no longer qualifies: the hold is rejected.   *)
(* A human may also reject it, and it expires.                             *)
CloseInvite(t) ==
    /\ t \in asked
    /\ asked' = asked \ {t}
    /\ UNCHANGED <<owners, shared, conversation, part, history, held, msgs, moved, moves>>

(* A held message is posted as it is, to whoever is there by then.         *)
ApproveMessage(h) ==
    /\ h \in held
    /\ held' = held \ {h}
    /\ history' = (history \/ h.sensitive)
    /\ UNCHANGED <<owners, shared, conversation, part, asked, msgs, moved, moves>>

RejectMessage(h) ==
    /\ h \in held
    /\ held' = held \ {h}
    /\ UNCHANGED <<owners, shared, conversation, part, history, asked, msgs, moved, moves>>

AcceptInvite(a) ==
    /\ opened /\ part[a] = "invited"
    /\ part' = [part EXCEPT ![a] = "active"]
    /\ UNCHANGED <<owners, shared, conversation, history, asked, held, msgs, moved, moves>>

(* decline_invite, and leave                                               *)
Depart(a) ==
    /\ opened /\ part[a] \in {"invited", "active"}
    /\ part' = [part EXCEPT ![a] = "gone"]
    /\ UNCHANGED <<owners, shared, conversation, history, asked, held, msgs, moved, moves>>

(* An agent's ownership changes under the conversation.                    *)
Move(a) ==
    /\ type # "none" /\ moves < MaxMoves
    /\ moved' = moved \cup {a}
    /\ msgs' = Excuse(a, msgs)
    /\ moves' = moves + 1
    /\ UNCHANGED <<conversation, part, history, asked, held>>

(* write_through_ownership, reconcile_agent_ownership, or another roster.  *)
Reassign(a, os) ==
    /\ os # owners[a] /\ owners' = [owners EXCEPT ![a] = os]
    /\ Move(a) /\ UNCHANGED shared

SetAgentShared(a) ==
    /\ shared' = [shared EXCEPT ![a] = ~@]
    /\ Move(a) /\ UNCHANGED owners

Next ==
    \/ \E a \in Agents :
         \/ \E targets \in SUBSET Agents, ty \in Types : AuthorizeOpen(a, targets, ty)
         \/ \E sensitive \in BOOLEAN : StartConversation(a, sensitive) \/ PostMessage(a, sensitive)
         \/ Invite(a) \/ InviteDiverted(a) \/ ApproveInvite(a) \/ CloseInvite(a)
         \/ AcceptInvite(a) \/ Depart(a)
         \/ SetAgentShared(a) \/ \E os \in SUBSET Owners : Reassign(a, os)
    \/ \E h \in held : ApproveMessage(h) \/ RejectMessage(h)

Spec == Init /\ [][Next]_vars

-----------------------------------------------------------------------------
(* What a reader may see of an author without a review.                    *)
MayRead(b, a) ==
    CASE type = "internal"   -> ~shared[b] /\ owners[b] = owners[a]
      [] type = "asymmetric" -> ~shared[b] /\ (shared[a] \/ owners[b] \subseteq owners[a])
      [] OTHER               -> FALSE

(* DESIGN.md, Axis 2: free text nobody reviewed is readable across an      *)
(* ownership boundary by no member, however it came in and however the     *)
(* conversation got here, unless a human or the auto-approver let it in    *)
(* after the text was there, or an owner moved afterwards (the residual    *)
(* gaps DESIGN.md accepts).                                                *)
NoUnreviewedCrossing ==
    \A m \in msgs : m.sensitive =>
        \A b \in Members \ (m.excused \cup {m.author}) :
            m.author \in m.excused \/ MayRead(b, m.author)

(* "shared-recipient traffic ALWAYS forces boundary-crossing review", of   *)
(* every type, whoever sends it, and although the recipient has only been  *)
(* invited so far.                                                         *)
SharedRecipientReviewed ==
    type = "asymmetric" =>
        \A m \in msgs : \A b \in Members \ (m.excused \cup {m.author}) : ~shared[b]

(* The owner set is frozen: a member whose owners have not moved since it  *)
(* was admitted is within it (of an internal conversation: equal to it,    *)
(* and not shared), whether it founded the conversation, was invited, or   *)
(* waited for an approval.  No founders' pair lacks a common owner merely  *)
(* because somebody else was shared.                                       *)
AdmissionKept ==
    \A a \in Members \ moved :
        /\ type \in {"internal", "asymmetric"} => owners[a] \subseteq snapshot
        /\ type = "internal" => owners[a] = snapshot /\ ~shared[a]
        /\ type = "asymmetric" =>
             \A b \in (founders \cap Members) \ moved :
                a \in founders => a = b \/ shared[a] \/ shared[b] \/ MayAssign(a, b)
=============================================================================
