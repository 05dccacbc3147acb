----------------------------- MODULE BoardProofs -----------------------------
(***************************************************************************)
(* Proofs about Board, for any number of agents, holds and requests and a  *)
(* log of any length: a diverted message or invitation takes effect at     *)
(* most once and its hold says whether it did, a closed conversation was   *)
(* closed by a message, nobody passes the barrier, archiving is final.     *)
(*                                                                         *)
(* HoldOutcomeHonest is not inductive.  A decision is made in two steps,   *)
(* and what happens between them must leave the hold pending: that is what *)
(* the row lock is for (Deciding).  An approved invitation stays the way   *)
(* its target came in because nobody comes in twice (Entered).             *)
(***************************************************************************)
EXTENDS Board, SequenceTheorems, TLAPS

(* Before start_conversation there is nothing.                             *)
Untouched ==
    conv.state = "absent" =>
        /\ ~conv.archived /\ log = <<>> /\ reopened = 0
        /\ \A h \in Holds : holds[h].status = "absent"
        /\ \A a \in Agents : part[a] = NoParticipant /\ via[a] = "none"
        /\ \A r \in Requests : req[r].pc = "idle"

(* A hold holds a message of some type or an invitation of some agent.     *)
Filled ==
    \A h \in Holds :
        /\ holds[h].status # "absent" => holds[h].kind \in {"message", "invite"}
        /\ holds[h].kind = "message" => holds[h].type \in KnownTypes
        /\ holds[h].kind = "invite" => holds[h].target \in Agents

(* What a request carries from its load to its commit.                     *)
Carried ==
    \A r \in Requests :
        /\ req[r].pc \in {"accept", "decline", "leave"} => req[r].agent \in Agents
        /\ req[r].pc \in {"expire_hold", "deciding", "revalidate"} =>
             req[r].hold \in Holds /\ holds[req[r].hold].status # "absent"

(* decide_hold's row lock: the hold stays pending, and has one decider.    *)
Deciding ==
    \A r \in Requests : req[r].pc = "deciding" =>
        /\ holds[req[r].hold].status = "pending_human"
        /\ \A x \in Requests : req[x].pc = "deciding" /\ req[x].hold = req[r].hold => x = r

(* Who came in through a hold is a participant.                            *)
Entered == \A a \in Agents : via[a] \in Holds => part[a].role # "none"

(* A reopening lies in the past.                                           *)
PastReopening == reopened <= Len(log)

IInv ==
    /\ TypeOK /\ Untouched /\ Filled /\ Carried /\ Deciding /\ Entered /\ PastReopening
    /\ HoldOutcomeHonest /\ ClosureExplained

-----------------------------------------------------------------------------
(* What the operators on rows and on request records return.               *)

(* The conversations row.                                                  *)
LEMMA ConversationFacts ==
    ASSUME NEW c \in Conversation, NEW s \in States
    PROVE  /\ InState(c, s) \in Conversation /\ InState(c, s).state = s
           /\ InState(c, s).archived = c.archived
           /\ Archived(c, s) \in Conversation /\ Archived(c, s).state = s
           /\ Archived(c, s).archived = TRUE
           /\ Revived(c) \in Conversation /\ Revived(c).state = "active"
           /\ Revived(c).archived = c.archived
           /\ Lapsed(c) \in Conversation /\ Lapsed(c).state = c.state
           /\ Lapsed(c).archived = c.archived
BY DEF InState, Archived, Revived, Lapsed, Conversation, States

(* A new conversation.                                                     *)
LEMMA StartedFacts ==
    ASSUME NEW s \in States, NEW b \in BOOLEAN
    PROVE  Started(s, b) \in Conversation /\ Started(s, b).state = s /\ Started(s, b).archived = FALSE
BY DEF Started, Conversation

(* A participants row keeps its role when its status changes.              *)
LEMMA ParticipantFacts ==
    /\ NoParticipant \in Participant /\ NoParticipant.role = "none" /\ NoParticipant.status = "none"
    /\ Invited \in Participant /\ Invited.role = "member"
    /\ [NoParticipant EXCEPT !.role = "owner", !.status = "active"] \in Participant
    /\ [NoParticipant EXCEPT !.role = "owner", !.status = "active"].role = "owner"
    /\ \A p \in Participant, s \in {"active", "declined", "left"} :
         WithStatus(p, s) \in Participant /\ WithStatus(p, s).role = p.role
BY DEF NoParticipant, Invited, WithStatus, Participant

(* A message says its type and the hold it comes from.                     *)
LEMMA MessageFacts ==
    ASSUME NEW type \in KnownTypes, NEW h \in Holds \cup {None}
    PROVE  /\ Said(type, h) \in Message /\ Said(type, h).type = type /\ Said(type, h).hold = h
           /\ Marker \in Message /\ Marker.hold = None /\ Marker.type = "conversation_opened"
BY DEF Said, Marker, Message

(* New holds.                                                              *)
LEMMA NewHoldFacts ==
    ASSUME NEW a \in Agents, NEW b \in Agents, NEW type \in KnownTypes,
           NEW s \in {"pending_human", "auto_approved"}
    PROVE  /\ MessageHold(a, type, s) \in ApprovalHold /\ MessageHold(a, type, s).status = s
           /\ MessageHold(a, type, s).kind = "message" /\ MessageHold(a, type, s).type = type
           /\ InviteHold(a, b, s) \in ApprovalHold /\ InviteHold(a, b, s).status = s
           /\ InviteHold(a, b, s).kind = "invite" /\ InviteHold(a, b, s).target = b
           /\ NoHold \in ApprovalHold /\ NoHold.status = "absent" /\ NoHold.kind = "none"
BY DEF MessageHold, InviteHold, NoHold, ApprovalHold, HoldStatuses

(* Settling a hold, and the passing of its deadline, keep what it holds.   *)
LEMMA HoldFacts ==
    ASSUME NEW k \in ApprovalHold, NEW s \in {"approved", "rejected", "expired"}
    PROVE  /\ Settled(k, s) \in ApprovalHold /\ Settled(k, s).status = s
           /\ Settled(k, s).kind = k.kind /\ Settled(k, s).type = k.type
           /\ Settled(k, s).target = k.target
           /\ Lapsed(k) \in ApprovalHold /\ Lapsed(k).status = k.status
           /\ Lapsed(k).kind = k.kind /\ Lapsed(k).type = k.type /\ Lapsed(k).target = k.target
BY DEF Settled, Lapsed, ApprovalHold, HoldStatuses

(* Requests.                                                               *)
LEMMA RequestFacts ==
    /\ Idle \in Request /\ Idle.pc = "idle"
    /\ Touching \in Request /\ Touching.pc = "touch"
    /\ \A h \in Holds, pc \in {"expire_hold", "deciding", "revalidate"} :
         OnHold(pc, h) \in Request /\ OnHold(pc, h).pc = pc /\ OnHold(pc, h).hold = h
    /\ \A a \in Agents, pc \in {"accept", "decline", "leave"} :
         Pending(pc, a) \in Request /\ Pending(pc, a).pc = pc /\ Pending(pc, a).agent = a
<1>1. Expires \in BOOLEAN
  BY DEF Expires
<1>2. Idle \in Request /\ Idle.pc = "idle"
  BY DEF Idle, Request, PCs
<1> QED BY <1>1, <1>2 DEF Idle, Request, PCs, Touching, OnHold, Pending

(* The state a message leads to is explained by its type.                  *)
LEMMA ResultFacts ==
    ASSUME NEW type, NEW d
    PROVE  /\ ResultingState(type, d) \in States \ {"absent", "expired"}
           /\ ResultingState(type, d) = "completed" => type \in {"confirm", "task_complete"}
           /\ ResultingState(type, d) = "canceled" => type \in {"decline", "task_decline", "task_cancel"}
BY DEF ResultingState, States

(* Expiry noticed by a load turns "active" into "expired" and no more.     *)
LEMMA CurrentFacts ==
    ASSUME conv \in Conversation
    PROVE  Current \in States /\ (Current = conv.state \/ (Current = "expired" /\ conv.state = "active"))
BY DEF Current, Expires, Conversation, States

-----------------------------------------------------------------------------
(* Whoever acts acts on a conversation that exists.                        *)
LEMMA Awake ==
    ASSUME IInv,
           \/ \E a \in Agents : part[a].role # "none" \/ part[a].status # "none"
           \/ \E h \in Holds : holds[h].status # "absent"
           \/ \E r \in Requests : req[r].pc # "idle"
    PROVE  conv.state # "absent"
BY ParticipantFacts DEF IInv, Untouched

(* A step that leaves the log, the roles and what the holds say alone.     *)
Calm ==
    /\ conv.state # "absent" /\ conv'.state # "absent"
    /\ log' = log /\ via' = via
    /\ \A a \in Agents : part'[a].role = part[a].role
    /\ \A h \in Holds : /\ holds'[h].status = holds[h].status /\ holds'[h].kind = holds[h].kind
                        /\ holds'[h].type = holds[h].type /\ holds'[h].target = holds[h].target

(* The conversation does not become closed.                                *)
StaysOpen ==
    \/ conv'.state \in {conv.state, "expired"} /\ reopened' = reopened
    \/ conv'.state = "active" /\ reopened' \in {reopened, Len(log)}

(* Every request goes on or ends.                                          *)
EndsOrGoesOn == \A x \in Requests : req'[x] = req[x] \/ req'[x].pc \in {"idle", "touch"}

(* What was posted from a hold depends on the log alone.                   *)
LEMMA PostedSame ==
    ASSUME log' = log, NEW h
    PROVE  PostedFrom(h)' = PostedFrom(h)
BY DEF PostedFrom

(* Requests that go on keep what they carry, and deciders their lock, when *)
(* no decided hold is settled under them.                                  *)
LEMMA RequestsKept ==
    ASSUME IInv, EndsOrGoesOn,
           \A h \in Holds : holds[h].status # "absent" => holds'[h].status # "absent",
           \A x \in Requests : req'[x] = req[x] /\ req[x].pc = "deciding" =>
              holds'[req[x].hold].status = "pending_human"
    PROVE  Carried' /\ Deciding'
BY DEF IInv, EndsOrGoesOn, Carried, Deciding

(* A conversation that does not become closed needs no new explanation.    *)
LEMMA CalmClosure ==
    ASSUME IInv, Calm, StaysOpen
    PROVE  ClosureExplained' /\ PastReopening'
<1>1. log \in Seq(Message) /\ reopened \in Nat /\ Len(log) \in Nat
  BY LenProperties DEF IInv, TypeOK
<1>2. log' = log
  BY DEF Calm
<1>3. PastReopening'
  BY <1>1, <1>2 DEF IInv, PastReopening, StaysOpen
<1>4. ASSUME conv'.state = conv.state, reopened' = reopened PROVE ClosureExplained'
  BY <1>2, <1>4 DEF IInv, ClosureExplained
<1>5. ASSUME conv'.state \in {"active", "expired"} PROVE ClosureExplained'
  BY <1>5 DEF ClosureExplained
<1> QED BY <1>3, <1>4, <1>5 DEF StaysOpen

(* A calm step is left with its requests and its types to show.            *)
LEMMA CalmKeeps ==
    ASSUME IInv, Calm, StaysOpen, TypeOK', Carried', Deciding'
    PROVE  IInv'
<1>1. Untouched' /\ Filled' /\ Entered'
  BY DEF IInv, Calm, Untouched, Filled, Entered
<1>2. \A h : PostedFrom(h)' = PostedFrom(h)
  BY PostedSame DEF Calm
<1>3. HoldOutcomeHonest'
  BY <1>2 DEF IInv, Calm, HoldOutcomeHonest
<1>4. ClosureExplained' /\ PastReopening'
  BY CalmClosure
<1> QED BY <1>1, <1>3, <1>4 DEF IInv

-----------------------------------------------------------------------------
(* Handlers that change the conversations row only.                        *)
LEMMA LockedCalmKeeps ==
    ASSUME IInv,
           \/ Lapse
           \/ \E a \in Agents : \/ LockedDenied(a) \/ ArchiveConversation(a)
                                \/ ExtendConversation(a) \/ ReopenConversation(a)
    PROVE  IInv'
<1>1. TypeOK /\ conv \in Conversation /\ log \in Seq(Message) /\ Len(log) \in Nat
  BY LenProperties DEF IInv, TypeOK
<1>2. UNCHANGED <<part, log, holds, req, via>>
  BY DEF Lapse, LockedDenied, ArchiveConversation, ExtendConversation, ReopenConversation
<1>3. conv.state # "absent"
  <2>1. CASE Lapse
    BY <2>1 DEF Lapse
  <2>2. CASE \E a \in Agents : LockedDenied(a) \/ ArchiveConversation(a) \/ ExtendConversation(a) \/ ReopenConversation(a)
    BY <2>2, Awake DEF LockedDenied, ArchiveConversation, ExtendConversation, ReopenConversation
  <2> QED BY <2>1, <2>2
<1>4. "active" \in States
  BY DEF States
<1>5. conv' \in Conversation /\ conv'.state # "absent" /\ reopened' \in Nat /\ StaysOpen
  <2>1. \A x \in States : /\ InState(conv, x) \in Conversation /\ InState(conv, x).state = x
                          /\ Archived(conv, x) \in Conversation /\ Archived(conv, x).state = x
    BY <1>1, ConversationFacts
  <2>2. /\ Revived(conv) \in Conversation /\ Revived(conv).state = "active"
        /\ Lapsed(conv) \in Conversation /\ Lapsed(conv).state = conv.state
    BY <1>1, <1>4, ConversationFacts
  <2>3. Current \in States /\ Current \in {conv.state, "expired"} /\ Current # "absent"
    BY <1>1, <1>3, CurrentFacts
  <2>4. reopened \in Nat
    BY <1>1 DEF TypeOK
  <2>5. CASE conv' = Revived(conv) /\ reopened' \in {reopened, Len(log)}
    BY <1>1, <2>2, <2>4, <2>5 DEF StaysOpen
  <2>6. CASE reopened' = reopened /\ conv' \in {Lapsed(conv), InState(conv, Current), Archived(conv, Current)}
    BY <1>3, <2>1, <2>2, <2>3, <2>4, <2>6 DEF StaysOpen
  <2> QED BY <2>5, <2>6 DEF Lapse, LockedDenied, ArchiveConversation, ExtendConversation, ReopenConversation
<1>6. TypeOK'
  BY <1>1, <1>2, <1>5 DEF TypeOK
<1>7. Calm
  BY <1>2, <1>3, <1>5 DEF Calm
<1>8. Carried' /\ Deciding'
  BY <1>2 DEF IInv, Carried, Deciding
<1> QED BY <1>5, <1>6, <1>7, <1>8, CalmKeeps

(* Loads without a lock, and requests that die.                            *)
LEMMA LoadKeeps ==
    ASSUME IInv, NEW r \in Requests,
           Abort(r) \/ \E a \in Agents : LoadStep(r, a)
    PROVE  IInv'
<1>1. TypeOK
  BY DEF IInv
<1>2. UNCHANGED <<conv, part, log, holds, reopened, via>>
  BY DEF Abort, LoadStep, LoadAccept, LoadDecline, LoadLeave, LoadTouch
<1>3. conv.state # "absent"
  BY Awake DEF Abort, LoadStep, LoadAccept, LoadDecline, LoadLeave, LoadTouch
<1>4. PICK q \in Request : /\ req' = [req EXCEPT ![r] = q]
                           /\ q.pc \in {"idle", "touch"} \/ (q.pc \in {"accept", "decline", "leave"} /\ q.agent \in Agents)
  BY RequestFacts DEF Abort, LoadStep, LoadAccept, LoadDecline, LoadLeave, LoadTouch
<1>5. TypeOK'
  BY <1>1, <1>2, <1>4 DEF TypeOK
<1>6. Calm /\ StaysOpen
  BY <1>2, <1>3 DEF Calm, StaysOpen
<1>7. \A x \in Requests : x # r => req'[x] = req[x]
  BY <1>1, <1>4 DEF TypeOK
<1>8. req'[r] = q
  BY <1>1, <1>4 DEF TypeOK
<1>9. Carried' /\ Deciding'
  BY <1>2, <1>4, <1>7, <1>8 DEF IInv, Carried, Deciding
<1> QED BY <1>5, <1>6, <1>9, CalmKeeps

(* Looking at a hold, deciding it, and giving up its lock.                 *)
LEMMA HoldLoadKeeps ==
    ASSUME IInv, NEW r \in Requests,
           \/ ApproveInviteInvalid(r)
           \/ \E h \in Holds : LoadHold(r, h) \/ DecideHold(r, h)
    PROVE  IInv'
<1>1. TypeOK
  BY DEF IInv
<1>2. UNCHANGED <<conv, part, log, holds, reopened, via>>
  BY DEF ApproveInviteInvalid, LoadHold, DecideHold
<1>3. PICK h \in Holds, pc \in {"expire_hold", "deciding", "revalidate"} :
        /\ req' = [req EXCEPT ![r] = OnHold(pc, h)]
        /\ holds[h].status = "pending_human"
        /\ pc = "deciding" => Unlocked(h)
  <2>1. CASE ApproveInviteInvalid(r)
    BY <2>1 DEF ApproveInviteInvalid, IInv, Carried, Deciding
  <2>2. CASE \E h \in Holds : LoadHold(r, h) \/ DecideHold(r, h)
    BY <2>2 DEF LoadHold, DecideHold, HoldExpires
  <2> QED BY <2>1, <2>2
<1>4. conv.state # "absent"
  BY <1>3, Awake
<1> DEFINE q == OnHold(pc, h)
<1>5. q \in Request /\ q.pc = pc /\ q.hold = h
  BY RequestFacts
<1> HIDE DEF q
<1>6. TypeOK' /\ req'[r] = q /\ \A x \in Requests : x # r => req'[x] = req[x]
  BY <1>1, <1>2, <1>3, <1>5 DEF TypeOK, q
<1>7. Calm /\ StaysOpen
  BY <1>2, <1>4 DEF Calm, StaysOpen
<1>8. Carried'
  BY <1>2, <1>3, <1>5, <1>6 DEF IInv, Carried
<1>9. Deciding'
  <2> SUFFICES ASSUME NEW x \in Requests, req'[x].pc = "deciding"
               PROVE  /\ holds[req'[x].hold].status = "pending_human"
                      /\ \A y \in Requests : req'[y].pc = "deciding" /\ req'[y].hold = req'[x].hold => y = x
    BY <1>2 DEF Deciding
  <2>1. CASE x = r
    BY <1>3, <1>5, <1>6, <2>1 DEF Unlocked
  <2>2. CASE x # r
    BY <1>3, <1>5, <1>6, <2>2 DEF Unlocked, IInv, Deciding
  <2> QED BY <2>1, <2>2
<1> QED BY <1>6, <1>7, <1>8, <1>9, CalmKeeps

(* Commits of unlocked handlers: a status, and an expiry noticed earlier.  *)
LEMMA CommitKeeps ==
    ASSUME IInv, NEW r \in Requests,
           AcceptInvite(r) \/ DeclineInvite(r) \/ Leave(r) \/ Touch(r) \/ ApproveDenied(r)
    PROVE  IInv'
<1>1. TypeOK /\ conv \in Conversation /\ part \in [Agents -> Participant]
  BY DEF IInv, TypeOK
<1>2. UNCHANGED <<log, holds, reopened, via>> /\ req' = [req EXCEPT ![r] = Idle]
  BY DEF AcceptInvite, DeclineInvite, Leave, Touch, ApproveDenied, Commit
<1>3. conv.state # "absent"
  BY Awake DEF AcceptInvite, DeclineInvite, Leave, Touch, ApproveDenied
<1>4. conv' \in Conversation /\ conv'.state \in {conv.state, "expired"} /\ conv'.state # "absent"
  <2>1. \A x \in States : InState(conv, x) \in Conversation /\ InState(conv, x).state = x
    BY <1>1, ConversationFacts
  <2>2. Current \in States /\ Current \in {conv.state, "expired"} /\ "expired" \in States
    BY <1>1, CurrentFacts DEF States
  <2>3. conv' \in {conv, InState(conv, "expired"), InState(conv, Current)}
    BY DEF AcceptInvite, DeclineInvite, Leave, Touch, ApproveDenied, Commit
  <2> QED BY <1>1, <1>3, <2>1, <2>2, <2>3
<1>5. part' \in [Agents -> Participant] /\ \A a \in Agents : part'[a].role = part[a].role
  <2>1. CASE part' = part
    BY <1>1, <2>1
  <2>2. CASE \E s \in {"active", "declined", "left"} :
               req[r].agent \in Agents /\ part' = [part EXCEPT ![req[r].agent] = WithStatus(@, s)]
    BY <1>1, <2>2, ParticipantFacts
  <2>3. req[r].pc \in {"accept", "decline", "leave"} => req[r].agent \in Agents
    BY DEF IInv, Carried
  <2> QED BY <2>1, <2>2, <2>3 DEF AcceptInvite, DeclineInvite, Leave, Touch, ApproveDenied, Commit
<1>6. /\ req' \in [Requests -> Request] /\ EndsOrGoesOn
  BY <1>1, <1>2, RequestFacts DEF TypeOK, EndsOrGoesOn
<1>7. TypeOK'
  BY <1>1, <1>2, <1>4, <1>5, <1>6 DEF TypeOK
<1>8. Calm /\ StaysOpen
  BY <1>2, <1>3, <1>4, <1>5 DEF Calm, StaysOpen
<1>9. \A x \in Requests : req[x].pc = "deciding" => holds[req[x].hold].status = "pending_human"
  BY DEF IInv, Deciding
<1>10. Carried' /\ Deciding'
  BY <1>2, <1>6, <1>9, RequestsKept
<1> QED BY <1>7, <1>8, <1>10, CalmKeeps

(* A deadline passes.                                                      *)
LEMMA HoldLapseKeeps ==
    ASSUME IInv, NEW h \in Holds, HoldLapse(h)
    PROVE  IInv'
<1>1. TypeOK /\ holds \in [Holds -> ApprovalHold]
  BY DEF IInv, TypeOK
<1>2. /\ UNCHANGED <<conv, part, log, req, reopened, via>>
      /\ holds[h].status = "pending_human" /\ holds' = [holds EXCEPT ![h] = Lapsed(@)]
  BY DEF HoldLapse
<1>3. conv.state # "absent"
  BY <1>2, Awake
<1>4. /\ holds' \in [Holds -> ApprovalHold]
      /\ \A k \in Holds : /\ holds'[k].status = holds[k].status /\ holds'[k].kind = holds[k].kind
                          /\ holds'[k].type = holds[k].type /\ holds'[k].target = holds[k].target
  BY <1>1, <1>2, HoldFacts
<1>5. TypeOK'
  BY <1>1, <1>2, <1>4 DEF TypeOK
<1>6. Calm /\ StaysOpen
  BY <1>2, <1>3, <1>4 DEF Calm, StaysOpen
<1>7. Carried' /\ Deciding'
  BY <1>2, <1>4 DEF IInv, Carried, Deciding
<1> QED BY <1>5, <1>6, <1>7, CalmKeeps

-----------------------------------------------------------------------------
(* A hold is settled without effect: rejected while pending, or overwritten*)
(* with "expired"; nobody else is deciding it.                             *)
LEMMA SettleKeeps ==
    ASSUME IInv, NEW h \in Holds, NEW s \in {"rejected", "expired"},
           holds' = [holds EXCEPT ![h] = Settled(@, s)],
           holds[h].status # "absent", s = "rejected" => holds[h].status = "pending_human",
           UNCHANGED <<conv, part, log, reopened, via>>,
           req' \in [Requests -> Request], EndsOrGoesOn,
           \A x \in Requests : req'[x] = req[x] /\ req[x].pc = "deciding" => req[x].hold # h
    PROVE  IInv'
<1>1. TypeOK /\ holds \in [Holds -> ApprovalHold]
  BY DEF IInv, TypeOK
<1>2. conv.state # "absent"
  BY Awake
<1>3. /\ holds' \in [Holds -> ApprovalHold] /\ holds'[h].status = s
      /\ \A k \in Holds : /\ k # h => holds'[k].status = holds[k].status
                          /\ holds'[k].kind = holds[k].kind
                          /\ holds'[k].type = holds[k].type /\ holds'[k].target = holds[k].target
  BY <1>1, HoldFacts
<1>4. TypeOK'
  BY <1>1, <1>3 DEF TypeOK
<1>5. Untouched' /\ Entered' /\ PastReopening' /\ ClosureExplained'
  BY <1>2 DEF IInv, Untouched, Entered, PastReopening, ClosureExplained
<1>6. Filled'
  BY <1>3 DEF IInv, Filled
<1>7. Carried' /\ Deciding'
  <2>1. \A x \in Requests : req[x].pc = "deciding" =>
           holds[req[x].hold].status = "pending_human" /\ req[x].hold \in Holds
    BY DEF IInv, Deciding, Carried
  <2> QED BY <1>3, <2>1, RequestsKept
<1>8. HoldOutcomeHonest'
  <2>1. \A k : PostedFrom(k)' = PostedFrom(k)
    BY PostedSame
  <2> QED BY <1>3, <2>1 DEF IInv, HoldOutcomeHonest
<1> QED BY <1>4, <1>5, <1>6, <1>7, <1>8 DEF IInv

(* Expiry and rejection of holds.                                          *)
LEMMA HoldSettledKeeps ==
    ASSUME IInv,
           \/ \E h \in Holds : LockExpiredHold(h)
           \/ \E r \in Requests : \/ CommitExpiredHold(r) \/ RejectHold(r)
                                  \/ ApproveInviteMoot(r) \/ RejectInvalid(r)
    PROVE  IInv'
<1>1. TypeOK /\ req \in [Requests -> Request]
  BY DEF IInv, TypeOK
<1>2. ASSUME NEW h \in Holds, LockExpiredHold(h) PROVE IInv'
  <2>1. req' = req /\ req' \in [Requests -> Request] /\ EndsOrGoesOn
    BY <1>1, <1>2 DEF LockExpiredHold, EndsOrGoesOn
  <2> QED BY <1>2, <2>1, SettleKeeps DEF LockExpiredHold, HoldExpires, Unlocked
<1>3. ASSUME NEW r \in Requests, req' = [req EXCEPT ![r] = Idle]
      PROVE  /\ req' \in [Requests -> Request] /\ EndsOrGoesOn
             /\ req'[r].pc = "idle" /\ \A x \in Requests : x # r => req'[x] = req[x]
  BY <1>1, <1>3, RequestFacts DEF EndsOrGoesOn
<1>4. ASSUME NEW r \in Requests, CommitExpiredHold(r) PROVE IInv'
  <2>1. req[r].hold \in Holds /\ holds[req[r].hold].status # "absent"
    BY <1>4 DEF CommitExpiredHold, IInv, Carried
  <2>2. req' \in [Requests -> Request] /\ EndsOrGoesOn
    BY <1>3, <1>4 DEF CommitExpiredHold
  <2> QED BY <1>4, <2>1, <2>2, SettleKeeps DEF CommitExpiredHold, Unlocked
<1>5. ASSUME NEW r \in Requests, RejectHold(r) \/ ApproveInviteMoot(r) PROVE IInv'
  <2>1. /\ req[r].pc = "deciding" /\ req' = [req EXCEPT ![r] = Idle]
        /\ holds' = [holds EXCEPT ![req[r].hold] = Settled(@, "rejected")]
        /\ UNCHANGED <<conv, part, log, reopened, via>>
    BY <1>5 DEF RejectHold, ApproveInviteMoot
  <2>2. /\ req[r].hold \in Holds /\ holds[req[r].hold].status = "pending_human"
        /\ \A x \in Requests : req[x].pc = "deciding" /\ req[x].hold = req[r].hold => x = r
    BY <2>1 DEF IInv, Carried, Deciding
  <2>3. /\ req' \in [Requests -> Request] /\ EndsOrGoesOn
        /\ req'[r].pc = "idle" /\ \A x \in Requests : x # r => req'[x] = req[x]
    BY <1>3, <2>1
  <2>4. \A x \in Requests : req'[x] = req[x] /\ req[x].pc = "deciding" => req[x].hold # req[r].hold
    BY <2>1, <2>2, <2>3
  <2> QED BY <2>1, <2>2, <2>3, <2>4, SettleKeeps
<1>6. ASSUME NEW r \in Requests, RejectInvalid(r) PROVE IInv'
  <2>1. req[r].hold \in Holds /\ holds[req[r].hold].status # "absent"
    BY <1>6 DEF RejectInvalid, IInv, Carried
  <2>2. /\ req' \in [Requests -> Request] /\ EndsOrGoesOn
    BY <1>3, <1>6 DEF RejectInvalid
  <2>3. UNCHANGED <<conv, part, log, reopened, via>>
    BY <1>6 DEF RejectInvalid
  <2>4. CASE holds[req[r].hold].status = "pending_human"
    <3>1. holds' = [holds EXCEPT ![req[r].hold] = Settled(@, "rejected")]
      BY <1>6, <2>4 DEF RejectInvalid
    <3>2. \A x \in Requests : req[x].pc = "deciding" => req[x].hold # req[r].hold
      BY <1>6 DEF RejectInvalid, Unlocked
    <3> QED BY <2>1, <2>2, <2>3, <2>4, <3>1, <3>2, SettleKeeps
  <2>5. CASE holds' = holds
    <3>1. conv.state # "absent"
      BY <2>1, Awake
    <3>2. TypeOK'
      BY <1>1, <2>2, <2>3, <2>5 DEF TypeOK
    <3>3. Calm /\ StaysOpen
      BY <2>3, <2>5, <3>1 DEF Calm, StaysOpen
    <3>4. \A x \in Requests : req[x].pc = "deciding" => holds[req[x].hold].status = "pending_human"
      BY DEF IInv, Deciding
    <3>5. Carried' /\ Deciding'
      BY <2>2, <2>5, <3>4, RequestsKept
    <3> QED BY <3>2, <3>3, <3>5, CalmKeeps
  <2> QED BY <1>6, <2>4, <2>5 DEF RejectInvalid
<1> QED BY <1>2, <1>4, <1>5, <1>6

-----------------------------------------------------------------------------
(* A message is appended: it is the only new one that comes from a hold.   *)
LEMMA PostedAppend ==
    ASSUME log \in Seq(Message), NEW m \in Message, log' = Append(log, m), NEW h
    PROVE  /\ m.hold # h => PostedFrom(h)' = PostedFrom(h)
           /\ m.hold = h => PostedFrom(h)' = PostedFrom(h) \cup {Len(log) + 1}
           /\ log' \in Seq(Message) /\ Len(log') = Len(log) + 1 /\ Len(log) \in Nat
<1>1. /\ log' \in Seq(Message) /\ Len(log') = Len(log) + 1 /\ Len(log) \in Nat
      /\ \A i \in 1..Len(log) : log'[i] = log[i]
      /\ log'[Len(log) + 1] = m
  BY AppendProperties, LenProperties
<1>2. 1..Len(log') = (1..Len(log)) \cup {Len(log) + 1}
  BY <1>1
<1> QED BY <1>1, <1>2 DEF PostedFrom

(* The conversation is closed by the appended message, or as it was.       *)
LEMMA ClosureAppend ==
    ASSUME IInv, NEW m \in Message, log' = Append(log, m), reopened' = reopened,
           \/ conv'.state = conv.state
           \/ /\ conv'.state = "completed" => m.type \in {"confirm", "task_complete"}
              /\ conv'.state = "canceled" => m.type \in {"decline", "task_decline", "task_cancel"}
    PROVE  ClosureExplained' /\ PastReopening'
<1>1. log \in Seq(Message) /\ reopened \in Nat /\ reopened <= Len(log)
  BY DEF IInv, TypeOK, PastReopening
<1>2. /\ log' \in Seq(Message) /\ Len(log') = Len(log) + 1 /\ Len(log) \in Nat
      /\ \A i \in 1..Len(log) : log'[i] = log[i]
      /\ log'[Len(log) + 1] = m
  BY <1>1, AppendProperties, LenProperties
<1>3. PastReopening'
  BY <1>1, <1>2 DEF PastReopening
<1>4. ASSUME conv'.state = conv.state PROVE ClosureExplained'
  <2>1. \A i \in reopened + 1..Len(log) : i \in reopened + 1..Len(log') /\ log'[i] = log[i]
    BY <1>1, <1>2
  <2>2. ClosureExplained
    BY DEF IInv
  <2> QED BY <1>4, <2>1, <2>2 DEF ClosureExplained
<1>5. ASSUME /\ conv'.state = "completed" => m.type \in {"confirm", "task_complete"}
             /\ conv'.state = "canceled" => m.type \in {"decline", "task_decline", "task_cancel"}
      PROVE  ClosureExplained'
  <2>1. Len(log) + 1 \in reopened + 1..Len(log')
    BY <1>1, <1>2
  <2> QED BY <1>2, <1>5, <2>1 DEF ClosureExplained
<1> QED BY <1>3, <1>4, <1>5

(* A hold is made.                                                         *)
LEMMA CreatedKeeps ==
    ASSUME IInv, NEW h \in Holds, holds[h].status = "absent", NEW k \in ApprovalHold,
           holds' = [holds EXCEPT ![h] = k], k.status # "absent", req' = req,
           (k.kind = "message" /\ k.type \in KnownTypes) \/ (k.kind = "invite" /\ k.target \in Agents)
    PROVE  /\ holds' \in [Holds -> ApprovalHold] /\ Filled' /\ Carried' /\ Deciding'
           /\ holds'[h] = k /\ \A j \in Holds : j # h => holds'[j] = holds[j]
<1>1. holds \in [Holds -> ApprovalHold]
  BY DEF IInv, TypeOK
<1>2. /\ holds' \in [Holds -> ApprovalHold]
      /\ holds'[h] = k /\ \A j \in Holds : j # h => holds'[j] = holds[j]
  BY <1>1
<1>3. Filled'
  BY <1>2 DEF IInv, Filled
<1>4. Carried' /\ Deciding'
  BY <1>2 DEF IInv, Carried, Deciding
<1> QED BY <1>2, <1>3, <1>4

(* The effect of a message is one of the conversation's states.            *)
LEMMA ResultState ==
    ASSUME conv \in Conversation, NEW type, NEW d, conv' = InState(conv, ResultingState(type, d))
    PROVE  /\ conv' \in Conversation /\ conv'.state # "absent" /\ conv'.archived = conv.archived
           /\ conv'.state = "completed" => type \in {"confirm", "task_complete"}
           /\ conv'.state = "canceled" => type \in {"decline", "task_decline", "task_cancel"}
<1>1. ResultingState(type, d) \in States
  BY ResultFacts
<1>2. conv' \in Conversation /\ conv'.state = ResultingState(type, d) /\ conv'.archived = conv.archived
  BY <1>1, ConversationFacts
<1> QED BY <1>2, ResultFacts

(* post_message, low risk.                                                 *)
LEMMA PostKeeps ==
    ASSUME IInv, NEW a \in Agents, NEW type \in Types, Post(a, type)
    PROVE  IInv'
<1>1. TypeOK /\ conv \in Conversation /\ part \in [Agents -> Participant] /\ log \in Seq(Message)
  BY DEF IInv, TypeOK
<1>2. type \in KnownTypes
  BY TypesAssumption
<1> DEFINE m == Said(type, None)
<1>3. m \in Message /\ m.type = type /\ m.hold = None
  BY <1>2, MessageFacts
<1> HIDE DEF m
<1>4. /\ log' = Append(log, m) /\ UNCHANGED <<holds, req, reopened, via>>
      /\ part[a].status = "active"
      /\ \E d : conv' = InState(conv, ResultingState(type, d))
  BY DEF Post, MayPost, m
<1>5. part' \in [Agents -> Participant] /\ \A b \in Agents : part'[b].role = part[b].role
  BY <1>1, ParticipantFacts DEF Post
<1>6. /\ conv' \in Conversation /\ conv'.state # "absent"
      /\ conv'.state = "completed" => m.type \in {"confirm", "task_complete"}
      /\ conv'.state = "canceled" => m.type \in {"decline", "task_decline", "task_cancel"}
  BY <1>1, <1>3, <1>4, ResultState
<1>7. ClosureExplained' /\ PastReopening'
  BY <1>3, <1>4, <1>6, ClosureAppend
<1>8. log' \in Seq(Message) /\ \A h \in Holds : PostedFrom(h)' = PostedFrom(h)
  BY <1>1, <1>3, <1>4, PostedAppend, UnsetAssumption
<1>9. TypeOK'
  BY <1>1, <1>4, <1>5, <1>6, <1>8 DEF TypeOK
<1>10. Untouched' /\ Filled' /\ Carried' /\ Deciding' /\ Entered'
  BY <1>4, <1>5, <1>6 DEF IInv, Untouched, Filled, Carried, Deciding, Entered
<1>11. HoldOutcomeHonest'
  BY <1>4, <1>8 DEF IInv, HoldOutcomeHonest
<1> QED BY <1>7, <1>9, <1>10, <1>11 DEF IInv

(* A message or an invitation is held for a human.                         *)
LEMMA HeldKeeps ==
    ASSUME IInv, NEW a \in Agents, NEW h \in Holds,
           \/ \E type \in Types : PostHeld(a, type, h)
           \/ \E b \in Agents : InviteHeld(a, b, h)
    PROVE  IInv'
<1>1. TypeOK
  BY DEF IInv
<1>2. /\ UNCHANGED <<conv, part, log, req, reopened, via>> /\ holds[h].status = "absent"
      /\ part[a].status = "active"
  BY DEF PostHeld, InviteHeld, MayPost, MayInvite
<1>3. PICK k \in ApprovalHold :
        /\ holds' = [holds EXCEPT ![h] = k] /\ k.status = "pending_human"
        /\ (k.kind = "message" /\ k.type \in KnownTypes) \/ (k.kind = "invite" /\ k.target \in Agents)
  <2>1. ASSUME NEW type \in Types, PostHeld(a, type, h)
        PROVE  \E k \in ApprovalHold :
                 /\ holds' = [holds EXCEPT ![h] = k] /\ k.status = "pending_human"
                 /\ k.kind = "message" /\ k.type \in KnownTypes
    <3>1. type \in KnownTypes
      BY TypesAssumption
    <3> DEFINE k == MessageHold(a, type, "pending_human")
    <3>2. k \in ApprovalHold /\ k.status = "pending_human" /\ k.kind = "message" /\ k.type = type
      BY <3>1, NewHoldFacts
    <3>3. holds' = [holds EXCEPT ![h] = k]
      BY <2>1 DEF PostHeld
    <3> HIDE DEF k
    <3> QED BY <3>1, <3>2, <3>3
  <2>2. ASSUME NEW b \in Agents, InviteHeld(a, b, h)
        PROVE  \E k \in ApprovalHold :
                 /\ holds' = [holds EXCEPT ![h] = k] /\ k.status = "pending_human"
                 /\ k.kind = "invite" /\ k.target \in Agents
    <3>1. "note" \in KnownTypes
      BY DEF KnownTypes
    <3> DEFINE k == InviteHold(a, b, "pending_human")
    <3>2. k \in ApprovalHold /\ k.status = "pending_human" /\ k.kind = "invite" /\ k.target = b
      BY <3>1, NewHoldFacts
    <3>3. holds' = [holds EXCEPT ![h] = k]
      BY <2>2 DEF InviteHeld
    <3> HIDE DEF k
    <3> QED BY <3>2, <3>3
  <2> QED BY <2>1, <2>2
<1>4. /\ holds' \in [Holds -> ApprovalHold] /\ Filled' /\ Carried' /\ Deciding'
      /\ holds'[h] = k /\ \A j \in Holds : j # h => holds'[j] = holds[j]
  BY <1>2, <1>3, CreatedKeeps
<1>5. conv.state # "absent"
  BY <1>2, Awake
<1>6. TypeOK'
  BY <1>1, <1>2, <1>4 DEF TypeOK
<1>7. Untouched' /\ Entered' /\ PastReopening' /\ ClosureExplained'
  BY <1>2, <1>5 DEF IInv, Untouched, Entered, PastReopening, ClosureExplained
<1>8. \A j : PostedFrom(j)' = PostedFrom(j)
  BY <1>2, PostedSame
<1>9. HoldOutcomeHonest'
  BY <1>2, <1>3, <1>4, <1>8 DEF IInv, HoldOutcomeHonest
<1> QED BY <1>4, <1>6, <1>7, <1>9 DEF IInv

(* The auto-approver clears a message: it is posted at once.               *)
LEMMA ClearedKeeps ==
    ASSUME IInv, NEW a \in Agents, NEW type \in Types, NEW h \in Holds, PostCleared(a, type, h)
    PROVE  IInv'
<1>1. TypeOK /\ log \in Seq(Message)
  BY DEF IInv, TypeOK
<1>2. type \in KnownTypes
  BY TypesAssumption
<1> DEFINE m == Said(type, h)
           k == MessageHold(a, type, "auto_approved")
<1>3. /\ m \in Message /\ m.type = type /\ m.hold = h
      /\ k \in ApprovalHold /\ k.status = "auto_approved" /\ k.kind = "message" /\ k.type = type
  BY <1>2, MessageFacts, NewHoldFacts
<1> HIDE DEF m, k
<1>4. /\ log' = Append(log, m) /\ UNCHANGED <<conv, part, req, reopened, via>>
      /\ part[a].status = "active" /\ holds[h].status = "absent"
      /\ holds' = [holds EXCEPT ![h] = k]
  BY DEF PostCleared, MayPost, m, k
<1>5. /\ holds' \in [Holds -> ApprovalHold] /\ Filled' /\ Carried' /\ Deciding'
      /\ holds'[h] = k /\ \A j \in Holds : j # h => holds'[j] = holds[j]
  BY <1>2, <1>3, <1>4, CreatedKeeps
<1>6. conv.state # "absent"
  BY <1>4, Awake
<1>7. ClosureExplained' /\ PastReopening'
  BY <1>3, <1>4, ClosureAppend
<1>8. /\ log' \in Seq(Message) /\ \A j \in Holds : j # h => PostedFrom(j)' = PostedFrom(j)
      /\ PostedFrom(h)' = PostedFrom(h) \cup {Len(log) + 1}
  BY <1>1, <1>3, <1>4, PostedAppend
<1>9. TypeOK'
  BY <1>1, <1>4, <1>5, <1>8 DEF TypeOK
<1>10. Untouched' /\ Entered'
  BY <1>4, <1>6 DEF IInv, Untouched, Entered
<1>11. PostedFrom(h) = {}
  BY <1>4 DEF IInv, HoldOutcomeHonest
<1>12. HoldOutcomeHonest'
  BY <1>3, <1>4, <1>5, <1>8, <1>11 DEF IInv, HoldOutcomeHonest
<1> QED BY <1>5, <1>7, <1>9, <1>10, <1>12 DEF IInv

(* An agent comes in once, on record how.                                  *)
LEMMA EntryFacts ==
    ASSUME IInv, NEW b \in Agents, part[b].role = "none",
           NEW v \in Holds \cup {"none", "founding", "direct"},
           part' = [part EXCEPT ![b] = Invited], via' = [via EXCEPT ![b] = v]
    PROVE  /\ part' \in [Agents -> Participant]
           /\ via' \in [Agents -> Holds \cup {"none", "founding", "direct"}]
           /\ via'[b] = v /\ \A c \in Agents : c # b => via'[c] = via[c]
           /\ Entered' /\ via[b] \notin Holds
           /\ part'[b].role # "none" /\ \A c \in Agents : c # b => part'[c] = part[c]
<1>1. /\ part \in [Agents -> Participant]
      /\ via \in [Agents -> Holds \cup {"none", "founding", "direct"}]
  BY DEF IInv, TypeOK
<1>2. /\ part' \in [Agents -> Participant] /\ part'[b].role = "member"
      /\ \A c \in Agents : c # b => part'[c] = part[c]
  BY <1>1, ParticipantFacts
<1>3. /\ via' \in [Agents -> Holds \cup {"none", "founding", "direct"}]
      /\ via'[b] = v /\ \A c \in Agents : c # b => via'[c] = via[c]
  BY <1>1
<1>4. Entered' /\ via[b] \notin Holds
  BY <1>2, <1>3 DEF IInv, Entered
<1> QED BY <1>2, <1>3, <1>4

(* invite without free text in the history.                                *)
LEMMA InviteKeeps ==
    ASSUME IInv, NEW a \in Agents, NEW b \in Agents, Invite(a, b)
    PROVE  IInv'
<1>1. TypeOK
  BY DEF IInv
<1>2. /\ UNCHANGED <<conv, log, holds, req, reopened>> /\ part[a].status = "active"
      /\ part[b].role = "none" /\ part' = [part EXCEPT ![b] = Invited]
      /\ via' = [via EXCEPT ![b] = "direct"]
  BY DEF Invite, MayInvite
<1>3. /\ part' \in [Agents -> Participant]
      /\ via' \in [Agents -> Holds \cup {"none", "founding", "direct"}]
      /\ via'[b] = "direct" /\ \A c \in Agents : c # b => via'[c] = via[c]
      /\ Entered' /\ via[b] \notin Holds
  BY <1>2, EntryFacts
<1>4. conv.state # "absent"
  BY <1>2, Awake
<1>5. TypeOK'
  BY <1>1, <1>2, <1>3 DEF TypeOK
<1>6. Untouched' /\ Filled' /\ Carried' /\ Deciding' /\ PastReopening' /\ ClosureExplained'
  BY <1>2, <1>4 DEF IInv, Untouched, Filled, Carried, Deciding, PastReopening, ClosureExplained
<1>7. \A j : PostedFrom(j)' = PostedFrom(j)
  BY <1>2, PostedSame
<1>8. "direct" \notin Holds
  BY HoldIdAssumption
<1>9. \A c \in Agents : \A j \in Holds : via'[c] = j <=> via[c] = j
  BY <1>3, <1>8
<1>10. HoldOutcomeHonest'
  <2> SUFFICES ASSUME NEW h \in Holds
               PROVE  /\ \A i, j \in PostedFrom(h) : i = j
                      /\ holds[h].status \in {"absent", "pending_human", "rejected"}
                           => PostedFrom(h) = {} /\ \A c \in Agents : via'[c] # h
                      /\ holds[h].status \in {"approved", "auto_approved"}
                           => IF holds[h].kind = "message" THEN PostedFrom(h) # {}
                              ELSE via'[holds[h].target] = h
    BY <1>2, <1>7 DEF HoldOutcomeHonest
  <2>1. /\ \A i, j \in PostedFrom(h) : i = j
        /\ holds[h].status \in {"absent", "pending_human", "rejected"}
             => PostedFrom(h) = {} /\ \A c \in Agents : via[c] # h
        /\ holds[h].status \in {"approved", "auto_approved"}
             => IF holds[h].kind = "message" THEN PostedFrom(h) # {}
                ELSE via[holds[h].target] = h
    BY DEF IInv, HoldOutcomeHonest
  <2>2. holds[h].status \in {"approved", "auto_approved"} /\ holds[h].kind # "message" =>
           holds[h].target \in Agents
    BY DEF IInv, Filled
  <2> QED BY <1>9, <2>1, <2>2
<1> QED BY <1>3, <1>5, <1>6, <1>10 DEF IInv

(* An agent comes in through a hold.                                       *)
LEMMA EntryHonest ==
    ASSUME IInv, NEW h \in Holds, NEW b \in Agents, part[b].role = "none", log' = log,
           part' = [part EXCEPT ![b] = Invited], via' = [via EXCEPT ![b] = h],
           holds[h].status \in {"absent", "pending_human"},
           holds'[h].kind = "invite", holds'[h].target = b,
           holds'[h].status \in {"approved", "auto_approved"},
           \A j \in Holds : j # h => holds'[j] = holds[j]
    PROVE  HoldOutcomeHonest'
<1>1. /\ via'[b] = h /\ \A c \in Agents : c # b => via'[c] = via[c]
      /\ via[b] \notin Holds
  BY EntryFacts
<1>2. \A j : PostedFrom(j)' = PostedFrom(j)
  BY PostedSame
<1> SUFFICES ASSUME NEW x \in Holds
             PROVE  /\ \A i, j \in PostedFrom(x) : i = j
                    /\ holds'[x].status \in {"absent", "pending_human", "rejected"}
                         => PostedFrom(x) = {} /\ \A c \in Agents : via'[c] # x
                    /\ holds'[x].status \in {"approved", "auto_approved"}
                         => IF holds'[x].kind = "message" THEN PostedFrom(x) # {}
                            ELSE via'[holds'[x].target] = x
  BY <1>2 DEF HoldOutcomeHonest
<1>3. /\ \A i, j \in PostedFrom(x) : i = j
      /\ holds[x].status \in {"absent", "pending_human", "rejected"}
           => PostedFrom(x) = {} /\ \A c \in Agents : via[c] # x
      /\ holds[x].status \in {"approved", "auto_approved"}
           => IF holds[x].kind = "message" THEN PostedFrom(x) # {}
              ELSE via[holds[x].target] = x
  BY DEF IInv, HoldOutcomeHonest
<1>4. holds[x].status \in {"approved", "auto_approved"} /\ holds[x].kind # "message" =>
         holds[x].target \in Agents
  BY DEF IInv, Filled
<1>5. CASE x = h
  BY <1>1, <1>3, <1>5
<1>6. CASE x # h
  BY <1>1, <1>3, <1>4, <1>6
<1> QED BY <1>5, <1>6

(* The auto-approver clears an invitation.                                 *)
LEMMA InviteClearedKeeps ==
    ASSUME IInv, NEW a \in Agents, NEW b \in Agents, NEW h \in Holds, InviteCleared(a, b, h)
    PROVE  IInv'
<1>1. TypeOK
  BY DEF IInv
<1> DEFINE k == InviteHold(a, b, "auto_approved")
<1>2. k \in ApprovalHold /\ k.status = "auto_approved" /\ k.kind = "invite" /\ k.target = b
  <2>1. "note" \in KnownTypes
    BY DEF KnownTypes
  <2> QED BY <2>1, NewHoldFacts
<1> HIDE DEF k
<1>3. /\ UNCHANGED <<conv, log, req, reopened>> /\ part[a].status = "active"
      /\ part[b].role = "none" /\ part' = [part EXCEPT ![b] = Invited]
      /\ via' = [via EXCEPT ![b] = h] /\ holds[h].status = "absent"
      /\ holds' = [holds EXCEPT ![h] = k]
  BY DEF InviteCleared, MayInvite, k
<1>4. /\ part' \in [Agents -> Participant]
      /\ via' \in [Agents -> Holds \cup {"none", "founding", "direct"}] /\ Entered'
  BY <1>3, EntryFacts
<1>5. /\ holds' \in [Holds -> ApprovalHold] /\ Filled' /\ Carried' /\ Deciding'
      /\ holds'[h] = k /\ \A j \in Holds : j # h => holds'[j] = holds[j]
  BY <1>2, <1>3, CreatedKeeps
<1>6. HoldOutcomeHonest'
  BY <1>2, <1>3, <1>5, EntryHonest
<1>7. conv.state # "absent"
  BY <1>3, Awake
<1>8. TypeOK'
  BY <1>1, <1>3, <1>4, <1>5 DEF TypeOK
<1>9. Untouched' /\ PastReopening' /\ ClosureExplained'
  BY <1>3, <1>7 DEF IInv, Untouched, PastReopening, ClosureExplained
<1> QED BY <1>4, <1>5, <1>6, <1>8, <1>9 DEF IInv

(* decide_hold approves: its hold was pending, and nobody else decides it. *)
LEMMA ApprovalFacts ==
    ASSUME IInv, NEW r \in Requests, req[r].pc = "deciding", req' = [req EXCEPT ![r] = Idle],
           holds' = [holds EXCEPT ![req[r].hold] = Settled(@, "approved")]
    PROVE  /\ req[r].hold \in Holds /\ holds[req[r].hold].status = "pending_human"
           /\ conv.state # "absent"
           /\ req' \in [Requests -> Request] /\ holds' \in [Holds -> ApprovalHold]
           /\ Filled' /\ Carried' /\ Deciding'
           /\ holds'[req[r].hold].status = "approved"
           /\ holds'[req[r].hold].kind = holds[req[r].hold].kind
           /\ holds'[req[r].hold].target = holds[req[r].hold].target
           /\ \A j \in Holds : j # req[r].hold => holds'[j] = holds[j]
<1> DEFINE h == req[r].hold
<1>1. /\ holds \in [Holds -> ApprovalHold] /\ req \in [Requests -> Request]
  BY DEF IInv, TypeOK
<1>2. /\ h \in Holds /\ holds[h].status = "pending_human"
      /\ \A x \in Requests : req[x].pc = "deciding" /\ req[x].hold = h => x = r
  BY DEF IInv, Carried, Deciding
<1> HIDE DEF h
<1>3. holds' = [holds EXCEPT ![h] = Settled(@, "approved")]
  BY DEF h
<1>4. /\ holds' \in [Holds -> ApprovalHold] /\ holds'[h].status = "approved"
      /\ holds'[h].kind = holds[h].kind /\ holds'[h].target = holds[h].target
      /\ holds'[h].type = holds[h].type
      /\ \A j \in Holds : j # h => holds'[j] = holds[j]
  BY <1>1, <1>2, <1>3, HoldFacts
<1>5. /\ req' \in [Requests -> Request] /\ req'[r].pc = "idle" /\ EndsOrGoesOn
      /\ \A x \in Requests : x # r => req'[x] = req[x]
  BY <1>1, RequestFacts DEF EndsOrGoesOn
<1>6. Filled'
  BY <1>2, <1>4 DEF IInv, Filled
<1>7. Carried' /\ Deciding'
  <2>1. \A x \in Requests : req[x].pc = "deciding" =>
           holds[req[x].hold].status = "pending_human" /\ req[x].hold \in Holds
    BY DEF IInv, Deciding, Carried
  <2>2. \A x \in Requests : req'[x] = req[x] /\ req[x].pc = "deciding" => req[x].hold # h
    BY <1>2, <1>5
  <2> QED BY <1>4, <1>5, <2>1, <2>2, RequestsKept
<1>8. conv.state # "absent"
  BY <1>2, Awake
<1> QED BY <1>2, <1>4, <1>5, <1>6, <1>7, <1>8 DEF h

(* An approved message is posted.                                          *)
LEMMA ApproveMessageKeeps ==
    ASSUME IInv, NEW r \in Requests, ApproveMessage(r)
    PROVE  IInv'
<1>1. /\ TypeOK /\ conv \in Conversation /\ log \in Seq(Message)
      /\ req[r].pc = "deciding" /\ holds[req[r].hold].kind = "message"
  BY DEF IInv, TypeOK, ApproveMessage
<1>2. PICK h \in Holds, type \in KnownTypes : h = req[r].hold /\ type = holds[h].type
  BY <1>1 DEF IInv, Filled, Carried
<1> DEFINE m == Said(type, h)
<1>3. /\ req' = [req EXCEPT ![r] = Idle]
      /\ holds' = [holds EXCEPT ![req[r].hold] = Settled(@, "approved")]
      /\ holds[h].kind = "message" /\ log' = Append(log, m)
      /\ conv' = InState(conv, ResultingState(type, FALSE))
      /\ UNCHANGED <<part, reopened, via>>
  BY <1>2 DEF ApproveMessage
<1>4. /\ holds[h].status = "pending_human" /\ conv.state # "absent"
      /\ req' \in [Requests -> Request] /\ holds' \in [Holds -> ApprovalHold]
      /\ Filled' /\ Carried' /\ Deciding'
      /\ holds'[h].status = "approved" /\ holds'[h].kind = holds[h].kind
      /\ \A j \in Holds : j # h => holds'[j] = holds[j]
  BY <1>1, <1>2, <1>3, ApprovalFacts
<1>0. m \in Message /\ m.hold = h /\ m.type = type
  BY MessageFacts
<1> HIDE DEF m
<1>5. /\ conv' \in Conversation /\ conv'.state # "absent"
      /\ conv'.state = "completed" => m.type \in {"confirm", "task_complete"}
      /\ conv'.state = "canceled" => m.type \in {"decline", "task_decline", "task_cancel"}
  BY <1>0, <1>1, <1>3, ResultState
<1>6. ClosureExplained' /\ PastReopening'
  BY <1>0, <1>3, <1>5, ClosureAppend
<1>7. /\ log' \in Seq(Message) /\ \A j \in Holds : j # h => PostedFrom(j)' = PostedFrom(j)
      /\ PostedFrom(h)' = PostedFrom(h) \cup {Len(log) + 1}
  BY <1>0, <1>1, <1>3, PostedAppend
<1>8. PostedFrom(h) = {}
  BY <1>4 DEF IInv, HoldOutcomeHonest
<1>9. HoldOutcomeHonest'
  <2> SUFFICES ASSUME NEW x \in Holds
               PROVE  /\ \A i, j \in PostedFrom(x)' : i = j
                      /\ holds'[x].status \in {"absent", "pending_human", "rejected"}
                           => PostedFrom(x)' = {} /\ \A c \in Agents : via[c] # x
                      /\ holds'[x].status \in {"approved", "auto_approved"}
                           => IF holds'[x].kind = "message" THEN PostedFrom(x)' # {}
                              ELSE via[holds'[x].target] = x
    BY <1>3 DEF HoldOutcomeHonest
  <2>1. CASE x = h
    BY <1>3, <1>4, <1>7, <1>8, <2>1
  <2>2. CASE x # h
    <3>1. PostedFrom(x)' = PostedFrom(x) /\ holds'[x] = holds[x]
      BY <1>4, <1>7, <2>2
    <3> QED BY <3>1 DEF IInv, HoldOutcomeHonest
  <2> QED BY <2>1, <2>2
<1>10. TypeOK'
  BY <1>1, <1>3, <1>4, <1>5, <1>7 DEF TypeOK
<1>11. Untouched' /\ Entered'
  BY <1>3, <1>5 DEF IInv, Untouched, Entered
<1> QED BY <1>4, <1>6, <1>9, <1>10, <1>11 DEF IInv

(* An approved invitation lets its target in.                              *)
LEMMA ApproveInviteKeeps ==
    ASSUME IInv, NEW r \in Requests, ApproveInvite(r)
    PROVE  IInv'
<1>1. TypeOK /\ req[r].pc = "deciding" /\ holds[req[r].hold].kind = "invite"
  BY DEF IInv, ApproveInvite
<1>2. PICK h \in Holds, b \in Agents : h = req[r].hold /\ b = holds[h].target
  BY <1>1 DEF IInv, Filled, Carried
<1>3. /\ req' = [req EXCEPT ![r] = Idle]
      /\ holds' = [holds EXCEPT ![req[r].hold] = Settled(@, "approved")]
      /\ holds[h].kind = "invite" /\ part[b].role = "none"
      /\ part' = [part EXCEPT ![b] = Invited] /\ via' = [via EXCEPT ![b] = h]
      /\ UNCHANGED <<conv, log, reopened>>
  BY <1>2 DEF ApproveInvite
<1>4. /\ holds[h].status = "pending_human" /\ conv.state # "absent"
      /\ req' \in [Requests -> Request] /\ holds' \in [Holds -> ApprovalHold]
      /\ Filled' /\ Carried' /\ Deciding'
      /\ holds'[h].status = "approved" /\ holds'[h].kind = holds[h].kind /\ holds'[h].target = b
      /\ \A j \in Holds : j # h => holds'[j] = holds[j]
  BY <1>1, <1>2, <1>3, ApprovalFacts
<1>5. /\ part' \in [Agents -> Participant]
      /\ via' \in [Agents -> Holds \cup {"none", "founding", "direct"}] /\ Entered'
  BY <1>3, EntryFacts
<1>6. HoldOutcomeHonest'
  BY <1>3, <1>4, EntryHonest
<1>7. TypeOK'
  BY <1>1, <1>3, <1>4, <1>5 DEF TypeOK
<1>8. Untouched' /\ PastReopening' /\ ClosureExplained'
  BY <1>3, <1>4 DEF IInv, Untouched, PastReopening, ClosureExplained
<1> QED BY <1>4, <1>5, <1>6, <1>7, <1>8 DEF IInv

-----------------------------------------------------------------------------
(* start_conversation: one of its holds, if any, is made, and no other.    *)
LEMMA StartFacts ==
    ASSUME IInv, NEW a \in Agents, NEW targets \in SUBSET Agents, NEW type \in Types,
           StartConversation(a, targets, type)
    PROVE  /\ conv.state = "absent" /\ UNCHANGED <<req, reopened>>
           /\ part' \in [Agents -> Participant]
           /\ via' \in [Agents -> {"founding", "none"}]
           /\ \E b \in BOOLEAN, s \in States :
                /\ conv' = Started(s, b)
                /\ s = "active" \/ \E d : s = ResultingState(type, d)
                /\ \/ log' = <<Said(type, None)>> /\ holds' = holds
                   \/ \E h \in Holds :
                        \/ /\ log' = <<Marker>> /\ s = "active"
                           /\ holds' = [holds EXCEPT ![h] = MessageHold(a, type, "pending_human")]
                        \/ /\ log' = <<Marker, Said(type, h)>>
                           /\ holds' = [holds EXCEPT ![h] = MessageHold(a, type, "auto_approved")]
<1>1. /\ conv.state = "absent" /\ UNCHANGED <<req, reopened>>
      /\ part' = Founded(a, targets)
      /\ via' = [b \in Agents |-> IF b \in targets \cup {a} THEN "founding" ELSE "none"]
  BY DEF StartConversation, MayStart
<1>2. part' \in [Agents -> Participant]
  BY <1>1, ParticipantFacts DEF Founded
<1>3. via' \in [Agents -> {"founding", "none"}]
  BY <1>1
<1>4. ResultingState(type, FALSE) \in States /\ "active" \in States
  BY ResultFacts DEF States
<1> QED BY <1>1, <1>2, <1>3, <1>4 DEF StartConversation

(* start_conversation: posted, held behind the marker, or cleared at once. *)
LEMMA StartKeeps ==
    ASSUME IInv, NEW a \in Agents, NEW targets \in SUBSET Agents, NEW type \in Types,
           StartConversation(a, targets, type)
    PROVE  IInv'
<1>1. TypeOK /\ holds \in [Holds -> ApprovalHold]
  BY DEF IInv, TypeOK
<1>2. /\ conv.state = "absent" /\ UNCHANGED <<req, reopened>>
      /\ part' \in [Agents -> Participant] /\ via' \in [Agents -> {"founding", "none"}]
  BY StartFacts
<1>3. PICK b \in BOOLEAN, s \in States :
        /\ conv' = Started(s, b)
        /\ s = "active" \/ \E d : s = ResultingState(type, d)
        /\ \/ log' = <<Said(type, None)>> /\ holds' = holds
           \/ \E h \in Holds :
                \/ /\ log' = <<Marker>> /\ s = "active"
                   /\ holds' = [holds EXCEPT ![h] = MessageHold(a, type, "pending_human")]
                \/ /\ log' = <<Marker, Said(type, h)>>
                   /\ holds' = [holds EXCEPT ![h] = MessageHold(a, type, "auto_approved")]
  BY StartFacts
<1>4. /\ reopened = 0 /\ \A h \in Holds : holds[h].status = "absent"
      /\ \A r \in Requests : req[r].pc = "idle"
  BY <1>2 DEF IInv, Untouched
<1>5. type \in KnownTypes
  BY TypesAssumption
<1>6. /\ conv' \in Conversation /\ conv'.state = s /\ s # "absent"
      /\ s = "completed" => type \in {"confirm", "task_complete"}
      /\ s = "canceled" => type \in {"decline", "task_decline", "task_cancel"}
  BY <1>3, StartedFacts, ResultFacts
<1>7. Carried' /\ Deciding' /\ Untouched'
  BY <1>2, <1>4, <1>6 DEF Carried, Deciding, Untouched
<1>8. /\ Entered' /\ \A c \in Agents, h \in Holds : via'[c] # h
      /\ via' \in [Agents -> Holds \cup {"none", "founding", "direct"}]
  BY <1>2, HoldIdAssumption DEF Entered
<1>9. CASE log' = <<Said(type, None)>> /\ holds' = holds
  <2> DEFINE m == Said(type, None)
  <2>1. m \in Message /\ m.type = type /\ m.hold = None
    BY <1>5, MessageFacts
  <2> HIDE DEF m
  <2>2. log' = <<m>>
    BY <1>9 DEF m
  <2>3. log' \in Seq(Message) /\ Len(log') = 1 /\ log'[1] = m
    BY <2>1, <2>2
  <2>4. \A h \in Holds : PostedFrom(h)' = {}
    BY <2>1, <2>3, UnsetAssumption DEF PostedFrom
  <2>5. TypeOK'
    BY <1>1, <1>2, <1>6, <1>8, <1>9, <2>3 DEF TypeOK
  <2>6. Filled' /\ HoldOutcomeHonest'
    BY <1>4, <1>8, <1>9, <2>4 DEF IInv, Filled, HoldOutcomeHonest
  <2>7. ClosureExplained' /\ PastReopening'
    BY <1>2, <1>4, <1>6, <2>1, <2>3 DEF ClosureExplained, PastReopening
  <2> QED BY <1>7, <1>8, <2>5, <2>6, <2>7 DEF IInv
<1>10. ASSUME NEW h \in Holds, log' = <<Marker>>, s = "active",
              holds' = [holds EXCEPT ![h] = MessageHold(a, type, "pending_human")]
       PROVE  IInv'
  <2> DEFINE k == MessageHold(a, type, "pending_human")
  <2>1. k \in ApprovalHold /\ k.status = "pending_human" /\ k.kind = "message" /\ k.type = type
    BY <1>5, NewHoldFacts
  <2>2. Marker \in Message /\ Marker.hold = None
    BY <1>5, MessageFacts
  <2> HIDE DEF k
  <2>3. /\ holds' \in [Holds -> ApprovalHold] /\ Filled'
        /\ holds'[h] = k /\ \A j \in Holds : j # h => holds'[j] = holds[j]
    BY <1>2, <1>4, <1>5, <1>10, <2>1, CreatedKeeps DEF k
  <2>4. log' \in Seq(Message) /\ Len(log') = 1 /\ log'[1] = Marker
    BY <1>10, <2>2
  <2>5. \A j \in Holds : PostedFrom(j)' = {}
    BY <2>2, <2>4, UnsetAssumption DEF PostedFrom
  <2>6. TypeOK'
    BY <1>1, <1>2, <1>6, <1>8, <2>3, <2>4 DEF TypeOK
  <2>7. HoldOutcomeHonest'
    BY <1>4, <1>8, <2>1, <2>3, <2>5 DEF HoldOutcomeHonest
  <2>8. ClosureExplained' /\ PastReopening'
    BY <1>2, <1>4, <1>6, <1>10, <2>4 DEF ClosureExplained, PastReopening
  <2> QED BY <1>7, <1>8, <2>3, <2>6, <2>7, <2>8 DEF IInv
<1>11. ASSUME NEW h \in Holds, log' = <<Marker, Said(type, h)>>,
              holds' = [holds EXCEPT ![h] = MessageHold(a, type, "auto_approved")]
       PROVE  IInv'
  <2> DEFINE k == MessageHold(a, type, "auto_approved")
             m == Said(type, h)
  <2>1. /\ k \in ApprovalHold /\ k.status = "auto_approved" /\ k.kind = "message" /\ k.type = type
        /\ m \in Message /\ m.type = type /\ m.hold = h
        /\ Marker \in Message /\ Marker.hold = None
    BY <1>5, NewHoldFacts, MessageFacts
  <2> HIDE DEF k, m
  <2>2. log' = <<Marker, m>> /\ holds' = [holds EXCEPT ![h] = k]
    BY <1>11 DEF k, m
  <2>3. /\ holds' \in [Holds -> ApprovalHold] /\ Filled'
        /\ holds'[h] = k /\ \A j \in Holds : j # h => holds'[j] = holds[j]
    BY <1>2, <1>4, <1>5, <2>1, <2>2, CreatedKeeps
  <2>4. log' \in Seq(Message) /\ Len(log') = 2 /\ log'[1] = Marker /\ log'[2] = m
    BY <2>1, <2>2
  <2>5. PostedFrom(h)' = {2} /\ \A j \in Holds : j # h => PostedFrom(j)' = {}
    BY <2>1, <2>4, UnsetAssumption DEF PostedFrom
  <2>6. TypeOK'
    BY <1>1, <1>2, <1>6, <1>8, <2>3, <2>4 DEF TypeOK
  <2>7. HoldOutcomeHonest'
    BY <1>4, <1>8, <2>1, <2>3, <2>5 DEF HoldOutcomeHonest
  <2>8. ClosureExplained' /\ PastReopening'
    BY <1>2, <1>4, <1>6, <2>1, <2>4 DEF ClosureExplained, PastReopening
  <2> QED BY <1>7, <1>8, <2>3, <2>6, <2>7, <2>8 DEF IInv
<1> QED BY <1>3, <1>9, <1>10, <1>11

-----------------------------------------------------------------------------
(* Before anything has happened.                                           *)
LEMMA InitHolds == Init => IInv
<1> SUFFICES ASSUME Init PROVE IInv
  OBVIOUS
<1>1. conv \in Conversation /\ conv.state = "absent" /\ ~conv.archived
  BY DEF Init, Conversation, States
<1>2. /\ part \in [Agents -> Participant] /\ \A a \in Agents : part[a] = NoParticipant
      /\ via \in [Agents -> Holds \cup {"none", "founding", "direct"}]
      /\ \A a \in Agents : via[a] = "none"
  BY ParticipantFacts DEF Init
<1>3. log \in Seq(Message) /\ Len(log) = 0 /\ log = <<>> /\ reopened = 0
  BY DEF Init
<1>4. /\ holds \in [Holds -> ApprovalHold]
      /\ \A h \in Holds : holds[h].status = "absent" /\ holds[h].kind = "none"
  BY DEF Init, NoHold, ApprovalHold, HoldStatuses
<1>5. req \in [Requests -> Request] /\ \A r \in Requests : req[r].pc = "idle"
  BY RequestFacts DEF Init
<1>6. TypeOK
  BY <1>1, <1>2, <1>3, <1>4, <1>5 DEF TypeOK
<1>7. Untouched /\ Filled /\ Carried /\ Deciding /\ PastReopening /\ ClosureExplained
  BY <1>1, <1>2, <1>3, <1>4, <1>5 DEF Untouched, Filled, Carried, Deciding, PastReopening, ClosureExplained
<1>8. Entered /\ HoldOutcomeHonest
  <2>1. \A h : PostedFrom(h) = {}
    BY <1>3 DEF PostedFrom
  <2> QED BY <1>2, <1>4, <2>1, HoldIdAssumption DEF Entered, HoldOutcomeHonest
<1> QED BY <1>6, <1>7, <1>8 DEF IInv

(* A step that changes nothing.                                            *)
LEMMA StutterKeeps == ASSUME IInv, UNCHANGED vars PROVE IInv'
<1>1. UNCHANGED <<conv, part, log, holds, req, reopened, via>>
  BY DEF vars
<1>2. TypeOK' /\ Untouched' /\ Filled' /\ Carried' /\ Deciding' /\ Entered' /\ PastReopening' /\ ClosureExplained'
  BY <1>1 DEF IInv, TypeOK, Untouched, Filled, Carried, Deciding, Entered, PastReopening, ClosureExplained
<1>3. HoldOutcomeHonest'
  <2>1. \A h : PostedFrom(h)' = PostedFrom(h)
    BY <1>1, PostedSame
  <2> QED BY <1>1, <2>1 DEF IInv, HoldOutcomeHonest
<1> QED BY <1>2, <1>3 DEF IInv

(* Every step keeps the invariant.                                         *)
LEMMA NextKeeps == IInv /\ [Next]_vars => IInv'
<1> SUFFICES ASSUME IInv, [Next]_vars PROVE IInv'
  OBVIOUS
<1>1. CASE UNCHANGED vars
  BY <1>1, StutterKeeps
<1>2. ASSUME NEW a \in Agents, NEW targets \in SUBSET Agents, NEW type \in Types,
             StartConversation(a, targets, type)
      PROVE  IInv'
  BY <1>2, StartKeeps
<1>3. ASSUME NEW a \in Agents, LockedStep(a) PROVE IInv'
  <2>1. CASE LockedDenied(a) \/ ArchiveConversation(a) \/ ExtendConversation(a) \/ ReopenConversation(a)
    BY <2>1, LockedCalmKeeps
  <2>2. CASE \E type \in Types : Post(a, type)
    BY <2>2, PostKeeps
  <2>3. CASE \E h \in Holds : \/ \E type \in Types : PostHeld(a, type, h)
                              \/ \E b \in Agents : InviteHeld(a, b, h)
    BY <2>3, HeldKeeps
  <2>4. CASE \E type \in Types, h \in Holds : PostCleared(a, type, h)
    BY <2>4, ClearedKeeps
  <2>5. CASE \E b \in Agents : Invite(a, b)
    BY <2>5, InviteKeeps
  <2>6. CASE \E b \in Agents, h \in Holds : InviteCleared(a, b, h)
    BY <2>6, InviteClearedKeeps
  <2> QED BY <1>3, <2>1, <2>2, <2>3, <2>4, <2>5, <2>6 DEF LockedStep
<1>4. ASSUME NEW r \in Requests, Abort(r) \/ \E a \in Agents : LoadStep(r, a) PROVE IInv'
  BY <1>4, LoadKeeps
<1>5. ASSUME NEW r \in Requests,
             AcceptInvite(r) \/ DeclineInvite(r) \/ Leave(r) \/ Touch(r) \/ ApproveDenied(r)
      PROVE  IInv'
  BY <1>5, CommitKeeps
<1>6. ASSUME NEW r \in Requests,
             ApproveInviteInvalid(r) \/ \E h \in Holds : LoadHold(r, h) \/ DecideHold(r, h)
      PROVE  IInv'
  BY <1>6, HoldLoadKeeps
<1>7. ASSUME NEW r \in Requests,
             CommitExpiredHold(r) \/ RejectHold(r) \/ ApproveInviteMoot(r) \/ RejectInvalid(r)
      PROVE  IInv'
  BY <1>7, HoldSettledKeeps
<1>8. ASSUME NEW r \in Requests, ApproveMessage(r) PROVE IInv'
  BY <1>8, ApproveMessageKeeps
<1>9. ASSUME NEW r \in Requests, ApproveInvite(r) PROVE IInv'
  BY <1>9, ApproveInviteKeeps
<1>10. ASSUME NEW h \in Holds, LockExpiredHold(h) PROVE IInv'
  BY <1>10, HoldSettledKeeps
<1>11. ASSUME NEW h \in Holds, HoldLapse(h) PROVE IInv'
  BY <1>11, HoldLapseKeeps
<1>12. CASE Lapse
  BY <1>12, LockedCalmKeeps
<1> QED BY <1>1, <1>2, <1>3, <1>4, <1>5, <1>6, <1>7, <1>8, <1>9, <1>10, <1>11, <1>12 DEF Next, DecideStep

(* The invariant holds throughout.                                         *)
LEMMA Inductive == Spec => []IInv
BY InitHolds, NextKeeps, PTL DEF Spec

-----------------------------------------------------------------------------
(* Every row and every request record has its type in every state.         *)
THEOREM TypeCorrect == Spec => []TypeOK
<1>1. IInv => TypeOK
  BY DEF IInv
<1> QED BY <1>1, Inductive, PTL

(* decide_hold, _divert_high_risk_message, _divert_invite_for_approval: a  *)
(* hold's status tells whether its message was posted, or its target let   *)
(* in, and that happens at most once, whoever decides it, reads it, lets   *)
(* it lapse or dies half way.                                              *)
THEOREM HoldsHonest == Spec => []HoldOutcomeHonest
<1>1. IInv => HoldOutcomeHonest
  BY DEF IInv
<1> QED BY <1>1, Inductive, PTL

(* post_message, decide_hold, reopen_conversation: a conversation that     *)
(* reads completed or canceled was closed by a message posted since it was *)
(* last reopened, although stale copies are written back to its row.       *)
THEOREM ClosuresExplained == Spec => []ClosureExplained
<1>1. IInv => ClosureExplained
  BY DEF IInv
<1> QED BY <1>1, Inductive, PTL

-----------------------------------------------------------------------------
(* Steps that bring somebody in.                                           *)
Admits ==
    \/ \E a \in Agents, targets \in SUBSET Agents, type \in Types :
         StartConversation(a, targets, type)
    \/ \E a, b \in Agents : Invite(a, b)
    \/ \E a, b \in Agents, h \in Holds : InviteCleared(a, b, h)
    \/ \E r \in Requests : ApproveInvite(r)

(* The commits of unlocked handlers leave the roles alone and write        *)
(* nothing to the conversation but an expiry.                              *)
LEMMA CommitRoles ==
    ASSUME IInv, NEW r \in Requests,
           AcceptInvite(r) \/ DeclineInvite(r) \/ Leave(r) \/ Touch(r)
    PROVE  /\ \A a \in Agents : part'[a].role = part[a].role
           /\ conv' \in {conv, InState(conv, "expired")} /\ log' = log
<1>1. part \in [Agents -> Participant]
  BY DEF IInv, TypeOK
<1>2. /\ conv' \in {conv, InState(conv, "expired")} /\ log' = log
      /\ \/ part' = part
         \/ /\ req[r].agent \in Agents
            /\ \E s \in {"active", "declined", "left"} :
                 part' = [part EXCEPT ![req[r].agent] = WithStatus(@, s)]
  BY DEF IInv, Carried, AcceptInvite, DeclineInvite, Leave, Touch, Commit
<1>3. CASE part' = part
  BY <1>2, <1>3
<1>4. ASSUME NEW s \in {"active", "declined", "left"},
             part' = [part EXCEPT ![req[r].agent] = WithStatus(@, s)]
      PROVE  \A a \in Agents : part'[a].role = part[a].role
  BY <1>1, <1>4, ParticipantFacts
<1> QED BY <1>2, <1>3, <1>4

(* A posted message, a decline included, leaves the roles alone.           *)
LEMMA PostRoles ==
    ASSUME IInv, NEW a \in Agents, NEW type \in Types, Post(a, type)
    PROVE  \A b \in Agents : part'[b].role = part[b].role
<1>1. part \in [Agents -> Participant]
  BY DEF IInv, TypeOK
<1>2. part' = part \/ part' = [part EXCEPT ![a] = WithStatus(@, "declined")]
  BY DEF Post
<1> QED BY <1>1, <1>2, ParticipantFacts

(* Nobody comes in but by being admitted.                                  *)
LEMMA RolesKept ==
    ASSUME IInv, Next
    PROVE  Admits \/ \A a \in Agents : part'[a].role = part[a].role
<1> SUFFICES ASSUME ~Admits PROVE \A a \in Agents : part'[a].role = part[a].role
  OBVIOUS
<1>1. ASSUME NEW a \in Agents, LockedStep(a)
      PROVE  \A b \in Agents : part'[b].role = part[b].role
  <2>1. part' = part \/ \E type \in Types : Post(a, type)
    BY <1>1 DEF Admits, LockedStep, LockedDenied, ArchiveConversation, ExtendConversation,
               ReopenConversation, PostHeld, PostCleared, InviteHeld
  <2> QED BY <2>1, PostRoles
<1>2. ASSUME NEW r \in Requests, AcceptInvite(r) \/ DeclineInvite(r) \/ Leave(r) \/ Touch(r)
      PROVE  \A b \in Agents : part'[b].role = part[b].role
  BY <1>2, CommitRoles
<1>3. ASSUME NEW r \in Requests,
             \/ \E a \in Agents : LoadStep(r, a)
             \/ CommitExpiredHold(r) \/ DecideStep(r) \/ Abort(r)
             \/ \E h \in Holds : LoadHold(r, h) \/ DecideHold(r, h)
      PROVE  part' = part
  BY <1>3 DEF Admits, LoadStep, LoadAccept, LoadDecline, LoadLeave, LoadTouch, CommitExpiredHold,
             DecideStep, RejectHold, ApproveDenied, ApproveMessage, ApproveInviteMoot,
             ApproveInviteInvalid, RejectInvalid, Abort, LoadHold, DecideHold
<1>4. ASSUME Lapse \/ \E h \in Holds : LockExpiredHold(h) \/ HoldLapse(h)
      PROVE  part' = part
  BY <1>4 DEF Lapse, LockExpiredHold, HoldLapse
<1> QED BY <1>1, <1>2, <1>3, <1>4 DEF Next, Admits

(* Who is admitted past free text is admitted by a hold that says so.      *)
LEMMA AdmittedByHold ==
    ASSUME IInv, Admits, HasNoteHistory,
           NEW c \in Agents, part[c].role = "none", part'[c].role # "none"
    PROVE  \E h \in Holds : /\ via'[c] = h
                            /\ holds'[h].kind = "invite" /\ holds'[h].target = c
                            /\ holds'[h].status \in {"approved", "auto_approved"}
<1>1. TypeOK /\ part \in [Agents -> Participant] /\ holds \in [Holds -> ApprovalHold]
      /\ via \in [Agents -> Holds \cup {"none", "founding", "direct"}]
  BY DEF IInv, TypeOK
<1>2. ASSUME NEW a \in Agents, NEW targets \in SUBSET Agents, NEW type \in Types,
             StartConversation(a, targets, type)
      PROVE  FALSE
  BY <1>2 DEF IInv, Untouched, StartConversation, MayStart, HasNoteHistory
<1>3. ASSUME NEW a \in Agents, NEW b \in Agents, Invite(a, b) PROVE FALSE
  BY <1>3 DEF Invite
<1>4. ASSUME NEW a \in Agents, NEW b \in Agents, NEW h \in Holds, InviteCleared(a, b, h)
      PROVE  /\ via'[c] = h
             /\ holds'[h].kind = "invite" /\ holds'[h].target = c
             /\ holds'[h].status \in {"approved", "auto_approved"}
  <2>1. /\ part' = [part EXCEPT ![b] = Invited] /\ via' = [via EXCEPT ![b] = h]
        /\ holds' = [holds EXCEPT ![h] = InviteHold(a, b, "auto_approved")]
    BY <1>4 DEF InviteCleared
  <2>2. c = b
    BY <1>1, <2>1
  <2>3. "note" \in KnownTypes
    BY DEF KnownTypes
  <2> QED BY <1>1, <2>1, <2>2, <2>3, NewHoldFacts
<1>5. ASSUME NEW r \in Requests, ApproveInvite(r)
      PROVE  \E h \in Holds : /\ via'[c] = h
                              /\ holds'[h].kind = "invite" /\ holds'[h].target = c
                              /\ holds'[h].status \in {"approved", "auto_approved"}
  <2>1. req[r].pc = "deciding" /\ holds[req[r].hold].kind = "invite"
    BY <1>5 DEF ApproveInvite
  <2>2. PICK h \in Holds, b \in Agents : h = req[r].hold /\ b = holds[h].target
    BY <2>1 DEF IInv, Filled, Carried
  <2>3. /\ part' = [part EXCEPT ![b] = Invited] /\ via' = [via EXCEPT ![b] = h]
        /\ holds' = [holds EXCEPT ![h] = Settled(@, "approved")]
    BY <1>5, <2>2 DEF ApproveInvite
  <2>4. c = b
    BY <1>1, <2>3
  <2> QED BY <1>1, <2>1, <2>2, <2>3, <2>4, HoldFacts
<1> QED BY <1>2, <1>3, <1>4, <1>5 DEF Admits

(* invite, _divert_invite_for_approval, decide_hold: once free text has    *)
(* been posted, an agent becomes a participant only through an invite hold *)
(* naming it that a human or the auto-approver has approved.               *)
THEOREM BarrierProved == Spec => BarrierKept
<1> DEFINE A == HasNoteHistory =>
         \A a \in Agents : part[a].role = "none" /\ part'[a].role # "none"
             => \E h \in Holds : /\ via'[a] = h
                                 /\ holds'[h].kind = "invite" /\ holds'[h].target = a
                                 /\ holds'[h].status \in {"approved", "auto_approved"}
<1>1. IInv /\ [Next]_vars => [A]_vars
  <2> SUFFICES ASSUME IInv, Next PROVE A
    OBVIOUS
  <2> QED BY RolesKept, AdmittedByHold
<1> QED BY <1>1, Inductive, PTL DEF Spec, BarrierKept

-----------------------------------------------------------------------------
(* On an archived conversation every handler that posts, revives or admits *)
(* refuses; what is left writes an expiry or nothing.                      *)
LEMMA ArchivedStep ==
    ASSUME IInv, Next, conv.archived
    PROVE  /\ ~Admits /\ log' = log
           /\ \/ conv' \in {conv, InState(conv, "expired"), Lapsed(conv)}
              \/ conv' \in {InState(conv, Current), Archived(conv, Current)}
<1>1. conv.state # "absent"
  BY DEF IInv, Untouched
<1>2. ~Open
  BY DEF Open
<1>3. ~Admits
  BY <1>1, <1>2 DEF Admits, StartConversation, MayStart, Invite, InviteCleared, MayInvite,
                    ApproveInvite
<1>4. ASSUME NEW a \in Agents, LockedStep(a)
      PROVE  log' = log /\ conv' \in {conv, InState(conv, Current), Archived(conv, Current)}
  BY <1>2, <1>3, <1>4 DEF Admits, LockedStep, LockedDenied, ArchiveConversation,
      ExtendConversation, ReopenConversation, Post, PostHeld, PostCleared, MayPost, InviteHeld
<1>5. ASSUME NEW r \in Requests, AcceptInvite(r) \/ DeclineInvite(r) \/ Leave(r) \/ Touch(r)
      PROVE  log' = log /\ conv' \in {conv, InState(conv, "expired")}
  BY <1>5, CommitRoles
<1>6. ASSUME NEW r \in Requests,
             \/ \E a \in Agents : LoadStep(r, a)
             \/ CommitExpiredHold(r) \/ DecideStep(r) \/ Abort(r)
             \/ \E h \in Holds : LoadHold(r, h) \/ DecideHold(r, h)
      PROVE  log' = log /\ conv' \in {conv, InState(conv, Current)}
  BY <1>2, <1>3, <1>6 DEF Admits, LoadStep, LoadAccept, LoadDecline, LoadLeave, LoadTouch,
      CommitExpiredHold, DecideStep, RejectHold, ApproveDenied, ApproveMessage,
      ApproveInviteMoot, ApproveInviteInvalid, RejectInvalid, Abort, LoadHold, DecideHold
<1>7. ASSUME Lapse \/ \E h \in Holds : LockExpiredHold(h) \/ HoldLapse(h)
      PROVE  log' = log /\ conv' \in {conv, Lapsed(conv)}
  BY <1>7 DEF Lapse, LockExpiredHold, HoldLapse
<1> QED BY <1>3, <1>4, <1>5, <1>6, <1>7 DEF Next, Admits

(* archive_conversation is final: nothing that was loaded, held or invited *)
(* before makes an archived conversation take a message, a participant or  *)
(* a second life.                                                          *)
THEOREM ArchivedForGood == Spec => ArchivedQuiet
<1> DEFINE A == conv.archived =>
         /\ conv'.archived
         /\ log' = log
         /\ conv'.state = "active" => conv.state = "active"
         /\ \A a \in Agents : part'[a].role = part[a].role
<1>1. IInv /\ [Next]_vars => [A]_vars
  <2> SUFFICES ASSUME IInv, Next, conv.archived PROVE A
    OBVIOUS
  <2>1. /\ ~Admits /\ log' = log
        /\ \/ conv' \in {conv, InState(conv, "expired"), Lapsed(conv)}
           \/ conv' \in {InState(conv, Current), Archived(conv, Current)}
    BY ArchivedStep
  <2>2. \A a \in Agents : part'[a].role = part[a].role
    BY <2>1, RolesKept
  <2>3. conv \in Conversation /\ "expired" \in States /\ Current \in States
        /\ Current \in {conv.state, "expired"}
    BY CurrentFacts DEF IInv, TypeOK, States
  <2>4. \A x \in States :
          /\ InState(conv, x).state = x /\ InState(conv, x).archived = conv.archived
          /\ Archived(conv, x).state = x /\ Archived(conv, x).archived = TRUE
          /\ Lapsed(conv).state = conv.state /\ Lapsed(conv).archived = conv.archived
    BY <2>3, ConversationFacts
  <2>5. conv'.state = "active" => conv.state = "active"
    BY <2>1, <2>3, <2>4
  <2>6. conv'.archived = conv.archived \/ conv'.archived = TRUE
    BY <2>1, <2>3, <2>4
  <2>7. conv'.archived
    BY <2>6, Zenon
  <2> QED BY <2>1, <2>2, <2>5, <2>7
<1> QED BY <1>1, Inductive, PTL DEF Spec, ArchivedQuiet
=============================================================================
