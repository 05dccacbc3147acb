---------------------------- MODULE BoundaryProofs ----------------------------
(***************************************************************************)
(* Proofs about Boundary: for any agents, owners, rosters and sharing, and *)
(* any number of messages, holds and changes of ownership, the owner set   *)
(* stays frozen, shared recipients are reviewed, and no free text crosses  *)
(* an ownership boundary unreviewed.                                       *)
(*                                                                         *)
(* NoUnreviewedCrossing rests on AdmissionKept: nothing is scored in an    *)
(* internal conversation, because all its members have the same owners.    *)
(* Both rest on who was there first (Settled) and on what is remembered of *)
(* free text when somebody is invited (Remembered).                        *)
(***************************************************************************)
EXTENDS Boundary, TLAPS

(* Before the opening nothing was said, and a founder stays on the list.   *)
Settled ==
    /\ type = "none" => msgs = {} /\ ~opened
    /\ \A a \in founders : part[a] # "none"

(* _conversation_has_note_history sees every free text.                    *)
Remembered == \A m \in msgs : m.sensitive => history

IInv ==
    /\ TypeOK /\ Settled /\ Remembered
    /\ NoUnreviewedCrossing /\ SharedRecipientReviewed /\ AdmissionKept

-----------------------------------------------------------------------------
(* What excusing an agent does to the messages.                            *)
LEMMA ExcuseShape ==
    ASSUME NEW a \in Agents, NEW ms, \A m \in ms : m \in Message, NEW n \in Excuse(a, ms)
    PROVE  /\ n \in Message /\ a \in n.excused
           /\ \E m \in ms : /\ n.author = m.author /\ n.sensitive = m.sensitive
                            /\ m.excused \subseteq n.excused
<1>1. PICK m \in ms : n = [m EXCEPT !.excused = @ \cup {a}]
  BY DEF Excuse
<1>2. m \in Message
  OBVIOUS
<1>3. n.author = m.author /\ n.sensitive = m.sensitive /\ n.excused = m.excused \cup {a}
  BY <1>1, <1>2 DEF Message
<1>4. n \in Message
  BY <1>1, <1>2 DEF Message
<1> QED BY <1>3, <1>4

(* A message that the scorer lets through is readable by its audience.     *)
LEMMA PassedMayRead ==
    ASSUME NEW a \in Agents, NEW others, NEW b \in others, a \notin others,
           ~HighRisk(a, others, TRUE), type = "asymmetric"
    PROVE  MayRead(b, a) /\ ~shared[b]
<1>1. /\ ~\E x \in others : shared[x]
      /\ shared[a] \/ OwnersOf(others) \subseteq owners[a]
  BY DEF HighRisk
<1>2. owners[b] \subseteq OwnersOf(others)
  BY DEF OwnersOf
<1>3. MayRead(b, a) = (~shared[b] /\ (shared[a] \/ owners[b] \subseteq owners[a]))
  BY DEF MayRead
<1> QED BY <1>1, <1>2, <1>3

(* Two members of an internal conversation whose owners have not moved     *)
(* have the same ones.                                                     *)
LEMMA InternalMayRead ==
    ASSUME AdmissionKept, type = "internal", NEW a \in Members \ moved, NEW b \in Members \ moved
    PROVE  MayRead(b, a)
<1>1. owners[a] = snapshot /\ owners[b] = snapshot /\ ~shared[b]
  BY DEF AdmissionKept
<1>2. MayRead(b, a) = (~shared[b] /\ owners[b] = owners[a])
  BY DEF MayRead
<1> QED BY <1>1, <1>2

-----------------------------------------------------------------------------
(* Opening: the founders are the members, and nothing was said before.     *)
LEMMA OpenKeeps ==
    ASSUME IInv, NEW a \in Agents, NEW targets \in SUBSET Agents, NEW ty \in Types,
           AuthorizeOpen(a, targets, ty)
    PROVE  IInv'
<1> DEFINE s == {a} \cup targets
<1>1. /\ type = "none" /\ MayOpen(ty, s) /\ type' = ty /\ founders' = s /\ moved' = {}
      /\ snapshot' = IF ty = "open" THEN {} ELSE OwnersOf(s)
      /\ part' = [b \in Agents |-> CASE b = a -> "active" [] b \in targets -> "invited"
                                     [] OTHER -> "none"]
      /\ UNCHANGED <<owners, shared, opened, history, asked, held, msgs, moves>>
  BY DEF AuthorizeOpen
<1>2. msgs = {} /\ ~opened
  BY <1>1 DEF IInv, Settled
<1>3. \A b \in Agents : /\ b \in s => part'[b] \in {"invited", "active"}
                        /\ b \notin s => part'[b] = "none"
  BY <1>1
<1>4. part' \in [Agents -> {"none", "invited", "active", "gone"}]
  BY <1>1, <1>3
<1>5. Members' = s
  BY <1>3 DEF Members
<1>6. OwnersOf(s) \in SUBSET Owners
  BY DEF OwnersOf, IInv, TypeOK
<1>7. TypeOK'
  BY <1>1, <1>2, <1>4, <1>6 DEF IInv, TypeOK, Types
<1>8. Settled' /\ Remembered' /\ NoUnreviewedCrossing' /\ SharedRecipientReviewed'
  BY <1>1, <1>2, <1>3 DEF Settled, Remembered, NoUnreviewedCrossing, SharedRecipientReviewed, Types
<1>9. AdmissionKept'
  <2>1. ASSUME NEW b \in s, ty # "open" PROVE owners[b] \subseteq OwnersOf(s)
    BY DEF OwnersOf
  <2>2. ASSUME NEW b \in s, ty = "internal" PROVE owners[b] = OwnersOf(s) /\ ~shared[b]
    <3>1. \A x, y \in s : owners[x] = owners[y]
      BY <1>1, <2>2 DEF MayOpen, PairwiseAdmitted
    <3> QED BY <1>1, <2>2, <3>1 DEF MayOpen, OwnersOf
  <2>3. ASSUME NEW b \in s, NEW c \in s, ty = "asymmetric"
        PROVE  b = c \/ shared[b] \/ shared[c] \/ MayAssign(b, c)
    BY <1>1, <2>3 DEF MayOpen, PairwiseAdmitted
  <2>4. \A b, c : MayAssign(b, c)' = MayAssign(b, c)
    BY <1>1 DEF MayAssign
  <2> HIDE DEF s
  <2> QED BY <1>1, <1>5, <2>1, <2>2, <2>3, <2>4 DEF AdmissionKept
<1> QED BY <1>7, <1>8, <1>9 DEF IInv

-----------------------------------------------------------------------------
(* What the two reviews promise of one message.                            *)
Covered(m) ==
    \A b \in Members \ (m.excused \cup {m.author}) :
        /\ m.sensitive => m.author \in m.excused \/ MayRead(b, m.author)
        /\ type = "asymmetric" => ~shared[b]

(* The two properties together say that every message is covered.          *)
LEMMA AllCovered ==
    (NoUnreviewedCrossing /\ SharedRecipientReviewed) <=> \A m \in msgs : Covered(m)
BY DEF NoUnreviewedCrossing, SharedRecipientReviewed, Covered

(* The same in the next state.                                             *)
LEMMA AllCoveredNext ==
    (NoUnreviewedCrossing /\ SharedRecipientReviewed)' <=> \A m \in msgs' : Covered(m)'
BY DEF NoUnreviewedCrossing, SharedRecipientReviewed, Covered

(* A message stays covered while whoever joins or changes is excused.      *)
LEMMA StaysCovered ==
    ASSUME NEW m \in Message, NEW n, Covered(m), type' = type,
           n.author = m.author, n.sensitive = m.sensitive, m.excused \subseteq n.excused,
           Members' \ n.excused \subseteq Members,
           \A x \in Agents \ n.excused : owners'[x] = owners[x] /\ shared'[x] = shared[x]
    PROVE  Covered(n)'
<1>1. SUFFICES ASSUME NEW b \in Members' \ (n.excused \cup {n.author})
               PROVE  /\ n.sensitive => n.author \in n.excused \/ MayRead(b, n.author)'
                      /\ type' = "asymmetric" => ~shared'[b]
  BY DEF Covered
<1>2. b \in Members \ (m.excused \cup {m.author}) /\ b \in Agents \ n.excused
  BY <1>1 DEF Members
<1>3. m.author \in Agents
  BY DEF Message
<1>4. type = "asymmetric" => ~shared[b]
  BY <1>2 DEF Covered
<1>5. m.sensitive => m.author \in m.excused \/ MayRead(b, m.author)
  BY <1>2 DEF Covered
<1>6. ASSUME m.author \notin n.excused PROVE MayRead(b, m.author)' = MayRead(b, m.author)
  <2>1. /\ owners'[b] = owners[b] /\ shared'[b] = shared[b]
        /\ owners'[m.author] = owners[m.author] /\ shared'[m.author] = shared[m.author]
    BY <1>2, <1>3, <1>6
  <2> QED BY <2>1 DEF MayRead
<1>7. shared'[b] = shared[b]
  BY <1>2
<1>8. CASE m.author \in n.excused
  BY <1>4, <1>7, <1>8
<1>9. CASE m.author \notin n.excused
  BY <1>4, <1>5, <1>6, <1>7, <1>9
<1> QED BY <1>8, <1>9

(* The frozen owner set is kept by a step that lets nobody in.             *)
LEMMA AdmissionStays ==
    ASSUME AdmissionKept, Members' \subseteq Members,
           UNCHANGED <<owners, shared, type, snapshot, founders, moved>>
    PROVE  AdmissionKept'
<1>1. \A b, c : MayAssign(b, c)' = MayAssign(b, c)
  BY DEF MayAssign
<1> QED BY <1>1 DEF AdmissionKept

(* Steps that neither say anything nor let anybody in.                     *)
LEMMA QuietKeeps ==
    ASSUME IInv, TypeOK', Members' \subseteq Members,
           \A a \in Agents : part[a] # "none" => part'[a] # "none",
           history => history', UNCHANGED <<owners, shared, conversation, msgs, moved>>
    PROVE  IInv'
<1>1. UNCHANGED <<owners, shared, type, snapshot, founders, opened, msgs, moved>>
  BY DEF conversation
<1>2. Settled' /\ Remembered'
  BY <1>1 DEF IInv, TypeOK, Settled, Remembered
<1>3. AdmissionKept'
  BY <1>1, AdmissionStays DEF IInv
<1>4. ASSUME NEW m \in msgs' PROVE Covered(m)'
  <2>1. m \in msgs /\ m \in Message
    BY <1>1, <1>4 DEF IInv, TypeOK
  <2>2. Covered(m)
    BY <2>1, AllCovered DEF IInv
  <2> QED BY <1>1, <2>1, <2>2, StaysCovered
<1>5. NoUnreviewedCrossing' /\ SharedRecipientReviewed'
  BY <1>4, AllCoveredNext
<1> QED BY <1>2, <1>3, <1>5 DEF IInv

(* One participant changes status; nobody is forgotten.                    *)
LEMMA PartKept ==
    ASSUME TypeOK, NEW a \in Agents, NEW st \in {"invited", "active", "gone"},
           part' = [part EXCEPT ![a] = st]
    PROVE  /\ part' \in [Agents -> {"none", "invited", "active", "gone"}]
           /\ \A b \in Agents : part[b] # "none" => part'[b] # "none"
           /\ part[a] \in {"invited", "active"} => Members' \subseteq Members
           /\ Members' \subseteq Members \cup {a}
BY DEF TypeOK, Members

(* accept_invite, decline_invite and leave let nobody in.                  *)
LEMMA AcceptKeeps ==
    ASSUME IInv, NEW a \in Agents, AcceptInvite(a) \/ Depart(a)
    PROVE  IInv'
<1>1. PICK st \in {"active", "gone"} : part' = [part EXCEPT ![a] = st]
  BY DEF AcceptInvite, Depart
<1>2. /\ part[a] \in {"invited", "active"}
      /\ UNCHANGED <<owners, shared, conversation, history, asked, held, msgs, moved, moves>>
  BY DEF AcceptInvite, Depart
<1>3. TypeOK
  BY DEF IInv
<1>4. /\ part' \in [Agents -> {"none", "invited", "active", "gone"}]
      /\ \A b \in Agents : part[b] # "none" => part'[b] # "none"
      /\ Members' \subseteq Members
  BY <1>1, <1>2, <1>3, PartKept
<1>5. TypeOK'
  BY <1>2, <1>3, <1>4 DEF TypeOK, conversation
<1> QED BY <1>2, <1>4, <1>5, QuietKeeps

(* A hold is decided without anybody coming in.                            *)
LEMMA HoldClosedKeeps ==
    ASSUME IInv,
           (\E a \in Agents : CloseInvite(a)) \/ (\E h \in held : ApproveMessage(h) \/ RejectMessage(h))
    PROVE  IInv'
<1>1. /\ UNCHANGED <<owners, shared, conversation, part, msgs, moved, moves>>
      /\ asked' \subseteq asked /\ held' \subseteq held
  BY DEF CloseInvite, ApproveMessage, RejectMessage
<1>2. history' \in BOOLEAN /\ (history => history')
  <2>1. history \in BOOLEAN
    BY DEF IInv, TypeOK
  <2>2. CASE \E a \in Agents : CloseInvite(a)
    BY <2>1, <2>2 DEF CloseInvite
  <2>3. CASE \E h \in held : ApproveMessage(h)
    BY <2>1, <2>3, Zenon DEF ApproveMessage
  <2>4. CASE \E h \in held : RejectMessage(h)
    BY <2>1, <2>4 DEF RejectMessage
  <2> QED BY <2>2, <2>3, <2>4
<1>3. TypeOK'
  BY <1>1, <1>2 DEF IInv, TypeOK, conversation
<1>4. Members' = Members
  BY <1>1 DEF Members
<1> QED BY <1>1, <1>2, <1>3, <1>4, QuietKeeps

-----------------------------------------------------------------------------
(* Somebody comes in: within the frozen owner set, and excused from what   *)
(* it was not scored for.                                                  *)
LEMMA NewcomerAdmitted ==
    ASSUME IInv, NEW t \in Agents, part[t] = "none", OwnerFrozen(t), moved' = moved \ {t},
           Members' \subseteq Members \cup {t}, UNCHANGED <<owners, shared, type, snapshot, founders>>
    PROVE  AdmissionKept'
<1>1. t \notin founders
  BY DEF IInv, Settled
<1>2. \A b, c : MayAssign(b, c)' = MayAssign(b, c)
  BY DEF MayAssign
<1>3. /\ type \in {"internal", "asymmetric"} => owners[t] \subseteq snapshot
      /\ type = "internal" => owners[t] = snapshot /\ ~shared[t]
  BY DEF OwnerFrozen
<1>4. AdmissionKept
  BY DEF IInv
<1>5. SUFFICES ASSUME NEW a \in Members' \ moved'
               PROVE  /\ type \in {"internal", "asymmetric"} => owners[a] \subseteq snapshot
                      /\ type = "internal" => owners[a] = snapshot /\ ~shared[a]
                      /\ type = "asymmetric" =>
                           \A b \in (founders \cap Members') \ moved' :
                             a \in founders => a = b \/ shared[a] \/ shared[b] \/ MayAssign(a, b)
  BY <1>2 DEF AdmissionKept
<1>6. CASE a = t
  BY <1>1, <1>3, <1>6
<1>7. CASE a # t
  <2>1. a \in Members \ moved
    BY <1>5, <1>7
  <2>2. \A b \in (founders \cap Members') \ moved' : b \in (founders \cap Members) \ moved
    BY <1>1
  <2> QED BY <1>4, <2>1, <2>2 DEF AdmissionKept
<1> QED BY <1>6, <1>7

(* The messages are the old ones, and the newcomer is excused from each.   *)
LEMMA NewcomerCovered ==
    ASSUME IInv, NEW t \in Agents, Members' \subseteq Members \cup {t},
           UNCHANGED <<owners, shared, type>>, msgs' = Excuse(t, msgs)
    PROVE  /\ \A n \in msgs' : n \in Message
           /\ NoUnreviewedCrossing' /\ SharedRecipientReviewed'
           /\ history' = history => Remembered'
           /\ msgs = {} => msgs' = {}
<1>1. \A m \in msgs : m \in Message
  BY DEF IInv, TypeOK
<1>2. ASSUME NEW n \in msgs'
      PROVE  /\ n \in Message /\ t \in n.excused
             /\ \E m \in msgs : /\ n.author = m.author /\ n.sensitive = m.sensitive
                                /\ m.excused \subseteq n.excused
  <2>1. n \in Excuse(t, msgs)
    BY <1>2
  <2> QED BY <1>1, <2>1, ExcuseShape
<1>3. ASSUME NEW n \in msgs' PROVE Covered(n)'
  <2>1. PICK m \in msgs : /\ n.author = m.author /\ n.sensitive = m.sensitive
                          /\ m.excused \subseteq n.excused
    BY <1>2, <1>3
  <2>2. Covered(m) /\ m \in Message
    BY <1>1, AllCovered DEF IInv
  <2>3. Members' \ n.excused \subseteq Members
    BY <1>2, <1>3
  <2> QED BY <2>1, <2>2, <2>3, StaysCovered
<1>4. history' = history => Remembered'
  BY <1>2 DEF IInv, Remembered
<1>5. msgs = {} => msgs' = {}
  BY DEF Excuse
<1> QED BY <1>2, <1>3, <1>4, <1>5, AllCoveredNext

(* Without free text on record every message is excused, as if cleared.    *)
LEMMA AdmitIsCleared ==
    ASSUME IInv, ~history, NEW t \in Agents, Admit(t)
    PROVE  AdmitCleared(t)
<1>1. \A m \in msgs : ~m.sensitive
  BY DEF IInv, Remembered
<1>2. {m \in msgs : ~m.sensitive} = msgs
  BY <1>1
<1> QED BY <1>2 DEF Admit, AdmitCleared

(* An approved newcomer keeps the invariant.                               *)
LEMMA ClearedKeeps ==
    ASSUME IInv, NEW t \in Agents, part[t] = "none", OwnerFrozen(t), AdmitCleared(t),
           asked' \subseteq Agents,
           UNCHANGED <<owners, shared, conversation, history, held, moves>>
    PROVE  IInv'
<1>1. /\ part' = [part EXCEPT ![t] = "invited"] /\ moved' = moved \ {t}
      /\ msgs' = Excuse(t, msgs)
      /\ UNCHANGED <<owners, shared, type, opened, snapshot, founders, history, held, moves>>
  BY DEF AdmitCleared, conversation
<1>2. TypeOK
  BY DEF IInv
<1>3. /\ part' \in [Agents -> {"none", "invited", "active", "gone"}]
      /\ \A b \in Agents : part[b] # "none" => part'[b] # "none"
      /\ Members' \subseteq Members \cup {t}
  BY <1>1, <1>2, PartKept
<1>4. /\ \A n \in msgs' : n \in Message
      /\ NoUnreviewedCrossing' /\ SharedRecipientReviewed' /\ Remembered'
      /\ msgs = {} => msgs' = {}
  BY <1>1, <1>3, NewcomerCovered
<1>5. AdmissionKept'
  BY <1>1, <1>3, NewcomerAdmitted
<1>6. TypeOK'
  BY <1>1, <1>2, <1>3, <1>4 DEF TypeOK
<1>7. Settled'
  BY <1>1, <1>3, <1>4 DEF IInv, TypeOK, Settled
<1> QED BY <1>4, <1>5, <1>6, <1>7 DEF IInv

(* invite, with or without a hold, and the approval of its hold.           *)
LEMMA InviteKeeps ==
    ASSUME IInv, NEW t \in Agents, Invite(t) \/ InviteDiverted(t) \/ ApproveInvite(t)
    PROVE  IInv'
<1>0. asked \subseteq Agents /\ TypeOK
  BY DEF IInv, TypeOK
<1>1. CASE Invite(t)
  <2>1. AdmitCleared(t)
    BY <1>1, AdmitIsCleared DEF Invite, HasNoteHistory
  <2> QED BY <1>0, <1>1, <2>1, ClearedKeeps DEF Invite, MayInvite
<1>2. CASE InviteDiverted(t) /\ AdmitCleared(t) /\ UNCHANGED asked
  BY <1>0, <1>2, ClearedKeeps DEF InviteDiverted, MayInvite
<1>3. CASE InviteDiverted(t) /\ asked' = asked \cup {t} /\ UNCHANGED <<part, moved, msgs>>
  <2>1. UNCHANGED <<owners, shared, conversation, part, history, held, msgs, moved, moves>>
    BY <1>3 DEF InviteDiverted
  <2>2. TypeOK'
    BY <1>0, <1>3, <2>1 DEF TypeOK, conversation
  <2>3. Members' = Members
    BY <2>1 DEF Members
  <2> QED BY <2>1, <2>2, <2>3, QuietKeeps
<1>4. CASE ApproveInvite(t)
  <2>1. asked' \subseteq Agents
    BY <1>0, <1>4 DEF ApproveInvite
  <2> QED BY <1>4, <2>1, ClearedKeeps DEF ApproveInvite, Revalidated
<1> QED BY <1>1, <1>2, <1>3, <1>4 DEF InviteDiverted

-----------------------------------------------------------------------------
(* Somebody's ownership moves: it no longer counts, nor what it said or    *)
(* could read.                                                             *)
LEMMA MoveKeeps ==
    ASSUME IInv, NEW a \in Agents, Move(a),
           owners' \in [Agents -> SUBSET Owners], shared' \in [Agents -> BOOLEAN],
           \A x \in Agents \ {a} : owners'[x] = owners[x] /\ shared'[x] = shared[x]
    PROVE  IInv'
<1>1. /\ moves < MaxMoves /\ moved' = moved \cup {a}
      /\ msgs' = Excuse(a, msgs) /\ moves' = moves + 1
      /\ UNCHANGED <<type, opened, snapshot, founders, part, history, asked, held>>
  BY DEF Move, conversation
<1>2. \A m \in msgs : m \in Message
  BY DEF IInv, TypeOK
<1>3. ASSUME NEW n \in msgs'
      PROVE  /\ n \in Message /\ a \in n.excused
             /\ \E m \in msgs : /\ n.author = m.author /\ n.sensitive = m.sensitive
                                /\ m.excused \subseteq n.excused
  <2>1. n \in Excuse(a, msgs)
    BY <1>1, <1>3
  <2> QED BY <1>2, <2>1, ExcuseShape
<1>4. Members' = Members
  BY <1>1 DEF Members
<1>5. ASSUME NEW n \in msgs' PROVE Covered(n)'
  <2>1. PICK m \in msgs : /\ n.author = m.author /\ n.sensitive = m.sensitive
                          /\ m.excused \subseteq n.excused
    BY <1>3, <1>5
  <2>2. Covered(m) /\ m \in Message
    BY <1>2, AllCovered DEF IInv
  <2>3. \A x \in Agents \ n.excused : owners'[x] = owners[x] /\ shared'[x] = shared[x]
    BY <1>3, <1>5
  <2> QED BY <1>1, <1>4, <2>1, <2>2, <2>3, StaysCovered
<1>6. moves' \in 0..MaxMoves
  BY <1>1, BoundaryAssumption DEF IInv, TypeOK
<1>7. TypeOK'
  BY <1>1, <1>3, <1>6 DEF IInv, TypeOK
<1>8. Settled' /\ Remembered'
  BY <1>1, <1>3 DEF IInv, Settled, Remembered, Excuse
<1>9. AdmissionKept'
  <2>1. \A b, c \in Agents \ {a} : MayAssign(b, c)' = MayAssign(b, c)
    BY DEF MayAssign
  <2>2. Members \subseteq Agents
    BY DEF Members
  <2>3. AdmissionKept
    BY DEF IInv
  <2>4. \A b \in Members \ moved' : b \in Members \ moved /\ b \in Agents \ {a}
    BY <1>1, <2>2
  <2> QED BY <1>1, <1>4, <2>1, <2>3, <2>4 DEF AdmissionKept
<1> QED BY <1>5, <1>7, <1>8, <1>9, AllCoveredNext DEF IInv

(* A reassignment and a change of is_shared concern one agent.             *)
LEMMA OwnershipKeeps ==
    ASSUME IInv, NEW a \in Agents, SetAgentShared(a) \/ \E os \in SUBSET Owners : Reassign(a, os)
    PROVE  IInv'
<1>1. owners \in [Agents -> SUBSET Owners] /\ shared \in [Agents -> BOOLEAN]
  BY DEF IInv, TypeOK
<1>2. CASE SetAgentShared(a)
  <2>1. shared' = [shared EXCEPT ![a] = ~@] /\ owners' = owners /\ Move(a)
    BY <1>2 DEF SetAgentShared
  <2>2. shared' \in [Agents -> BOOLEAN]
    BY <1>1, <2>1
  <2>3. \A x \in Agents \ {a} : owners'[x] = owners[x] /\ shared'[x] = shared[x]
    BY <1>1, <2>1
  <2> QED BY <1>1, <2>1, <2>2, <2>3, MoveKeeps
<1>3. CASE \E os \in SUBSET Owners : Reassign(a, os)
  <2>1. PICK os \in SUBSET Owners : owners' = [owners EXCEPT ![a] = os] /\ Move(a) /\ shared' = shared
    BY <1>3 DEF Reassign
  <2>2. owners' \in [Agents -> SUBSET Owners]
    BY <1>1, <2>1
  <2>3. \A x \in Agents \ {a} : owners'[x] = owners[x] /\ shared'[x] = shared[x]
    BY <1>1, <2>1
  <2> QED BY <1>1, <2>1, <2>2, <2>3, MoveKeeps
<1> QED BY <1>2, <1>3

-----------------------------------------------------------------------------
(* A message that is posted unreviewed is covered.                         *)
LEMMA SaidCovered ==
    ASSUME IInv, NEW a \in Members, NEW sensitive \in BOOLEAN, type # "none",
           ~HighRisk(a, Members \ {a}, sensitive), NEW m, m = Unreviewed(a, sensitive)
    PROVE  Covered(m)
<1>1. /\ m.author = a /\ m.sensitive = sensitive
      /\ m.excused = IF type = "internal" THEN moved ELSE {}
  BY DEF Unreviewed
<1>2. type \in Types /\ a \in Agents
  BY DEF IInv, TypeOK, Members
<1>3. CASE type = "internal"
  <2>1. AdmissionKept
    BY DEF IInv
  <2>2. ASSUME NEW b \in Members \ (m.excused \cup {m.author}), m.author \notin m.excused
        PROVE  MayRead(b, m.author)
    BY <1>1, <1>3, <2>1, <2>2, InternalMayRead
  <2> QED BY <1>3, <2>2 DEF Covered
<1>4. CASE type = "open"
  <2>1. ~sensitive
    BY <1>4 DEF HighRisk
  <2> QED BY <1>1, <1>4, <2>1 DEF Covered
<1>5. CASE type = "asymmetric"
  <2>1. ASSUME NEW b \in Members \ (m.excused \cup {m.author})
        PROVE  b \in Members \ {a}
    BY <1>1
  <2>2. \A b \in Members \ {a} : ~shared[b]
    BY <1>5 DEF HighRisk
  <2>3. ASSUME NEW b \in Members \ {a}, sensitive PROVE MayRead(b, a)
    <3>1. ~HighRisk(a, Members \ {a}, TRUE)
      BY <1>5, <2>3 DEF HighRisk
    <3> QED BY <1>2, <1>5, <3>1, PassedMayRead
  <2> QED BY <1>1, <2>1, <2>2, <2>3 DEF Covered
<1> QED BY <1>2, <1>3, <1>4, <1>5 DEF Types

(* A message is posted unreviewed, held, or cleared.                       *)
LEMMA SayKeeps ==
    ASSUME IInv, NEW a \in Agents, NEW sensitive \in BOOLEAN, NEW review \in BOOLEAN,
           part[a] = "active", type # "none", Say(a, Members \ {a}, sensitive, review),
           opened' \in BOOLEAN,
           UNCHANGED <<owners, shared, type, snapshot, founders, part, asked, moved, moves>>
    PROVE  IInv'
<1>1. TypeOK /\ history \in BOOLEAN /\ \A m \in msgs : m \in Message
  BY DEF IInv, TypeOK
<1>2. Members' = Members /\ a \in Members
  BY DEF Members
<1>3. AdmissionKept'
  BY <1>2, AdmissionStays DEF IInv
<1>4. Settled'
  BY DEF IInv, Settled
<1>5. \A m \in Message : Covered(m) => Covered(m)'
  BY <1>2, StaysCovered
<1>6. CASE msgs' = msgs /\ held' \subseteq MessageHold /\ history' \in BOOLEAN /\ (history => history')
  <2>1. TypeOK'
    BY <1>1, <1>6 DEF TypeOK
  <2>2. \A m \in msgs' : Covered(m)'
    BY <1>1, <1>5, <1>6, AllCovered DEF IInv
  <2>3. Remembered'
    BY <1>6 DEF IInv, Remembered
  <2> QED BY <1>3, <1>4, <2>1, <2>2, <2>3, AllCoveredNext DEF IInv
<1>7. CASE /\ ~HighRisk(a, Members \ {a}, sensitive)
           /\ msgs' = msgs \cup {Unreviewed(a, sensitive)}
           /\ history' = (history \/ sensitive) /\ held' = held
  <2>1. Unreviewed(a, sensitive) \in Message /\ Unreviewed(a, sensitive).sensitive = sensitive
    BY <1>1 DEF Unreviewed, Message, TypeOK
  <2>2. history' \in BOOLEAN /\ (history => history') /\ (sensitive => history')
    BY <1>7, Zenon
  <2>3. TypeOK'
    BY <1>1, <1>7, <2>1, <2>2 DEF TypeOK
  <2>4. Covered(Unreviewed(a, sensitive))
    BY <1>2, <1>7, SaidCovered
  <2>5. \A m \in msgs' : Covered(m)'
    BY <1>1, <1>5, <1>7, <2>1, <2>4, AllCovered DEF IInv
  <2>6. Remembered'
    BY <1>7, <2>1, <2>2 DEF IInv, Remembered
  <2> QED BY <1>3, <1>4, <2>3, <2>5, <2>6, AllCoveredNext DEF IInv
<1>8. CASE held' = held \cup {[author |-> a, sensitive |-> sensitive]} /\ UNCHANGED <<msgs, history>>
  <2>1. held' \subseteq MessageHold
    BY <1>1, <1>8 DEF TypeOK, MessageHold
  <2> QED BY <1>1, <1>6, <1>8, <2>1
<1>9. CASE history' = (history \/ sensitive) /\ UNCHANGED <<msgs, held>>
  <2>1. history' \in BOOLEAN /\ (history => history')
    BY <1>9, Zenon
  <2> QED BY <1>1, <1>6, <1>9, <2>1 DEF TypeOK
<1> QED BY <1>7, <1>8, <1>9 DEF Say

(* The opener and every later message.                                     *)
LEMMA SpeechKeeps ==
    ASSUME IInv, NEW a \in Agents, NEW sensitive \in BOOLEAN,
           StartConversation(a, sensitive) \/ PostMessage(a, sensitive)
    PROVE  IInv'
<1>1. CASE StartConversation(a, sensitive)
  BY <1>1, SayKeeps DEF StartConversation
<1>2. CASE PostMessage(a, sensitive)
  <2>1. PICK review \in BOOLEAN : Say(a, Members \ {a}, sensitive, review)
    BY <1>2 DEF PostMessage
  <2>2. /\ opened /\ part[a] = "active"
        /\ UNCHANGED <<owners, shared, type, opened, snapshot, founders, part, asked, moved, moves>>
    BY <1>2 DEF PostMessage, conversation
  <2>3. type # "none" /\ opened \in BOOLEAN
    BY <2>2 DEF IInv, Settled, TypeOK
  <2> QED BY <2>1, <2>2, <2>3, SayKeeps
<1> QED BY <1>1, <1>2

-----------------------------------------------------------------------------
(* Before the conversation there is nothing to promise.                    *)
LEMMA InitHolds == Init => IInv
<1> SUFFICES ASSUME Init PROVE IInv
  OBVIOUS
<1>1. TypeOK
  <2>1. opened \in BOOLEAN /\ history \in BOOLEAN
    BY Zenon DEF Init
  <2>2. owners \in [Agents -> SUBSET Owners] /\ shared \in [Agents -> BOOLEAN]
    BY DEF Init
  <2>3. part \in [Agents -> {"none", "invited", "active", "gone"}]
    BY DEF Init
  <2>4. moves \in 0..MaxMoves
    BY BoundaryAssumption DEF Init
  <2> QED BY <2>1, <2>2, <2>3, <2>4 DEF Init, TypeOK
<1>2. Members = {}
  BY DEF Init, Members
<1> QED BY <1>1, <1>2 DEF Init, IInv, Settled, Remembered, NoUnreviewedCrossing,
                          SharedRecipientReviewed, AdmissionKept

(* A step of nobody.                                                       *)
LEMMA StutterKeeps == ASSUME IInv, UNCHANGED vars PROVE IInv'
<1>1. UNCHANGED <<owners, shared, conversation, part, history, asked, held, msgs, moved, moves>>
  BY DEF vars
<1>2. TypeOK'
  BY <1>1 DEF IInv, TypeOK, conversation
<1>3. Members' = Members
  BY <1>1 DEF Members
<1> QED BY <1>1, <1>2, <1>3, QuietKeeps

(* Every step of Next keeps the invariant.                                 *)
LEMMA NextKeeps == IInv /\ [Next]_vars => IInv'
<1> SUFFICES ASSUME IInv, [Next]_vars PROVE IInv'
  OBVIOUS
<1>1. CASE UNCHANGED vars
  BY <1>1, StutterKeeps
<1>2. ASSUME NEW a \in Agents, NEW targets \in SUBSET Agents, NEW ty \in Types,
             AuthorizeOpen(a, targets, ty)
      PROVE  IInv'
  BY <1>2, OpenKeeps
<1>3. ASSUME NEW a \in Agents, NEW sensitive \in BOOLEAN,
             StartConversation(a, sensitive) \/ PostMessage(a, sensitive)
      PROVE  IInv'
  BY <1>3, SpeechKeeps
<1>4. ASSUME NEW t \in Agents, Invite(t) \/ InviteDiverted(t) \/ ApproveInvite(t) PROVE IInv'
  BY <1>4, InviteKeeps
<1>5. ASSUME \/ \E a \in Agents : CloseInvite(a)
             \/ \E h \in held : ApproveMessage(h) \/ RejectMessage(h)
      PROVE  IInv'
  BY <1>5, HoldClosedKeeps
<1>6. ASSUME NEW a \in Agents, AcceptInvite(a) \/ Depart(a) PROVE IInv'
  BY <1>6, AcceptKeeps
<1>7. ASSUME NEW a \in Agents, SetAgentShared(a) \/ \E os \in SUBSET Owners : Reassign(a, os)
      PROVE  IInv'
  BY <1>7, OwnershipKeeps
<1> QED BY <1>1, <1>2, <1>3, <1>4, <1>5, <1>6, <1>7 DEF Next

(* The invariant always holds.                                             *)
LEMMA Inductive == Spec => []IInv
<1> QED BY InitHolds, NextKeeps, PTL DEF Spec

-----------------------------------------------------------------------------
(* The conversation's state always has its types, and the bound on changes *)
(* of ownership is never passed.                                           *)
THEOREM TypeCorrect == Spec => []TypeOK
<1>1. IInv => TypeOK
  BY DEF IInv
<1> QED BY <1>1, Inductive, PTL

(* Whoever came in, by founding, by invitation or by an approval that came *)
(* late, is within the frozen owner set as long as its own owners stay:    *)
(* _authorize_conversation_open and _authorize_invite_owner_freeze agree.  *)
THEOREM FrozenOwners == Spec => []AdmissionKept
<1>1. IInv => AdmissionKept
  BY DEF IInv
<1> QED BY <1>1, Inductive, PTL

(* Nothing is posted before a shared agent without a review of             *)
(* BoundaryCrossingScorer, whatever its type and whoever sends it.         *)
THEOREM SharedReviewed == Spec => []SharedRecipientReviewed
<1>1. IInv => SharedRecipientReviewed
  BY DEF IInv
<1> QED BY <1>1, Inductive, PTL

(* No unreviewed free text is readable across an ownership boundary.       *)
THEOREM NoCrossing == Spec => []NoUnreviewedCrossing
<1>1. IInv => NoUnreviewedCrossing
  BY DEF IInv
<1> QED BY <1>1, Inductive, PTL
=============================================================================
