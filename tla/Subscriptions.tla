---------------------------- MODULE Subscriptions ----------------------------
(***************************************************************************)
(* Resource subscriptions: subscriptions.py's process-local registry, the  *)
(* subscribe and unsubscribe handlers of main.py, the authorization of     *)
(* providers/comms.py, and the pings the write tools schedule after their  *)
(* commit.  One conversation, its participants, and the inboxes of agents. *)
(*                                                                         *)
(* asyncio.Lock is never held across an await, so a locked section is one  *)
(* step.  What interleaves is around them: a handler waits for the         *)
(* database between the registry's steps, notify() waits for each send     *)
(* between its snapshot and its pruning, and a write's recipients are      *)
(* queried after its commit and pinged by tasks of their own.  A session   *)
(* authenticates as one agent for its whole life.                          *)
(***************************************************************************)
EXTENDS Integers, FiniteSets

CONSTANTS
    Agents, Sessions,
    AgentOf,        \* the agent a session authenticates as
    Inboxes,        \* the agents whose inbox is subscribed to
    MaySeeInbox,    \* resolve_inbox_target: <<agent, inbox owner>>, itself or a sibling
    Requests,       \* calls of the two handlers
    Writes,         \* calls of the write tools
    MaxPerAgent,    \* MAX_SUBSCRIPTIONS_PER_AGENT
    MaxRecords,     \* bound: _Record objects ever made
    InitialStatus,  \* the participants at the start
    Conversation, None

URIs == {Conversation} \cup Inboxes
Statuses == {"none", "invited", "active", "left", "declined"}

ASSUME SubscriptionsAssumption ==
    /\ IsFiniteSet(Agents) /\ IsFiniteSet(Sessions)
    /\ AgentOf \in [Sessions -> Agents]
    /\ Inboxes \subseteq Agents /\ Conversation \notin Agents
    /\ MaySeeInbox \subseteq Agents \X Inboxes
    /\ MaxPerAgent \in Nat \ {0} /\ MaxRecords \in Nat
    /\ InitialStatus \in [Agents -> Statuses]

VARIABLES
    registry,   \* _registry, the records of all URIs
    count,      \* _agent_subscription_counts
    made,       \* history: how many records were made
    session,    \* open, its stream closed, or collected (a dead weakref)
    req,        \* the running handlers
    status,     \* the participants of the conversation
    write,      \* the write tools, from their commit to the pings
    task,       \* _background_notify_tasks
    audited,    \* history: records with a "resource.subscribe" row
    orphaned    \* history: records replaced before their audit failed

vars == <<registry, count, made, session, req, status, write, task, audited, orphaned>>

(* id stands for the object's identity.  origin is the record this one     *)
(* replaced, or the one that one replaced, and so on.  The gone of a write *)
(* are the agents who had left when it committed: history.                 *)
Record == [id : 1..MaxRecords, origin : 1..MaxRecords, uri : URIs, session : Sessions]
AgentOfRecord(r) == AgentOf[r.session]

Request == [pc : {"new", "register", "audit", "peek", "unaudit", "remove", "ended"},
            uri : URIs \cup {None}, session : Sessions \cup {None}, id : 0..MaxRecords]
Write == [pc : {"new", "committed", "ended"}, fanout : BOOLEAN,
          agents : SUBSET Agents, gone : SUBSET Agents]
Task == [pc : {"none", "scheduled", "sending", "ended"}, filter : SUBSET Agents,
         gone : SUBSET Agents, todo : SUBSET Record, dead : SUBSET Record]

TypeOK ==
    /\ registry \subseteq Record
    /\ count \in [Agents -> 0..MaxRecords] /\ made \in 0..MaxRecords
    /\ session \in [Sessions -> {"open", "closed", "collected"}]
    /\ req \in [Requests -> Request]
    /\ status \in [Agents -> Statuses]
    /\ write \in [Writes -> Write]
    /\ task \in [Writes \X URIs -> Task]
    /\ audited \subseteq 1..MaxRecords /\ orphaned \subseteq 1..MaxRecords

NoRequest == [pc |-> "new", uri |-> None, session |-> None, id |-> 0]
Ended == [NoRequest EXCEPT !.pc = "ended"]
NoWrite == [pc |-> "new", fanout |-> FALSE, agents |-> {}, gone |-> {}]
NoTask == [pc |-> "none", filter |-> {}, gone |-> {}, todo |-> {}, dead |-> {}]

Init ==
    /\ registry = {} /\ count = [a \in Agents |-> 0] /\ made = 0
    /\ session = [s \in Sessions |-> "open"]
    /\ req = [q \in Requests |-> NoRequest]
    /\ status = InitialStatus
    /\ write = [w \in Writes |-> NoWrite]
    /\ task = [wu \in Writes \X URIs |-> NoTask]
    /\ audited = {} /\ orphaned = {}

-----------------------------------------------------------------------------
(* The registry.                                                           *)

HeldBy(a, records) == {r \in records : AgentOfRecord(r) = a}

DecCountOneMore(c, a, n) == [c EXCEPT ![a] = @ - (n + 1)]
DecCount(c, a, n) == [c EXCEPT ![a] = IF @ > n THEN @ - n ELSE 0]

(* Each record taken out is counted down, none that was already gone.      *)
DroppedUnconditionally(records) ==
    /\ registry' = registry \ records
    /\ count' = [a \in Agents |-> DecCount(count, a, Cardinality(HeldBy(a, records)))[a]]
Dropped(records) ==
    /\ registry' = registry \ records
    /\ count' = [a \in Agents |->
                   DecCount(count, a, Cardinality(HeldBy(a, registry \cap records)))[a]]

(* _reclaim_dead_for_agent_locked                                          *)
Reclaimed(a, records) ==
    {r \in records : ~(AgentOfRecord(r) = a /\ session[r.session] = "collected")}

(* subscribe(): drop this session's record of the URI, reclaim what died   *)
(* if the agent is at its cap, refuse at the cap, add a fresh record.      *)
Register(q) ==
    LET u == req[q].uri
        s == req[q].session
        a == AgentOf[s]
        old == {r \in registry : r.uri = u /\ r.session = s}
        kept == registry \ old
        lower == IF old = {} THEN count ELSE DecCount(count, a, 1)
        full == lower[a] >= MaxPerAgent
        swept == IF full THEN Reclaimed(a, kept) ELSE kept
        tally == IF full THEN [lower EXCEPT ![a] = Cardinality(HeldBy(a, swept))] ELSE lower
        new == [id |-> made + 1, uri |-> u, session |-> s,
                origin |-> IF old = {} THEN made + 1 ELSE (CHOOSE r \in old : TRUE).origin]
    IN
    /\ req[q].pc = "register" /\ made < MaxRecords
    /\ IF tally[a] >= MaxPerAgent
       THEN /\ registry' = swept /\ count' = tally
            /\ req' = [req EXCEPT ![q] = Ended]
            /\ UNCHANGED made
       ELSE /\ registry' = swept \cup {new}
            /\ count' = [tally EXCEPT ![a] = @ + 1]
            /\ made' = made + 1
            /\ req' = [req EXCEPT ![q] = IF old = {} THEN [@ EXCEPT !.pc = "audit", !.id = made + 1]
                                                     ELSE Ended]
    /\ UNCHANGED <<session, status, write, task, audited, orphaned>>

-----------------------------------------------------------------------------
(* The handlers of main.py.                                                *)

(* authorize_resource_subscribe, with and without require_active.          *)
MaySubscribe(a, u) ==
    IF u = Conversation THEN status[a] = "active" ELSE <<a, u>> \in MaySeeInbox
MayUnsubscribe(a, u) ==
    IF u = Conversation THEN status[a] # "none" ELSE <<a, u>> \in MaySeeInbox

Arrive(q, s, u, l) ==
    /\ req[q].pc = "new" /\ session[s] = "open"
    /\ req' = [req EXCEPT ![q] = [@ EXCEPT !.pc = l, !.uri = u, !.session = s]]
    /\ UNCHANGED <<registry, count, made, session, status, write, task, audited, orphaned>>

AskSubscribe(q, s, u) == MaySubscribe(AgentOf[s], u) /\ Arrive(q, s, u, "register")
AskUnsubscribe(q, s, u) == MayUnsubscribe(AgentOf[s], u) /\ Arrive(q, s, u, "peek")

(* audit_resource_subscription commits its row.                            *)
AuditSubscribe(q) ==
    /\ req[q].pc = "audit"
    /\ audited' = audited \cup {req[q].id}
    /\ req' = [req EXCEPT ![q] = Ended]
    /\ UNCHANGED <<registry, count, made, session, status, write, task, orphaned>>

(* It failed, or the request was cancelled, perhaps after the row was      *)
(* committed: remove_if_current takes this record out, and no other.       *)
AuditFailsKept(q) ==
    /\ req[q].pc = "audit"
    /\ UNCHANGED <<registry, count, audited, orphaned>>
    /\ req' = [req EXCEPT ![q] = Ended]
    /\ UNCHANGED <<made, session, status, write, task>>
AuditFails(q) ==
    LET id == req[q].id
        mine == {r \in registry : r.id = id} IN
    /\ req[q].pc = "audit"
    /\ Dropped(mine)
    /\ audited' \in {audited, audited \cup {id}}
    /\ orphaned' = IF \E r \in registry \ mine : r.origin = id THEN orphaned \cup {id} ELSE orphaned
    /\ req' = [req EXCEPT ![q] = Ended]
    /\ UNCHANGED <<made, session, status, write, task>>

(* is_subscribed decides whether there is anything to audit and remove.    *)
Peek(q) ==
    /\ req[q].pc = "peek"
    /\ req' = [req EXCEPT ![q] =
                 IF \E r \in registry : r.uri = @.uri /\ r.session = @.session
                 THEN [@ EXCEPT !.pc = "unaudit"] ELSE Ended]
    /\ UNCHANGED <<registry, count, made, session, status, write, task, audited, orphaned>>

(* The row is committed first; without it nothing is removed.              *)
AuditUnsubscribe(q) ==
    /\ req[q].pc = "unaudit"
    /\ req' = [req EXCEPT ![q] = [@ EXCEPT !.pc = "remove"]]
    /\ UNCHANGED <<registry, count, made, session, status, write, task, audited, orphaned>>

Unsubscribe(q) ==
    /\ req[q].pc = "remove"
    /\ Dropped({r \in registry : r.uri = req[q].uri /\ r.session = req[q].session})
    /\ req' = [req EXCEPT ![q] = Ended]
    /\ UNCHANGED <<made, session, status, write, task, audited, orphaned>>

(* Cancelled while it waits for the database, or its audit row fails.      *)
GiveUp(q) ==
    /\ req[q].pc \in {"register", "peek", "unaudit", "remove"}
    /\ req' = [req EXCEPT ![q] = Ended]
    /\ UNCHANGED <<registry, count, made, session, status, write, task, audited, orphaned>>

-----------------------------------------------------------------------------
(* The write tools.                                                        *)

Active == {a \in Agents : status[a] = "active"}
Departed(st) == {a \in Agents : st[a] \in {"left", "declined"}}

(* The inboxes to ping: of these agents, or (fanout) of all active agents  *)
(* but these.                                                              *)
Commit(w, st, fanout, agents) ==
    /\ write[w].pc = "new"
    /\ status' = st
    /\ write' = [write EXCEPT ![w] = [pc |-> "committed", fanout |-> fanout,
                                         agents |-> agents, gone |-> Departed(st)]]
    /\ UNCHANGED <<registry, count, made, session, req, task, audited, orphaned>>

(* A message of the type "decline" takes its author out.                   *)
PostMessage(w, a) ==
    /\ status[a] = "active"
    /\ \E s \in {"active", "declined"} : Commit(w, [status EXCEPT ![a] = s], TRUE, {a})
(* decide_hold posts a held message.                                       *)
ApproveMessage(w) == Commit(w, status, TRUE, {})
Accept(w, a) == status[a] = "invited" /\ Commit(w, [status EXCEPT ![a] = "active"], FALSE, {a})
DeclineInvite(w, a) == status[a] = "invited" /\ Commit(w, [status EXCEPT ![a] = "declined"], FALSE, {a})
Leave(w, a) == status[a] = "active" /\ Commit(w, [status EXCEPT ![a] = "left"], FALSE, {a})
(* By the tool, or by decide_hold.                                         *)
Invite(w, a) ==
    /\ status[a] = "none"
    /\ Commit(w, [status EXCEPT ![a] = "invited"], FALSE, {a})
(* archive, extend and reopen change the conversation and no participant.  *)
ChangeState(w) == Active # {} /\ Commit(w, status, FALSE, {})

(* _get_active_participant_agent_ids_or_empty, then                        *)
(* notify_conversation_event: one task per URI.                            *)
Schedule(w) ==
    /\ write[w].pc = "committed"
    /\ \E active \in {Active, {}} :
         LET inboxes == IF write[w].fanout THEN active \ write[w].agents
                        ELSE write[w].agents IN
         task' = [wu \in Writes \X URIs |->
                    IF wu[1] # w \/ wu[2] \notin inboxes \cup {Conversation} THEN task[wu]
                    ELSE [NoTask EXCEPT !.pc = "scheduled", !.gone = write[w].gone,
                                        !.filter = IF wu[2] = Conversation THEN active ELSE Agents]]
    /\ write' = [write EXCEPT ![w] = [NoWrite EXCEPT !.pc = "ended"]]
    /\ UNCHANGED <<registry, count, made, session, req, status, audited, orphaned>>

-----------------------------------------------------------------------------
(* notify().                                                               *)

Snapshot(t) ==
    /\ task[t].pc = "scheduled"
    /\ task' = [task EXCEPT ![t].pc = "sending", ![t].todo = {r \in registry : r.uri = t[2]}]
    /\ UNCHANGED <<registry, count, made, session, req, status, write, audited, orphaned>>

EveryoneEntitled(t, r) == TRUE
Entitled(t, r) == AgentOfRecord(r) \in task[t].filter

(* One record of the snapshot.  A dead weakref is noted whoever it belongs *)
(* to.  A send that times out or fails in passing keeps its record.        *)
Notify(t, r) ==
    /\ task[t].pc = "sending" /\ r \in task[t].todo
    /\ LET lost == \/ session[r.session] = "collected"
                   \/ Entitled(t, r) /\ session[r.session] = "closed" IN
       task' = [task EXCEPT ![t].todo = @ \ {r}, ![t].dead = IF lost THEN @ \cup {r} ELSE @]
    /\ UNCHANGED <<registry, count, made, session, req, status, write, audited, orphaned>>

(* The lock is taken again: what is still registered, by identity.         *)
Prune(t) ==
    /\ task[t].pc = "sending" /\ task[t].todo = {}
    /\ Dropped(task[t].dead)
    /\ task' = [task EXCEPT ![t] = [NoTask EXCEPT !.pc = "ended"]]
    /\ UNCHANGED <<made, session, req, status, write, audited, orphaned>>

-----------------------------------------------------------------------------
(* The peer goes away; once nothing refers to a session it is collected.   *)
Close(s) ==
    /\ session[s] = "open"
    /\ session' = [session EXCEPT ![s] = "closed"]
    /\ UNCHANGED <<registry, count, made, req, status, write, task, audited, orphaned>>

Collect(s) ==
    /\ session[s] = "closed" /\ \A q \in Requests : req[q].session # s
    /\ session' = [session EXCEPT ![s] = "collected"]
    /\ UNCHANGED <<registry, count, made, req, status, write, task, audited, orphaned>>

HandlerStep(q) ==
    \/ Register(q) \/ AuditSubscribe(q) \/ AuditFails(q)
    \/ Peek(q) \/ AuditUnsubscribe(q) \/ Unsubscribe(q) \/ GiveUp(q)
WriteStep(w) ==
    \/ \E a \in Agents :
         PostMessage(w, a) \/ Accept(w, a) \/ DeclineInvite(w, a) \/ Leave(w, a) \/ Invite(w, a)
    \/ ApproveMessage(w) \/ ChangeState(w) \/ Schedule(w)
NotifyStep(t) == Snapshot(t) \/ Prune(t) \/ \E r \in task[t].todo : Notify(t, r)

Next ==
    \/ \E q \in Requests :
         \/ \E s \in Sessions, u \in URIs : AskSubscribe(q, s, u) \/ AskUnsubscribe(q, s, u)
         \/ HandlerStep(q)
    \/ \E w \in Writes : WriteStep(w)
    \/ \E t \in Writes \X URIs : NotifyStep(t)
    \/ \E s \in Sessions : Close(s) \/ Collect(s)

Spec == Init /\ [][Next]_vars

-----------------------------------------------------------------------------
(* The cap rests on a count that is kept beside the registry and changed   *)
(* by handlers, rollbacks and prunings that race: it is the number of      *)
(* records of the agent, and never above the cap.                          *)
CountsTrack ==
    \A a \in Agents :
        /\ count[a] = Cardinality(HeldBy(a, registry))
        /\ count[a] <= MaxPerAgent

(* "This maintains consistency between in-memory state and the audit       *)
(* trail": a live subscription goes back to one that was audited or whose  *)
(* audit is under way.  The exception is the race main.py accepts, where   *)
(* the first of two overlapping subscribes fails its audit.                *)
SubscriptionsAudited ==
    \A r \in registry :
        \/ r.origin \in audited \cup orphaned
        \/ \E q \in Requests : req[q].pc = "audit" /\ req[q].id = r.origin

(* notify_conversation_event's docstring: a write never pings a subscriber *)
(* of the conversation who had left when it committed, although the record *)
(* it made while it was entitled to, or after, is still registered.        *)
PingsEntitled ==
    \A w \in Writes : \A r \in task[w, Conversation].todo :
        Entitled(<<w, Conversation>>, r) => AgentOfRecord(r) \notin task[w, Conversation].gone
=============================================================================
