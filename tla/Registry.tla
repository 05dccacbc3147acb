------------------------------ MODULE Registry -------------------------------
(***************************************************************************)
(* The agents table: registration by the agent itself or by an admin,      *)
(* deregistration (the kill switch), the is_shared override, and the four  *)
(* writers of owner_sub: first registration, the write-through of a        *)
(* verified token, an approved reassignment, and reconciliation.           *)
(*                                                                         *)
(* Only apply_owner_reassignment locks its row.  Every other handler loads *)
(* rows, changes its copies and commits; the UPDATE then holds the columns *)
(* that differ from what was loaded (Merge).  Names, e-mail addresses,     *)
(* accepted types and schema ranges are left out: a collision of names, an *)
(* invalid argument or a missing scope ends the request (Abort).           *)
(***************************************************************************)
EXTENDS Naturals, FiniteSets

CONSTANTS
    Requests,   \* concurrent handlers
    Subs,       \* agent identities (agents.sub)
    Base,       \* Base[s]: the credential of s, its part before "::"
    Bare,       \* the identities that are their credential itself
    Owners,     \* owner identifiers
    Limit,      \* rows one reconciliation takes
    None

ASSUME RegistryAssumption ==
    /\ Bare \subseteq Subs
    /\ Limit \in Nat \ {0}
    /\ None \notin Owners \cup Subs

VARIABLES
    agents,     \* the rows
    asserted,   \* the owners the ownership registry has ever named for a sub
    first,      \* history: the owner a row was inserted with
    req         \* the local state of every handler

vars == <<agents, asserted, first, req>>

Row == [status : {"none", "active", "suspended"}, owner : Owners \cup {None}, shared : BOOLEAN]
NoRow == [status |-> "none", owner |-> None, shared |-> FALSE]

Ops == {"none", "register", "rebind", "write_through", "set_shared", "deregister", "reconcile"}
PCs == {"idle", "siblings", "insert", "lookup", "commit"}

(* loaded and new: what the handler loaded of each of rows and what it     *)
(* made of it.  todo: those reconciliation has still to look up.           *)
(* confirm: confirm_new_identity.  shut (history): when a registration     *)
(* began, some identity of its credential was suspended.                   *)
Request ==
    [op : Ops, pc : PCs, rows : SUBSET Subs, loaded : [Subs -> Row], new : [Subs -> Row],
     todo : SUBSET Subs, confirm : BOOLEAN, shut : BOOLEAN]
NoRows == [s \in Subs |-> NoRow]
Idle ==
    [op |-> "none", pc |-> "idle", rows |-> {}, loaded |-> NoRows, new |-> NoRows,
     todo |-> {}, confirm |-> FALSE, shut |-> FALSE]

TypeOK ==
    /\ agents \in [Subs -> Row]
    /\ \A s \in Subs : agents[s].status # "none" => agents[s].owner \in Owners
    /\ asserted \in [Subs -> SUBSET Owners]
    /\ first \in [Subs -> Owners \cup {None}]
    /\ req \in [Requests -> Request]

Init ==
    /\ agents = NoRows
    /\ asserted = [s \in Subs |-> {}]
    /\ first = [s \in Subs |-> None]
    /\ req = [r \in Requests |-> Idle]

Registered(s) == agents[s].status # "none"

-----------------------------------------------------------------------------
(* First registration.  The row is looked up, then the siblings, then the  *)
(* row is inserted: three statements, no lock.                             *)

(* Every other identity of the credential, active or suspended.            *)
SiblingsActive(s) == {t \in Subs \ {s} : Base[t] = Base[s] /\ agents[t].status = "active"}
Siblings(s) == {t \in Subs \ {s} : Base[t] = Base[s] /\ Registered(t)}

FirstRow(o, b) == [status |-> "active", owner |-> o, shared |-> b]

(* The owner is the caller's claim or, for an admin, an argument.          *)
RegisterNew(r, s) ==
    /\ req[r].pc = "idle"
    /\ ~Registered(s)
    /\ \E o \in Owners, b \in BOOLEAN, confirm \in BOOLEAN :
         req' = [req EXCEPT ![r] =
                   [Idle EXCEPT !.op = "register", !.pc = "siblings", !.rows = {s},
                                !.new = [NoRows EXCEPT ![s] = FirstRow(o, b)],
                                !.confirm = confirm,
                                !.shut = \E t \in Subs : Base[t] = Base[s]
                                                         /\ agents[t].status = "suspended"]]
    /\ UNCHANGED <<agents, asserted, first>>

CheckSiblings(r) ==
    /\ req[r].pc = "siblings"
    /\ req' = [req EXCEPT ![r] =
                 IF req[r].confirm \/ \A s \in req[r].rows : Siblings(s) = {}
                 THEN [@ EXCEPT !.pc = "insert"]
                 ELSE Idle]
    /\ UNCHANGED <<agents, asserted, first>>

Insert(r, s) ==
    /\ req[r].pc = "insert" /\ s \in req[r].rows
    /\ ~Registered(s)
    /\ agents' = [agents EXCEPT ![s] = req[r].new[s]]
    /\ first' = [first EXCEPT ![s] = req[r].new[s].owner]
    /\ req' = [req EXCEPT ![r] = Idle]
    /\ UNCHANGED asserted

(* agents_sub_key: somebody else inserted the row.                         *)
InsertLost(r, s) ==
    /\ req[r].pc = "insert" /\ s \in req[r].rows
    /\ Registered(s)
    /\ req' = [req EXCEPT ![r] = Idle]
    /\ UNCHANGED <<agents, asserted, first>>

-----------------------------------------------------------------------------
(* Changes of an existing row, from a copy loaded without a lock.          *)

Loaded(op, s, row) ==
    [Idle EXCEPT !.op = op, !.pc = "commit", !.rows = {s},
                 !.loaded = [NoRows EXCEPT ![s] = agents[s]],
                 !.new = [NoRows EXCEPT ![s] = row]]

(* register_agent on an existing row: a suspended one is refused, and      *)
(* owner_sub and is_shared are left as they are.                           *)
ReboundClaiming(row, claim) == [row EXCEPT !.status = "active", !.owner = claim]
Rebound(row, claim) == [row EXCEPT !.status = "active"]
LoadRebindUnchecked(r, s) ==
    /\ req[r].pc = "idle" /\ Registered(s)
    /\ \E claim \in Owners :
         req' = [req EXCEPT ![r] = Loaded("rebind", s, Rebound(agents[s], claim))]
    /\ UNCHANGED <<agents, asserted, first>>
LoadRebind(r, s) ==
    /\ req[r].pc = "idle"
    /\ agents[s].status = "active"
    /\ \E claim \in Owners :
         req' = [req EXCEPT ![r] = Loaded("rebind", s, Rebound(agents[s], claim))]
    /\ UNCHANGED <<agents, asserted, first>>

(* _resolve_caller_agent and write_through_ownership: the token carries an *)
(* owner the registry named, perhaps some time ago.  The claim is the      *)
(* credential's and goes to the row its key resolves to; "asserted" keeps  *)
(* the answers for each row by itself.                                     *)
LoadWriteThrough(r, s) ==
    /\ req[r].pc = "idle"
    /\ agents[s].status = "active"
    /\ \E o \in asserted[s] :
         req' = [req EXCEPT ![r] = Loaded("write_through", s, [agents[s] EXCEPT !.owner = o])]
    /\ UNCHANGED <<agents, asserted, first>>

LoadSetShared(r, s) ==
    /\ req[r].pc = "idle"
    /\ Registered(s)
    /\ \E b \in BOOLEAN :
         req' = [req EXCEPT ![r] = Loaded("set_shared", s, [agents[s] EXCEPT !.shared = b])]
    /\ UNCHANGED <<agents, asserted, first>>

LoadDeregister(r, s) ==
    /\ req[r].pc = "idle"
    /\ Registered(s)
    /\ req' = [req EXCEPT ![r] = Loaded("deregister", s, [agents[s] EXCEPT !.status = "suspended"])]
    /\ UNCHANGED <<agents, asserted, first>>

-----------------------------------------------------------------------------
(* Reconciliation: a batch of active rows that are not shared, looked up   *)
(* one by one, committed together.  OwnerSweep models which rows.          *)

Reconcilable == {s \in Subs : agents[s].status = "active" /\ ~agents[s].shared}

LoadBatch(r) ==
    /\ req[r].pc = "idle"
    /\ \E batch \in SUBSET Reconcilable :
         /\ Cardinality(batch) \in 1..Limit
         /\ LET copies == [s \in Subs |-> IF s \in batch THEN agents[s] ELSE NoRow]
            IN  req' = [req EXCEPT ![r] =
                          [Idle EXCEPT !.op = "reconcile", !.pc = "lookup", !.rows = batch,
                                       !.loaded = copies, !.new = copies, !.todo = batch]]
    /\ UNCHANGED <<agents, asserted, first>>

(* A lookup that fails, or names no owner or several, leaves the row.      *)
LookedUp(q, s, o) ==
    [q EXCEPT !.new[s].owner = o, !.todo = q.todo \ {s},
              !.pc = IF q.todo = {s} THEN "commit" ELSE "lookup"]
LookUp(r, s) ==
    /\ req[r].pc = "lookup" /\ s \in req[r].todo
    /\ \E o \in asserted[s] \cup {req[r].new[s].owner} :
         req' = [req EXCEPT ![r] = LookedUp(req[r], s, o)]
    /\ UNCHANGED <<agents, asserted, first>>

-----------------------------------------------------------------------------
(* The UPDATE holds the columns that differ from the loaded copy.          *)
MergeWhole(row, loaded, new) == new
Merge(row, loaded, new) ==
    [status |-> IF new.status = loaded.status THEN row.status ELSE new.status,
     owner  |-> IF new.owner = loaded.owner THEN row.owner ELSE new.owner,
     shared |-> IF new.shared = loaded.shared THEN row.shared ELSE new.shared]

Commit(r) ==
    /\ req[r].pc = "commit"
    /\ agents' = [s \in Subs |->
                    IF s \in req[r].rows
                    THEN Merge(agents[s], req[r].loaded[s], req[r].new[s])
                    ELSE agents[s]]
    /\ req' = [req EXCEPT ![r] = Idle]
    /\ UNCHANGED <<asserted, first>>

(* The request is refused, fails or dies before its commit.                *)
Abort(r) ==
    /\ req[r].pc # "idle"
    /\ req' = [req EXCEPT ![r] = Idle]
    /\ UNCHANGED <<agents, asserted, first>>

-----------------------------------------------------------------------------
(* The ownership registry names an owner.                                  *)
RegistryAssigns(s) ==
    /\ \E o \in Owners : asserted' = [asserted EXCEPT ![s] = @ \cup {o}]
    /\ UNCHANGED <<agents, first, req>>

(* apply_owner_reassignment, under the row's lock: the owner the registry  *)
(* has committed is written, unless the row's owner_sub is opaque and none *)
(* was supplied.                                                           *)
ReassignedUnderived(row, o) == [row EXCEPT !.owner = None]
Reassigned(row, o) == [row EXCEPT !.owner = o]
ApplyReassignment(s) ==
    /\ s \in Bare
    /\ agents[s].status = "active"
    /\ \E o \in asserted[s] : agents' = [agents EXCEPT ![s] = Reassigned(agents[s], o)]
    /\ UNCHANGED <<asserted, first, req>>

-----------------------------------------------------------------------------
Next ==
    \/ \E r \in Requests :
         \/ \E s \in Subs :
              \/ RegisterNew(r, s) \/ Insert(r, s) \/ InsertLost(r, s)
              \/ LoadRebind(r, s) \/ LoadWriteThrough(r, s)
              \/ LoadSetShared(r, s) \/ LoadDeregister(r, s) \/ LookUp(r, s)
         \/ CheckSiblings(r) \/ LoadBatch(r) \/ Commit(r) \/ Abort(r)
    \/ \E s \in Subs : RegistryAssigns(s) \/ ApplyReassignment(s)

Spec == Init /\ [][Next]_vars

-----------------------------------------------------------------------------
(* deregister_agent is a kill switch: whatever copies were loaded before,  *)
(* a suspended agent is never active again.                                *)
SuspensionStands ==
    [][\A s \in Subs : agents[s].status = "suspended" => agents'[s].status = "suspended"]_vars

(* register_agent and admin_register_agent: a registration that began when *)
(* an identity of its credential was already suspended adds no identity to *)
(* it unless the caller confirmed that it means to.  The request that adds *)
(* the identity is the one that leaves its insert in that step.            *)
KillSwitchHolds ==
    [][\A s \in Subs :
          ~Registered(s) /\ Registered(s)' =>
             \E r \in Requests :
                /\ req[r].pc = "insert" /\ s \in req[r].rows
                /\ req'[r].pc # "insert"
                /\ req[r].shut => req[r].confirm]_vars

(* write_through_ownership is "the ONE sanctioned exception": the owner of *)
(* a row is the one it was first registered with, or one the registry has  *)
(* named; no later claim of a caller gets in.                              *)
OwnerVouched ==
    \A s \in Subs : Registered(s) => agents[s].owner \in asserted[s] \cup {first[s]}

Committing(op, s) ==
    \E r \in Requests :
       /\ req[r].op = op /\ req[r].pc = "commit" /\ s \in req[r].rows
       /\ req'[r] = Idle

(* Handlers that load one row at the same time do not undo each other:     *)
(* only set_agent_shared changes is_shared, only deregister_agent the      *)
(* status, and only the writers of ownership the owner.                    *)
OnlyItsWriter ==
    [][\A s \in Subs : Registered(s) =>
          /\ agents'[s].status # agents[s].status => Committing("deregister", s)
          /\ agents'[s].shared # agents[s].shared => Committing("set_shared", s)
          /\ agents'[s].owner # agents[s].owner =>
                \/ Committing("write_through", s)
                \/ Committing("reconcile", s)
                \/ UNCHANGED req]_vars
=============================================================================
