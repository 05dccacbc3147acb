---------------------------- MODULE RegistryProofs ----------------------------
(***************************************************************************)
(* Proofs about Registry, for any set of agents, credentials, owners and   *)
(* concurrent handlers: deregistration stands, a suspended identity shuts  *)
(* its credential, the owner of a row was vouched for, and handlers that   *)
(* load one row at the same time do not undo each other.                   *)
(*                                                                         *)
(* Only one handler locks its row, so the argument is about the copies:    *)
(* what a handler made of a copy differs from what it loaded in the one    *)
(* column that is its own (OwnColumn), and an identity once registered     *)
(* stays registered, so what a registration saw of its siblings still      *)
(* stands when it inserts (Warned).                                        *)
(***************************************************************************)
EXTENDS Registry, TLAPS

(* A registration has a row to insert: an active one with an owner.        *)
Drafted(r) ==
    req[r].pc \in {"siblings", "insert"} =>
        \A s \in req[r].rows : req[r].new[s].status = "active" /\ req[r].new[s].owner \in Owners

(* A registration that began with a suspended sibling still has a sibling, *)
(* and past the check the caller has confirmed it.                         *)
Warned(r) ==
    req[r].shut =>
        /\ req[r].pc = "siblings" => \E s \in req[r].rows : Siblings(s) # {}
        /\ req[r].pc = "insert" => req[r].confirm

(* A handler changes the one column of its copies that is its own, and an  *)
(* owner only to one that the ownership registry has named.                *)
OwnColumn(r) ==
    /\ req[r].pc = "lookup" => req[r].op = "reconcile"
    /\ req[r].pc \in {"lookup", "commit"} =>
         \A s \in req[r].rows :
            /\ Registered(s)
            /\ req[r].new[s].status # req[r].loaded[s].status =>
                 req[r].op = "deregister" /\ req[r].new[s].status = "suspended"
            /\ req[r].new[s].shared # req[r].loaded[s].shared => req[r].op = "set_shared"
            /\ req[r].new[s].owner # req[r].loaded[s].owner =>
                 /\ req[r].op \in {"write_through", "reconcile"}
                 /\ req[r].new[s].owner \in asserted[s]

Sound(r) == Drafted(r) /\ Warned(r) /\ OwnColumn(r)

IInv == TypeOK /\ OwnerVouched /\ \A r \in Requests : Sound(r)

-----------------------------------------------------------------------------
(* Rows and request records.                                               *)

(* Rows of the table, made or changed by a handler.                        *)
LEMMA RowFacts ==
    /\ NoRow \in Row /\ NoRow.status = "none" /\ NoRow.owner = None
    /\ NoRows \in [Subs -> Row] /\ \A s \in Subs : NoRows[s] = NoRow
    /\ \A o \in Owners, b \in BOOLEAN :
         /\ FirstRow(o, b) \in Row /\ FirstRow(o, b).status = "active"
         /\ FirstRow(o, b).owner = o
BY DEF NoRow, NoRows, Row, FirstRow

(* register_agent on an active row changes none of these columns.          *)
LEMMA ReboundSame ==
    ASSUME NEW row \in Row, row.status = "active", NEW claim
    PROVE  Rebound(row, claim) \in Row /\ Rebound(row, claim) = row
BY DEF Rebound, Row

(* A handler that has ended.                                               *)
LEMMA IdleFacts == Idle \in Request /\ Idle.pc = "idle" /\ ~Idle.shut /\ Idle.rows = {}
<1>1. NoRows \in [Subs -> Row]
  BY RowFacts
<1>2. Idle.shut = FALSE
  BY DEF Idle
<1>3. ~Idle.shut
  BY <1>2, Zenon
<1> QED BY <1>1, <1>3 DEF Idle, Request, Ops, PCs

(* A handler that has loaded one row and changed its copy.                 *)
LEMMA LoadedFacts ==
    ASSUME agents \in [Subs -> Row], NEW op \in Ops, NEW s \in Subs, NEW row \in Row
    PROVE  /\ Loaded(op, s, row) \in Request /\ Loaded(op, s, row).op = op
           /\ Loaded(op, s, row).pc = "commit" /\ Loaded(op, s, row).rows = {s}
           /\ Loaded(op, s, row).loaded[s] = agents[s] /\ Loaded(op, s, row).new[s] = row
<1>1. NoRows \in [Subs -> Row] /\ Idle \in Request
  BY RowFacts, IdleFacts
<1>2. /\ [NoRows EXCEPT ![s] = agents[s]] \in [Subs -> Row]
      /\ [NoRows EXCEPT ![s] = row] \in [Subs -> Row]
      /\ [NoRows EXCEPT ![s] = agents[s]][s] = agents[s] /\ [NoRows EXCEPT ![s] = row][s] = row
  BY <1>1
<1> QED BY <1>1, <1>2 DEF Loaded, Request, PCs

(* What the UPDATE writes of a copy: the row's own column or the changed   *)
(* one.                                                                    *)
LEMMA MergeFacts ==
    ASSUME NEW row \in Row, NEW loaded \in Row, NEW new \in Row
    PROVE  /\ Merge(row, loaded, new) \in Row
           /\ Merge(row, loaded, new).status =
                IF new.status = loaded.status THEN row.status ELSE new.status
           /\ Merge(row, loaded, new).owner =
                IF new.owner = loaded.owner THEN row.owner ELSE new.owner
           /\ Merge(row, loaded, new).shared =
                IF new.shared = loaded.shared THEN row.shared ELSE new.shared
BY DEF Merge, Row

-----------------------------------------------------------------------------
(* An identity once registered stays so, and the registry takes nothing    *)
(* back.                                                                   *)
Grows ==
    /\ \A s \in Subs : agents[s].status # "none" => agents'[s].status # "none"
    /\ \A s \in Subs : asserted[s] \subseteq asserted'[s]

(* A handler that did not move keeps what it knows.                        *)
LEMMA OthersKeep ==
    ASSUME TypeOK, Grows, NEW x \in Requests, req'[x] = req[x], Sound(x)
    PROVE  Sound(x)'
<1>1. req[x] \in Request /\ req[x].rows \subseteq Subs
  BY DEF TypeOK, Request
<1>2. Drafted(x)'
  BY DEF Sound, Drafted
<1>3. Warned(x)'
  BY <1>1 DEF Sound, Warned, Grows, Siblings, Registered
<1>4. OwnColumn(x)'
  BY <1>1 DEF Sound, OwnColumn, Grows, Registered
<1> QED BY <1>2, <1>3, <1>4 DEF Sound

(* A handler that has ended knows nothing.                                 *)
LEMMA EndedKeeps ==
    ASSUME NEW x \in Requests, req'[x] = Idle
    PROVE  Sound(x)'
BY IdleFacts DEF Sound, Drafted, Warned, OwnColumn

(* A step that only moves one handler.                                     *)
LEMMA MoveKeeps ==
    ASSUME IInv, NEW r \in Requests, NEW q \in Request, req' = [req EXCEPT ![r] = q],
           UNCHANGED <<agents, asserted, first>>, Sound(r)'
    PROVE  IInv'
<1>1. TypeOK /\ req \in [Requests -> Request]
  BY DEF IInv, TypeOK
<1>2. TypeOK'
  BY <1>1 DEF TypeOK
<1>3. OwnerVouched'
  BY DEF IInv, OwnerVouched, Registered
<1>4. \A x \in Requests : Sound(x)'
  <2> SUFFICES ASSUME NEW x \in Requests, x # r PROVE Sound(x)'
    OBVIOUS
  <2>1. req'[x] = req[x]
    BY <1>1
  <2>2. Grows
    BY DEF Grows
  <2> QED BY <1>1, <2>1, <2>2, OthersKeep DEF IInv
<1> QED BY <1>2, <1>3, <1>4 DEF IInv

(* A handler that ends without writing.                                    *)
LEMMA EndKeeps ==
    ASSUME IInv, NEW r \in Requests, req' = [req EXCEPT ![r] = Idle],
           UNCHANGED <<agents, asserted, first>>
    PROVE  IInv'
<1>1. req'[r] = Idle
  BY DEF IInv, TypeOK
<1> QED BY <1>1, EndedKeeps, IdleFacts, MoveKeeps

-----------------------------------------------------------------------------
(* register_agent and admin_register_agent look the row up.                *)
LEMMA RegisterNewKeeps ==
    ASSUME IInv, NEW r \in Requests, NEW s \in Subs, RegisterNew(r, s)
    PROVE  IInv'
<1>1. PICK o \in Owners, b \in BOOLEAN, confirm \in BOOLEAN :
         req' = [req EXCEPT ![r] =
                   [Idle EXCEPT !.op = "register", !.pc = "siblings", !.rows = {s},
                                !.new = [NoRows EXCEPT ![s] = FirstRow(o, b)],
                                !.confirm = confirm,
                                !.shut = \E t \in Subs : Base[t] = Base[s]
                                                         /\ agents[t].status = "suspended"]]
  BY DEF RegisterNew
<1>2. UNCHANGED <<agents, asserted, first>> /\ agents[s].status = "none"
  BY DEF RegisterNew, Registered
<1>3. req \in [Requests -> Request] /\ agents \in [Subs -> Row]
  BY DEF IInv, TypeOK
<1>4. PICK n \in [Subs -> Row] : n = [NoRows EXCEPT ![s] = FirstRow(o, b)]
  BY RowFacts
<1>5. PICK shut \in BOOLEAN : shut = \E t \in Subs : Base[t] = Base[s]
                                                     /\ agents[t].status = "suspended"
  OBVIOUS
<1>6. PICK q : q = [Idle EXCEPT !.op = "register", !.pc = "siblings", !.rows = {s},
                                !.new = n, !.confirm = confirm, !.shut = shut]
  OBVIOUS
<1>7. /\ q \in Request /\ q.pc = "siblings" /\ q.rows = {s} /\ q.new = n /\ q.shut = shut
      /\ q.op = "register"
  BY <1>6, IdleFacts DEF Request, Ops, PCs
<1>8. req' = [req EXCEPT ![r] = q]
  BY <1>1, <1>4, <1>5, <1>6
<1>9. req'[r] = q
  BY <1>3, <1>8
<1>10. n[s].status = "active" /\ n[s].owner \in Owners
  BY <1>4, RowFacts
<1>11. Drafted(r)' /\ OwnColumn(r)'
  BY <1>7, <1>9, <1>10 DEF Drafted, OwnColumn
<1>12. Warned(r)'
  <2> SUFFICES ASSUME shut PROVE Siblings(s)' # {}
    BY <1>7, <1>9 DEF Warned
  <2>1. PICK t \in Subs : Base[t] = Base[s] /\ agents[t].status = "suspended"
    BY <1>5
  <2> QED BY <1>2, <2>1 DEF Siblings, Registered
<1> QED BY <1>2, <1>7, <1>8, <1>11, <1>12, MoveKeeps DEF Sound

(* _check_sibling_identities: warned and not confirmed ends the handler.   *)
LEMMA CheckSiblingsKeeps ==
    ASSUME IInv, NEW r \in Requests, CheckSiblings(r)
    PROVE  IInv'
<1>1. /\ req[r].pc = "siblings" /\ UNCHANGED <<agents, asserted, first>>
      /\ req \in [Requests -> Request] /\ req[r] \in Request
  BY DEF CheckSiblings, IInv, TypeOK
<1>2. CASE req' = [req EXCEPT ![r] = Idle]
  BY <1>1, <1>2, EndKeeps
<1>3. CASE /\ req' = [req EXCEPT ![r] = [@ EXCEPT !.pc = "insert"]]
           /\ req[r].confirm \/ \A s \in req[r].rows : Siblings(s) = {}
  <2>0. PICK q : q = [req[r] EXCEPT !.pc = "insert"]
    OBVIOUS
  <2>1. /\ q \in Request /\ q.pc = "insert" /\ q.rows = req[r].rows /\ q.new = req[r].new
        /\ q.shut = req[r].shut /\ q.confirm = req[r].confirm
    BY <1>1, <2>0 DEF Request, PCs
  <2>2. req' = [req EXCEPT ![r] = q] /\ req'[r] = q
    BY <1>1, <1>3, <2>0
  <2>3. Drafted(r)' /\ OwnColumn(r)'
    BY <1>1, <2>1, <2>2 DEF IInv, Sound, Drafted, OwnColumn
  <2>4. Warned(r)'
    BY <1>1, <1>3, <2>1, <2>2 DEF IInv, Sound, Warned
  <2> QED BY <1>1, <2>1, <2>2, <2>3, <2>4, MoveKeeps DEF Sound
<1> QED BY <1>2, <1>3 DEF CheckSiblings

(* The insert of a first row.                                              *)
LEMMA InsertKeeps ==
    ASSUME IInv, NEW r \in Requests, NEW s \in Subs, Insert(r, s)
    PROVE  IInv'
<1>1. TypeOK /\ agents \in [Subs -> Row] /\ req \in [Requests -> Request] /\ req[r] \in Request
  BY DEF IInv, TypeOK
<1>2. PICK row \in Row : row = req[r].new[s] /\ row.status = "active" /\ row.owner \in Owners
  BY <1>1 DEF IInv, Sound, Drafted, Insert, Request
<1>3. /\ agents' = [agents EXCEPT ![s] = row] /\ first' = [first EXCEPT ![s] = row.owner]
      /\ req' = [req EXCEPT ![r] = Idle] /\ asserted' = asserted /\ agents[s].status = "none"
  BY <1>2 DEF Insert, Registered
<1>4. /\ agents'[s] = row /\ \A t \in Subs : t # s => agents'[t] = agents[t]
      /\ agents' \in [Subs -> Row]
  BY <1>1, <1>2, <1>3
<1>5. /\ first' \in [Subs -> Owners \cup {None}] /\ first'[s] = row.owner
      /\ \A t \in Subs : t # s => first'[t] = first[t]
  BY <1>1, <1>2, <1>3 DEF TypeOK
<1>6. req' \in [Requests -> Request]
  BY <1>1, <1>3, IdleFacts
<1>7. TypeOK'
  BY <1>1, <1>2, <1>3, <1>4, <1>5, <1>6 DEF TypeOK
<1>8. OwnerVouched'
  BY <1>2, <1>3, <1>4, <1>5 DEF IInv, OwnerVouched, Registered
<1>9. Grows
  BY <1>2, <1>3, <1>4 DEF Grows
<1>10. ASSUME NEW x \in Requests PROVE Sound(x)'
  <2>1. req'[x] = IF x = r THEN Idle ELSE req[x]
    BY <1>1, <1>3
  <2> QED BY <1>1, <1>9, <2>1, OthersKeep, EndedKeeps DEF IInv
<1> QED BY <1>7, <1>8, <1>10 DEF IInv

-----------------------------------------------------------------------------
(* A handler loads one registered row and changes its own column.          *)
LEMMA LoadedKeeps ==
    ASSUME IInv, NEW r \in Requests, NEW s \in Subs, NEW op \in Ops, NEW row \in Row,
           agents[s].status # "none", UNCHANGED <<agents, asserted, first>>,
           req' = [req EXCEPT ![r] = Loaded(op, s, row)],
           row.status # agents[s].status => op = "deregister" /\ row.status = "suspended",
           row.shared # agents[s].shared => op = "set_shared",
           row.owner # agents[s].owner =>
              op \in {"write_through", "reconcile"} /\ row.owner \in asserted[s]
    PROVE  IInv'
<1>1. req \in [Requests -> Request] /\ agents \in [Subs -> Row]
  BY DEF IInv, TypeOK
<1>2. PICK q \in Request : /\ q = Loaded(op, s, row) /\ q.op = op /\ q.pc = "commit"
                           /\ q.rows = {s} /\ q.loaded[s] = agents[s] /\ q.new[s] = row
  BY <1>1, LoadedFacts
<1>3. req' = [req EXCEPT ![r] = q] /\ req'[r] = q
  BY <1>1, <1>2
<1>4. Drafted(r)' /\ Warned(r)'
  BY <1>2, <1>3 DEF Drafted, Warned
<1>5. OwnColumn(r)'
  BY <1>2, <1>3 DEF OwnColumn, Registered
<1> QED BY <1>3, <1>4, <1>5, MoveKeeps DEF Sound

(* The four handlers that change one row from a copy of it.                *)
LEMMA LoadKeeps ==
    ASSUME IInv, NEW r \in Requests, NEW s \in Subs,
           LoadRebind(r, s) \/ LoadWriteThrough(r, s) \/ LoadSetShared(r, s) \/ LoadDeregister(r, s)
    PROVE  IInv'
<1>1. /\ agents[s] \in Row /\ asserted[s] \subseteq Owners
      /\ {"rebind", "write_through", "set_shared", "deregister"} \subseteq Ops
  BY DEF IInv, TypeOK, Ops
<1>2. CASE LoadRebind(r, s)
  <2>1. PICK claim : req' = [req EXCEPT ![r] = Loaded("rebind", s, Rebound(agents[s], claim))]
    BY <1>2 DEF LoadRebind
  <2>2. agents[s].status = "active" /\ UNCHANGED <<agents, asserted, first>>
    BY <1>2 DEF LoadRebind
  <2>3. req' = [req EXCEPT ![r] = Loaded("rebind", s, agents[s])]
    BY <1>1, <2>1, <2>2, ReboundSame
  <2> QED BY <1>1, <2>2, <2>3, LoadedKeeps
<1>3. CASE LoadWriteThrough(r, s)
  <2>1. PICK o \in asserted[s] :
          req' = [req EXCEPT ![r] = Loaded("write_through", s, [agents[s] EXCEPT !.owner = o])]
    BY <1>3 DEF LoadWriteThrough
  <2>2. PICK row : row = [agents[s] EXCEPT !.owner = o]
    OBVIOUS
  <2>3. row \in Row /\ row.owner = o /\ row.status = agents[s].status /\ row.shared = agents[s].shared
    BY <1>1, <2>2 DEF Row
  <2>4. agents[s].status # "none" /\ UNCHANGED <<agents, asserted, first>>
    BY <1>3 DEF LoadWriteThrough
  <2> QED BY <1>1, <2>1, <2>2, <2>3, <2>4, LoadedKeeps
<1>4. CASE LoadSetShared(r, s)
  <2>1. PICK b \in BOOLEAN :
          req' = [req EXCEPT ![r] = Loaded("set_shared", s, [agents[s] EXCEPT !.shared = b])]
    BY <1>4 DEF LoadSetShared
  <2>2. PICK row : row = [agents[s] EXCEPT !.shared = b]
    OBVIOUS
  <2>3. row \in Row /\ row.owner = agents[s].owner /\ row.status = agents[s].status
    BY <1>1, <2>2 DEF Row
  <2>4. agents[s].status # "none" /\ UNCHANGED <<agents, asserted, first>>
    BY <1>4 DEF LoadSetShared, Registered
  <2> QED BY <1>1, <2>1, <2>2, <2>3, <2>4, LoadedKeeps
<1>5. CASE LoadDeregister(r, s)
  <2>1. PICK row : row = [agents[s] EXCEPT !.status = "suspended"]
    OBVIOUS
  <2>2. /\ row \in Row /\ row.status = "suspended"
        /\ row.owner = agents[s].owner /\ row.shared = agents[s].shared
    BY <1>1, <2>1 DEF Row
  <2>3. /\ req' = [req EXCEPT ![r] = Loaded("deregister", s, row)]
        /\ agents[s].status # "none" /\ UNCHANGED <<agents, asserted, first>>
    BY <1>5, <2>1 DEF LoadDeregister, Registered
  <2> QED BY <1>1, <2>2, <2>3, LoadedKeeps
<1> QED BY <1>2, <1>3, <1>4, <1>5

-----------------------------------------------------------------------------
(* Reconciliation loads a batch of active rows.                            *)
LEMMA LoadBatchKeeps ==
    ASSUME IInv, NEW r \in Requests, LoadBatch(r)
    PROVE  IInv'
<1>1. /\ req \in [Requests -> Request] /\ agents \in [Subs -> Row]
      /\ UNCHANGED <<agents, asserted, first>>
  BY DEF IInv, TypeOK, LoadBatch
<1>2. PICK batch \in SUBSET Reconcilable :
         req' = [req EXCEPT ![r] =
           [Idle EXCEPT !.op = "reconcile", !.pc = "lookup", !.rows = batch,
                        !.loaded = [s \in Subs |-> IF s \in batch THEN agents[s] ELSE NoRow],
                        !.new = [s \in Subs |-> IF s \in batch THEN agents[s] ELSE NoRow],
                        !.todo = batch]]
  BY DEF LoadBatch
<1>3. batch \subseteq Subs /\ \A s \in batch : agents[s].status # "none"
  BY <1>2 DEF Reconcilable
<1>4. PICK n \in [Subs -> Row] : n = [s \in Subs |-> IF s \in batch THEN agents[s] ELSE NoRow]
  BY <1>1, RowFacts
<1>5. PICK q : q = [Idle EXCEPT !.op = "reconcile", !.pc = "lookup", !.rows = batch,
                                !.loaded = n, !.new = n, !.todo = batch]
  OBVIOUS
<1>6. /\ q \in Request /\ q.op = "reconcile" /\ q.pc = "lookup" /\ q.rows = batch
      /\ q.loaded = n /\ q.new = n
  BY <1>3, <1>5, IdleFacts DEF Request, Ops, PCs
<1>7. req' = [req EXCEPT ![r] = q] /\ req'[r] = q
  BY <1>1, <1>2, <1>4, <1>5
<1>8. Drafted(r)' /\ Warned(r)' /\ OwnColumn(r)'
  BY <1>1, <1>3, <1>6, <1>7 DEF Drafted, Warned, OwnColumn, Registered
<1> QED BY <1>1, <1>6, <1>7, <1>8, MoveKeeps DEF Sound

(* One lookup: the owner stays, or becomes one the registry has named.     *)
LEMMA LookUpKeeps ==
    ASSUME IInv, NEW r \in Requests, NEW s \in Subs, LookUp(r, s)
    PROVE  IInv'
<1>1. /\ req \in [Requests -> Request] /\ req[r] \in Request /\ req[r].new \in [Subs -> Row]
      /\ asserted[s] \subseteq Owners /\ req[r].pc = "lookup"
      /\ UNCHANGED <<agents, asserted, first>>
  BY DEF IInv, TypeOK, LookUp, Request
<1>2. PICK o \in asserted[s] \cup {req[r].new[s].owner} :
         req' = [req EXCEPT ![r] = LookedUp(req[r], s, o)]
  BY DEF LookUp
<1>3. req[r].new[s] \in Row /\ o \in Owners \cup {None}
  BY <1>1, <1>2 DEF Row
<1>4. PICK q : q = LookedUp(req[r], s, o)
  OBVIOUS
<1>5. PICK n : n = q.new
  OBVIOUS
<1>6. /\ n \in [Subs -> Row]
      /\ n[s].owner = o /\ n[s].status = req[r].new[s].status
      /\ n[s].shared = req[r].new[s].shared
      /\ \A t \in Subs : t # s => n[t] = req[r].new[t]
  <2>1. n = [req[r].new EXCEPT ![s].owner = o]
    BY <1>1, <1>4, <1>5 DEF LookedUp, Request
  <2> QED BY <1>1, <1>3, <2>1 DEF Row
<1>7. /\ q \in Request /\ q.op = req[r].op /\ q.pc \in {"commit", "lookup"}
      /\ q.rows = req[r].rows /\ q.loaded = req[r].loaded /\ q.rows \subseteq Subs
  <2>1. q = [req[r] EXCEPT !.new = n, !.todo = req[r].todo \ {s},
                           !.pc = IF req[r].todo = {s} THEN "commit" ELSE "lookup"]
    BY <1>1, <1>4, <1>5 DEF LookedUp, Request
  <2> QED BY <1>1, <1>6, <2>1 DEF Request, PCs
<1>8. req' = [req EXCEPT ![r] = q]
  BY <1>2, <1>4
<1>9. req'[r] = q
  BY <1>1, <1>8
<1>10. Drafted(r)'
  BY <1>7, <1>9 DEF Drafted
<1>11. Warned(r)'
  BY <1>7, <1>9 DEF Warned
<1>12. OwnColumn(r)'
  <2>1. /\ req[r].op = "reconcile"
        /\ \A t \in req[r].rows :
            /\ Registered(t)
            /\ req[r].new[t].status # req[r].loaded[t].status =>
                 req[r].op = "deregister" /\ req[r].new[t].status = "suspended"
            /\ req[r].new[t].shared # req[r].loaded[t].shared => req[r].op = "set_shared"
            /\ req[r].new[t].owner # req[r].loaded[t].owner =>
                 /\ req[r].op \in {"write_through", "reconcile"}
                 /\ req[r].new[t].owner \in asserted[t]
    BY <1>1 DEF IInv, Sound, OwnColumn
  <2> SUFFICES ASSUME NEW t \in q.rows
               PROVE  /\ agents[t].status # "none"
                      /\ n[t].status # q.loaded[t].status =>
                           q.op = "deregister" /\ n[t].status = "suspended"
                      /\ n[t].shared # q.loaded[t].shared => q.op = "set_shared"
                      /\ n[t].owner # q.loaded[t].owner =>
                           q.op \in {"write_through", "reconcile"} /\ n[t].owner \in asserted[t]
    BY <1>1, <1>5, <1>7, <1>9, <2>1 DEF OwnColumn, Registered
  <2>2. CASE t = s
    BY <1>2, <1>6, <1>7, <2>1, <2>2 DEF Registered
  <2>3. CASE t # s
    BY <1>6, <1>7, <2>1, <2>3 DEF Registered
  <2> QED BY <2>2, <2>3
<1> QED BY <1>1, <1>7, <1>8, <1>10, <1>11, <1>12, MoveKeeps DEF Sound

-----------------------------------------------------------------------------
(* What a commit does to one row: the handler's own column changes, and an *)
(* owner only to one that was named.                                       *)
LEMMA CommitFacts ==
    ASSUME IInv, NEW r \in Requests, Commit(r), NEW s \in Subs
    PROVE  /\ agents'[s] \in Row
           /\ agents'[s] # agents[s] => s \in req[r].rows /\ agents[s].status # "none"
           /\ agents'[s].status # agents[s].status =>
                req[r].op = "deregister" /\ agents'[s].status = "suspended"
           /\ agents'[s].shared # agents[s].shared => req[r].op = "set_shared"
           /\ agents'[s].owner # agents[s].owner =>
                req[r].op \in {"write_through", "reconcile"} /\ agents'[s].owner \in asserted[s]
<1>1. /\ agents[s] \in Row /\ req[r].loaded[s] \in Row /\ req[r].new[s] \in Row
      /\ req[r].pc = "commit"
  BY DEF IInv, TypeOK, Request, Commit
<1>2. agents'[s] = IF s \in req[r].rows THEN Merge(agents[s], req[r].loaded[s], req[r].new[s])
                   ELSE agents[s]
  BY DEF Commit
<1>3. CASE s \notin req[r].rows
  BY <1>1, <1>2, <1>3
<1>4. CASE s \in req[r].rows
  <2>1. /\ agents[s].status # "none"
        /\ req[r].new[s].status # req[r].loaded[s].status =>
             req[r].op = "deregister" /\ req[r].new[s].status = "suspended"
        /\ req[r].new[s].shared # req[r].loaded[s].shared => req[r].op = "set_shared"
        /\ req[r].new[s].owner # req[r].loaded[s].owner =>
             /\ req[r].op \in {"write_through", "reconcile"}
             /\ req[r].new[s].owner \in asserted[s]
    BY <1>1, <1>4 DEF IInv, Sound, OwnColumn, Registered
  <2>2. PICK m \in Row :
          /\ agents'[s] = m
          /\ m.status = IF req[r].new[s].status = req[r].loaded[s].status
                        THEN agents[s].status ELSE req[r].new[s].status
          /\ m.owner = IF req[r].new[s].owner = req[r].loaded[s].owner
                       THEN agents[s].owner ELSE req[r].new[s].owner
          /\ m.shared = IF req[r].new[s].shared = req[r].loaded[s].shared
                        THEN agents[s].shared ELSE req[r].new[s].shared
    BY <1>1, <1>2, <1>4, MergeFacts
  <2> QED BY <1>4, <2>1, <2>2
<1> QED BY <1>3, <1>4

(* The commit of a handler that changed copies.                            *)
LEMMA CommitKeeps ==
    ASSUME IInv, NEW r \in Requests, Commit(r)
    PROVE  IInv'
<1>1. /\ TypeOK /\ req \in [Requests -> Request] /\ asserted \in [Subs -> SUBSET Owners]
      /\ agents \in [Subs -> Row]
  BY DEF IInv, TypeOK
<1>2. /\ req' = [req EXCEPT ![r] = Idle] /\ UNCHANGED <<asserted, first>>
      /\ agents' = [s \in Subs |-> agents'[s]]
  BY DEF Commit
<1>3. \A s \in Subs :
           /\ agents'[s] \in Row
           /\ agents'[s] # agents[s] => agents[s].status # "none"
           /\ agents'[s].status # agents[s].status => agents'[s].status = "suspended"
           /\ agents'[s].owner # agents[s].owner => agents'[s].owner \in asserted[s]
  BY CommitFacts
<1>4. agents' \in [Subs -> Row]
  BY <1>2, <1>3
<1>5. req' \in [Requests -> Request]
  BY <1>1, <1>2, IdleFacts
<1>6. Grows
  BY <1>2, <1>3 DEF Grows
<1>7. \A s \in Subs : agents'[s].status # "none" => agents[s].status # "none"
  BY <1>3
<1>8. TypeOK'
  BY <1>1, <1>2, <1>3, <1>4, <1>5, <1>7 DEF TypeOK
<1>9. OwnerVouched'
  BY <1>2, <1>3, <1>7 DEF IInv, OwnerVouched, Registered
<1>10. ASSUME NEW x \in Requests PROVE Sound(x)'
  <2>1. req'[x] = IF x = r THEN Idle ELSE req[x]
    BY <1>1, <1>2
  <2> QED BY <1>1, <1>6, <2>1, OthersKeep, EndedKeeps DEF IInv
<1> QED BY <1>8, <1>9, <1>10 DEF IInv

(* The registry names an owner; apply_owner_reassignment writes one it has *)
(* named.                                                                  *)
LEMMA OwnershipKeeps ==
    ASSUME IInv, NEW s \in Subs, RegistryAssigns(s) \/ ApplyReassignment(s)
    PROVE  IInv'
<1>1. /\ TypeOK /\ req \in [Requests -> Request] /\ asserted \in [Subs -> SUBSET Owners]
      /\ agents \in [Subs -> Row]
  BY DEF IInv, TypeOK
<1>2. UNCHANGED <<first, req>>
  BY DEF RegistryAssigns, ApplyReassignment
<1>3. /\ TypeOK' /\ OwnerVouched' /\ Grows
  <2>1. CASE RegistryAssigns(s)
    <3>1. PICK o \in Owners : asserted' = [asserted EXCEPT ![s] = @ \cup {o}]
      BY <2>1 DEF RegistryAssigns
    <3>2. agents' = agents
      BY <2>1 DEF RegistryAssigns
    <3>3. asserted' \in [Subs -> SUBSET Owners] /\ \A t \in Subs : asserted[t] \subseteq asserted'[t]
      BY <1>1, <3>1
    <3>4. TypeOK'
      BY <1>1, <1>2, <3>2, <3>3 DEF TypeOK
    <3>5. OwnerVouched'
      BY <1>2, <3>2, <3>3 DEF IInv, OwnerVouched, Registered
    <3> QED BY <3>2, <3>3, <3>4, <3>5 DEF Grows
  <2>2. CASE ApplyReassignment(s)
    <3>1. PICK o \in asserted[s] : agents' = [agents EXCEPT ![s] = Reassigned(agents[s], o)]
      BY <2>2 DEF ApplyReassignment
    <3>2. asserted' = asserted /\ agents[s].status = "active" /\ o \in Owners
      BY <1>1, <2>2 DEF ApplyReassignment
    <3>3. PICK row : row = Reassigned(agents[s], o)
      OBVIOUS
    <3>4. row \in Row /\ row.owner = o /\ row.status = agents[s].status
      BY <1>1, <3>2, <3>3 DEF Reassigned, Row
    <3>5. /\ agents' \in [Subs -> Row] /\ agents'[s] = row
          /\ \A t \in Subs : t # s => agents'[t] = agents[t]
      BY <1>1, <3>1, <3>3, <3>4
    <3>6. TypeOK'
      BY <1>1, <1>2, <3>2, <3>4, <3>5 DEF TypeOK
    <3>7. OwnerVouched'
      BY <1>2, <3>2, <3>4, <3>5 DEF IInv, OwnerVouched, Registered
    <3> QED BY <3>2, <3>4, <3>5, <3>6, <3>7 DEF Grows
  <2> QED BY <2>1, <2>2
<1>4. ASSUME NEW x \in Requests PROVE Sound(x)'
  <2>1. req'[x] = req[x]
    BY <1>2
  <2> QED BY <1>1, <1>3, <2>1, OthersKeep DEF IInv
<1> QED BY <1>3, <1>4 DEF IInv

-----------------------------------------------------------------------------
(* An empty table.                                                         *)
LEMMA InitHolds == Init => IInv
<1> SUFFICES ASSUME Init PROVE IInv
  OBVIOUS
<1>1. req \in [Requests -> Request] /\ \A r \in Requests : req[r] = Idle
  BY IdleFacts DEF Init
<1>2. agents \in [Subs -> Row] /\ \A s \in Subs : agents[s].status = "none"
  BY RowFacts DEF Init
<1>3. TypeOK /\ OwnerVouched
  BY <1>1, <1>2 DEF Init, TypeOK, OwnerVouched, Registered
<1>4. ASSUME NEW r \in Requests PROVE Sound(r)
  BY <1>1, IdleFacts DEF Sound, Drafted, Warned, OwnColumn
<1> QED BY <1>3, <1>4 DEF IInv

(* A step that changes nothing.                                            *)
LEMMA StutterKeeps == ASSUME IInv, UNCHANGED vars PROVE IInv'
<1>1. UNCHANGED <<agents, asserted, first, req>>
  BY DEF vars
<1>2. TypeOK /\ TypeOK' /\ OwnerVouched' /\ Grows
  BY <1>1 DEF IInv, TypeOK, OwnerVouched, Registered, Grows
<1>3. ASSUME NEW x \in Requests PROVE Sound(x)'
  BY <1>1, <1>2, OthersKeep DEF IInv
<1> QED BY <1>2, <1>3 DEF IInv

(* Every step keeps the invariant.                                         *)
LEMMA NextKeeps == IInv /\ [Next]_vars => IInv'
<1> SUFFICES ASSUME IInv, [Next]_vars PROVE IInv'
  OBVIOUS
<1>1. CASE UNCHANGED vars
  BY <1>1, StutterKeeps
<1>2. ASSUME NEW r \in Requests, NEW s \in Subs, RegisterNew(r, s) PROVE IInv'
  BY <1>2, RegisterNewKeeps
<1>3. ASSUME NEW r \in Requests, NEW s \in Subs, Insert(r, s) PROVE IInv'
  BY <1>3, InsertKeeps
<1>4. ASSUME NEW r \in Requests, NEW s \in Subs, InsertLost(r, s) PROVE IInv'
  BY <1>4, EndKeeps DEF InsertLost
<1>5. ASSUME NEW r \in Requests, NEW s \in Subs,
             \/ LoadRebind(r, s) \/ LoadWriteThrough(r, s)
             \/ LoadSetShared(r, s) \/ LoadDeregister(r, s)
      PROVE  IInv'
  BY <1>5, LoadKeeps
<1>6. ASSUME NEW r \in Requests, NEW s \in Subs, LookUp(r, s) PROVE IInv'
  BY <1>6, LookUpKeeps
<1>7. ASSUME NEW r \in Requests, CheckSiblings(r) PROVE IInv'
  BY <1>7, CheckSiblingsKeeps
<1>8. ASSUME NEW r \in Requests, LoadBatch(r) PROVE IInv'
  BY <1>8, LoadBatchKeeps
<1>9. ASSUME NEW r \in Requests, Commit(r) PROVE IInv'
  BY <1>9, CommitKeeps
<1>10. ASSUME NEW r \in Requests, Abort(r) PROVE IInv'
  BY <1>10, EndKeeps DEF Abort
<1>11. ASSUME NEW s \in Subs, RegistryAssigns(s) \/ ApplyReassignment(s) PROVE IInv'
  BY <1>11, OwnershipKeeps
<1> QED BY <1>1, <1>2, <1>3, <1>4, <1>5, <1>6, <1>7, <1>8, <1>9, <1>10, <1>11 DEF Next

(* The invariant holds throughout.                                         *)
LEMMA Inductive == Spec => []IInv
BY InitHolds, NextKeeps, PTL DEF Spec

-----------------------------------------------------------------------------
(* Every row and every copy a handler holds has its type, and a registered *)
(* agent has an owner, in every state.                                     *)
THEOREM TypeCorrect == Spec => []TypeOK
<1>1. IInv => TypeOK
  BY DEF IInv
<1> QED BY <1>1, Inductive, PTL

(* register_agent, write_through_ownership, reconcile_agent_ownership,     *)
(* apply_owner_reassignment: owner_sub is the owner of the registration or *)
(* one the ownership registry has named, whatever copies are committed in  *)
(* whatever order.                                                         *)
THEOREM OwnersVouched == Spec => []OwnerVouched
<1>1. IInv => OwnerVouched
  BY DEF IInv
<1> QED BY <1>1, Inductive, PTL

-----------------------------------------------------------------------------
(* The steps that write the table.                                         *)
LEMMA Writers ==
    ASSUME Next
    PROVE  \/ agents' = agents
           \/ \E r \in Requests, s \in Subs : Insert(r, s)
           \/ \E r \in Requests : Commit(r)
           \/ \E s \in Subs : ApplyReassignment(s)
BY DEF Next, RegisterNew, InsertLost, LoadRebind, LoadWriteThrough, LoadSetShared, LoadDeregister,
       LookUp, CheckSiblings, LoadBatch, Abort, RegistryAssigns

(* An insert writes one row, and only where there was none.                *)
LEMMA InsertFacts ==
    ASSUME IInv, NEW r \in Requests, NEW s \in Subs, Insert(r, s), NEW t \in Subs
    PROVE  agents'[t] = agents[t] \/ (t = s /\ agents[t].status = "none")
BY DEF IInv, TypeOK, Insert, Registered

(* A reassignment writes the owner of one active row.                      *)
LEMMA ApplyFacts ==
    ASSUME IInv, NEW s \in Subs, ApplyReassignment(s), NEW t \in Subs
    PROVE  /\ agents'[t].status = agents[t].status /\ agents'[t].shared = agents[t].shared
           /\ req' = req
<1>1. agents \in [Subs -> Row] /\ agents[s] \in Row /\ asserted[s] \subseteq Owners
  BY DEF IInv, TypeOK
<1>2. PICK o \in Owners : agents' = [agents EXCEPT ![s] = [agents[s] EXCEPT !.owner = o]]
  BY <1>1 DEF ApplyReassignment, Reassigned
<1>3. PICK row : row = [agents[s] EXCEPT !.owner = o]
  OBVIOUS
<1>4. row.status = agents[s].status /\ row.shared = agents[s].shared
  BY <1>1, <1>3 DEF Row
<1>5. agents'[t] = IF t = s THEN row ELSE agents[t]
  BY <1>1, <1>2, <1>3
<1> QED BY <1>4, <1>5 DEF ApplyReassignment

(* deregister_agent is final: no copy loaded before it, and no             *)
(* registration, makes a suspended agent active again.                     *)
THEOREM SuspensionForGood == Spec => SuspensionStands
<1> DEFINE A == \A s \in Subs : agents[s].status = "suspended" => agents'[s].status = "suspended"
<1>1. IInv /\ [Next]_vars => [A]_vars
  <2> SUFFICES ASSUME IInv, Next, NEW s \in Subs, agents[s].status = "suspended"
               PROVE  agents'[s].status = "suspended"
    OBVIOUS
  <2>1. ASSUME NEW r \in Requests, NEW t \in Subs, Insert(r, t)
        PROVE  agents'[s].status = "suspended"
    BY <2>1, InsertFacts
  <2>2. ASSUME NEW r \in Requests, Commit(r) PROVE agents'[s].status = "suspended"
    BY <2>2, CommitFacts
  <2>3. ASSUME NEW t \in Subs, ApplyReassignment(t) PROVE agents'[s].status = "suspended"
    BY <2>3, ApplyFacts
  <2> QED BY <2>1, <2>2, <2>3, Writers
<1> QED BY <1>1, Inductive, PTL DEF Spec, SuspensionStands

(* register_agent and admin_register_agent: an identity is added to a      *)
(* credential that had a suspended one when the call began only when the   *)
(* caller confirmed it, although the check and the insert take no lock.    *)
THEOREM KillSwitchProved == Spec => KillSwitchHolds
<1> DEFINE A == \A s \in Subs :
                  ~Registered(s) /\ Registered(s)' =>
                     \E r \in Requests :
                        /\ req[r].pc = "insert" /\ s \in req[r].rows
                        /\ req'[r].pc # "insert"
                        /\ req[r].shut => req[r].confirm
<1>1. IInv /\ [Next]_vars => [A]_vars
  <2> SUFFICES ASSUME IInv, Next, NEW s \in Subs,
                      agents[s].status = "none", agents'[s].status # "none"
               PROVE  \E r \in Requests : /\ req[r].pc = "insert" /\ s \in req[r].rows
                                          /\ req'[r].pc # "insert"
                                          /\ req[r].shut => req[r].confirm
    BY DEF Registered
  <2>1. ASSUME NEW r \in Requests, NEW t \in Subs, Insert(r, t)
        PROVE  /\ req[r].pc = "insert" /\ s \in req[r].rows
               /\ req'[r].pc # "insert"
               /\ req[r].shut => req[r].confirm
    <3>1. s = t
      BY <2>1, InsertFacts
    <3>2. req'[r].pc # "insert"
      BY <2>1 DEF Insert, IInv, TypeOK, Idle
    <3> QED BY <2>1, <3>1, <3>2 DEF Insert, IInv, Sound, Warned
  <2>2. ASSUME NEW r \in Requests, Commit(r) PROVE FALSE
    BY <2>2, CommitFacts
  <2>3. ASSUME NEW t \in Subs, ApplyReassignment(t) PROVE FALSE
    BY <2>3, ApplyFacts
  <2> QED BY <2>1, <2>2, <2>3, Writers
<1> QED BY <1>1, Inductive, PTL DEF Spec, KillSwitchHolds

(* Handlers that hold copies of one row do not undo each other: a column   *)
(* of a registered row changes only by the commit of a handler whose       *)
(* column it is, or by a reassignment under the row's lock.                *)
THEOREM OwnColumnsOnly == Spec => OnlyItsWriter
<1> DEFINE B(s) == /\ agents'[s].status # agents[s].status => Committing("deregister", s)
                   /\ agents'[s].shared # agents[s].shared => Committing("set_shared", s)
                   /\ agents'[s].owner # agents[s].owner =>
                        \/ Committing("write_through", s)
                        \/ Committing("reconcile", s)
                        \/ UNCHANGED req
           A == \A s \in Subs : Registered(s) => B(s)
<1>1. IInv /\ [Next]_vars => [A]_vars
  <2> SUFFICES ASSUME IInv, Next, NEW s \in Subs, agents[s].status # "none" PROVE B(s)
    BY DEF Registered
  <2>1. ASSUME NEW r \in Requests, NEW t \in Subs, Insert(r, t) PROVE B(s)
    BY <2>1, InsertFacts
  <2>2. ASSUME NEW r \in Requests, Commit(r) PROVE B(s)
    <3>1. req[r].pc = "commit" /\ req'[r] = Idle
      BY <2>2 DEF Commit, IInv, TypeOK
    <3>2. \A op : req[r].op = op /\ s \in req[r].rows => Committing(op, s)
      BY <3>1 DEF Committing
    <3> QED BY <2>2, <3>2, CommitFacts
  <2>3. ASSUME NEW t \in Subs, ApplyReassignment(t) PROVE B(s)
    BY <2>3, ApplyFacts
  <2>4. CASE agents' = agents
    BY <2>4
  <2> QED BY <2>1, <2>2, <2>3, <2>4, Writers
<1> QED BY <1>1, Inductive, PTL DEF Spec, OnlyItsWriter
=============================================================================
