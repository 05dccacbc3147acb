----------------------------- MODULE ReadCursor ------------------------------
(***************************************************************************)
(* The read cursor of one participant (participants.last_read_seq): what   *)
(* get_conversation returns and how far it moves the cursor that the inbox *)
(* compares with the last message.  A reader loads the participant without *)
(* a lock, selects a page of messages, and commits a new cursor.  Board    *)
(* models who may read and post; here somebody posts and one agent reads.  *)
(* (Names shared with Subscriptions are prefixed: ReaderProofs has both.)  *)
(***************************************************************************)
EXTENDS Naturals

CONSTANTS
    Readers,    \* concurrent get_conversation calls of the agent
    PageLimit,  \* MAX_MESSAGES_PER_GET_CONVERSATION
    MaxLog      \* bound: messages of the conversation

ASSUME PageAssumption == PageLimit \in Nat \ {0} /\ MaxLog \in Nat \ {0}

VARIABLES
    last,       \* the highest message sequence number
    cursor,     \* last_read_seq
    reads,      \* the local state of every call
    delivered   \* history: the in-window messages returned so far

RCvars == <<last, cursor, reads, delivered>>

(* loaded: the cursor on the loaded row.  since: the caller's since_seq,   *)
(* or 0.  page: the messages selected.                                     *)
Call == [pc : {"idle", "page", "commit"}, loaded : Nat, since : Nat, page : SUBSET Nat]
Idle == [pc |-> "idle", loaded |-> 0, since |-> 0, page |-> {}]

RCTypeOK ==
    /\ last \in 0..MaxLog
    /\ cursor \in Nat
    /\ reads \in [Readers -> Call]
    /\ delivered \subseteq 1..last

RCInit ==
    /\ last = 1
    /\ cursor = 0
    /\ reads = [r \in Readers |-> Idle]
    /\ delivered = {}

(* post_message gives the next number, under the conversation's lock.      *)
Post ==
    /\ last < MaxLog
    /\ last' = last + 1
    /\ UNCHANGED <<cursor, reads, delivered>>

(* The row is loaded; since_seq may be any number, also one ahead of the   *)
(* log.                                                                    *)
Load(r) ==
    /\ reads[r].pc = "idle"
    /\ \E s \in 0..MaxLog :
         reads' = [reads EXCEPT ![r] = [pc |-> "page", loaded |-> cursor, since |-> s, page |-> {}]]
    /\ UNCHANGED <<last, cursor, delivered>>

(* The page: the first messages after since_seq, and after the window's    *)
(* timestamp (which excludes those up to some number).                     *)
PageInclusive(since, before) ==
    LET first == IF before > since THEN before ELSE since
    IN  {n \in first..last : n < first + PageLimit}
Page(since, before) ==
    LET first == IF before > since THEN before + 1 ELSE since + 1
    IN  {n \in first..last : n < first + PageLimit}

SelectPage(r) ==
    /\ reads[r].pc = "page"
    /\ \E before \in 0..last :
         reads' = [reads EXCEPT ![r] =
                   [@ EXCEPT !.pc = "commit", !.page = Page(reads[r].since, before)]]
    /\ UNCHANGED <<last, cursor, delivered>>

(* page_max_seq: the last message of the page, since_seq if it is empty.   *)
PageMax(q) == IF q.page = {} THEN q.since ELSE CHOOSE n \in q.page : \A m \in q.page : m <= n

(* The cursor advances over a page with messages, never over an empty one. *)
AdvancesAlways(q) == PageMax(q) > q.loaded
Advances(q) == q.page # {} /\ PageMax(q) > q.loaded

(* mark_read = FALSE leaves the cursor alone.                              *)
CommitRead(r) ==
    /\ reads[r].pc = "commit"
    /\ \E markRead \in BOOLEAN :
         cursor' = IF markRead /\ Advances(reads[r]) THEN PageMax(reads[r]) ELSE cursor
    /\ delivered' = delivered \cup reads[r].page
    /\ reads' = [reads EXCEPT ![r] = Idle]
    /\ UNCHANGED last

(* The call dies before its commit.                                        *)
Abort(r) ==
    /\ reads[r].pc # "idle"
    /\ reads' = [reads EXCEPT ![r] = Idle]
    /\ UNCHANGED <<last, cursor, delivered>>

RCNext == Post \/ \E r \in Readers : Load(r) \/ SelectPage(r) \/ CommitRead(r) \/ Abort(r)

RCSpec == RCInit /\ [][RCNext]_RCvars

-----------------------------------------------------------------------------
(* get_conversation: the cursor rests on a message the agent was really    *)
(* given, so that nothing posted later can hide behind it in the inbox.    *)
CursorDelivered == cursor # 0 => cursor \in delivered

(* "last_read_seq only ever advances forward, never regresses".            *)
CursorAdvances == [][cursor' >= cursor]_RCvars
=============================================================================
