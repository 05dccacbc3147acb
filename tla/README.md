# A formal model of agent-comms-mcp

agent-comms-mcp is a message board for agents: bots register, open
conversations, invite one another and exchange typed messages; and they submit
*proposals*, changes to an external target that a judge or a human owner has to
approve before the board applies them. Everything is state in one PostgreSQL
database, changed by async request handlers of one or several server processes.
A handler is a sequence of transactions with external calls between them. The
schema, a few `SELECT ... FOR UPDATE` and a few advisory locks are all that
orders concurrent handlers, so the questions worth asking are about
interleavings, about crashes between two transactions, and about commits whose
outcome is unknown.

This directory holds TLA+ modules that model that code, TLC configurations that
check them on small instances, and TLAPS proofs for every instance. Line
numbers refer to the files in `src/`; `PROJECT.json` maps each definition to
the lines it stands for.

## 1. Inventory

| Component | State | Operations | How it meets the others |
|---|---|---|---|
| Proposal pipeline (`service.py` 7091–10614, `models.ProposalHold`) | `proposal_holds` rows: dedup key, status, content, approvals, decision columns | `create_proposal`, `decide_proposal`, `withdraw_proposal`, `_apply_or_finalize_proposal_hold` | calls the injected `ProposalJudge` (`plugins.py`) without holding a lock; its partial unique index is the only thing that keeps two rows off one target |
| Proposal gates (`service.py` 6755–7090) | counts over audit rows and holds, advisory locks, kill switch | rate limits, daily auto-approval cap, cross-brain pending cap | consulted by `create_proposal` before a row is touched and again before a claim |
| Proposal decision log (`models.ProposalBotLogSeq`, migration `b4a2d8e6f1c3`) | per-bot counter, `log_seq` on each decided row | trigger at each decision, cursor reads | read by the bots |
| Apply HTTP client (`proposal_apply_http_client.py`) | none between calls; within one, the attempt, the deadline, whether an attempt was ambiguous | `apply_proposal` with retries | a judge's way to the approvals service, which executes the write: it decides which failures are definite and which are ambiguous, and so what `_safe_apply` records |
| Conversations, participants, messages (`service.py` 3586–5139, 10617–11251, `state_machine.py`) | `conversations`, `participants`, `messages` | start, invite, accept, decline, leave, archive, rename, extend, reopen, post, read | risk scoring diverts a message or an invitation to an approval hold |
| Approval holds (`service.py` 5513–6549) | `approval_holds` | divert, auto-clear, `decide_hold`, expiry on read | an approved hold posts its message or admits its agent |
| Risk and boundary crossing (`service.py` 5142–5455, `plugins.py` 284–433) | none; reads owners and sharing of the audience at the moment of posting | scoring | a high verdict diverts a message to a hold |
| Admission and visibility (`service.py` 1393–1492, 3366–3585, 4134–4291) | the conversation's `owner_snapshot` | predicates over agents, at opening, invitation and approval | guard of start, invite and `decide_hold`; what it admits is what the scorer relies on |
| Agent registry and ownership (`service.py` 1714–3032, 11657–12109) | `agents` | register, share, deregister, reassign in two steps, reconcile with an ownership service | shared by all |
| Inbox and subscriptions (`subscriptions.py`, `main.py` 471–707, `providers/comms.py` 2984–3163, `service.py` 11254–11656) | per process: records by URI, a count per agent, background tasks | subscribe, unsubscribe, notify, close | the write tools and `decide_approval` schedule a ping after their commit |
| Tools, routes, authentication, schemas, migrations, metrics | none of their own | validation, dispatch | call the service |

What is hard here, and why tests hardly reach it:

- *The exactly-once write.* `judge.apply()` changes somebody else's system. It
  must happen at most once per hold although humans, the judge's own approval
  and resubmissions race for the row, the process may die at any point, and a
  commit may fail after it took effect.
- *Honest outcomes.* A write that may have happened must never be recorded as
  a failure, since the failure releases the dedup slot and invites a second
  write.
- *Load, await, update.* Several handlers load a row without a lock and write
  it later; SQLAlchemy then emits an UPDATE of just the columns that differ
  from the loaded copy. Interleaved with a locked handler this leaves mixtures
  neither handler intended.
- *An unreliable wire.* The write happens behind an HTTP request that may be
  lost, late, refused, answered by a proxy or answered unreadably; the caller
  must still say whether it happened.
- *Rules checked at different times.* Admission looks at owners when an agent
  comes in, scoring when a message is posted, approval days later; owners and
  sharing change in between, and whoever comes in reads what was said before.
- *A lock given up to send.* `notify()` sends without the registry's lock and
  prunes afterwards what it found dead before.
- *Time.* Conversations and holds expire lazily, when somebody looks at them.
- *Limits.* Caps and rate limits are counts over rows, correct only where a
  lock makes count-then-insert atomic.

`PROJECT.json` lists each hazard at the line where it bites together with the
properties that would catch it.

## 2. Modules

| Module | Role |
|---|---|
| `Proposals` | the proposal pipeline as coded: coroutines with program counters over the holds table, the targets, crashes, failing commits |
| `ProposalLifecycle` | what the pipeline promises: six steps in the life of a hold |
| `ProposalsImplement` | the refinement mapping from the first to the second |
| `ProposalsProofs` | TLAPS proofs of the invariants and of the refinement |
| `Board`, `BoardProofs` | one conversation as coded: locked and unlocked handlers, messages, participants, approval holds, and its proofs |
| `ReadCursor` | one participant's read cursor under concurrent reads |
| `ProposalGates`, `ProposalGatesProofs` | the rate limit, the daily cap, the kill switch and their settings, and their proofs |
| `Registry`, `RegistryProofs` | the agents table and every handler that writes it, and its proofs |
| `OwnerSweep`, `OwnerSweepProofs` | which rows a reconciliation takes, and the proof that none starves |
| `ApplyClient`, `ApplyClientProofs` | one call chain of `apply_proposal`, the network and the approvals service, and its proofs |
| `Boundary`, `BoundaryProofs` | who is in a conversation and what is said there unreviewed, under changing ownership, and its proofs |
| `Subscriptions` | the subscription registry, its two handlers and the pings of the write tools |
| `ReaderProofs` | proofs about what a reader is told, by `Subscriptions` and by `ReadCursor` |
| `MCProposals`, `MCBoard`, `MCReadCursor`, `MCProposalGates`, `MCRegistry`, `MCOwnerSweep`, `MCApplyClient`, `MCBoundary`, `MCSubscriptions` | instances for TLC |

### Proposals

State.

- `rows`: one record per `proposal_holds` row. `status` is the column;
  `"absent"` is a row not inserted yet. `key` stands for the columns of
  `_proposal_dedup_where`. `content` is the payload and the fingerprint, the
  columns `_proposal_resubmission_snapshot` compares. `approvals`, `source`,
  `rule` and `note` are `approvals`, `decision_source`, the auto-rule columns
  and the class of `decision_note`.
- `req`: one record per request coroutine, with its program counter, what it
  loaded from the database (`loaded`), what it wants to store or has captured
  for the external calls (`content`) and the outcome it has to record.
- `target`: the digest of the external state behind each key, which other
  people may edit at any time.
- `faults`: how many terminal commits have failed, bounded by
  `MaxCommitFaults`.
- `writes`, `endorsed`: history variables. They record what reached the target
  under each hold and who approved which content. No action reads them except
  `OperatorRepairs`, which stands for a human looking at the target.

Actions. An action is one transaction or one awaited call.

| Code | Actions |
|---|---|
| `create_proposal`: validation, target resolution, fingerprint | `Submit`, `SubmitRefused` |
| `_dedup_or_insert_proposal` | `DedupSelect`, `DedupInsert`, `DedupInsertLost`, `DedupReselect`, `ResubmitUpdate` |
| the judge's verdict in `create_proposal` | `JudgeHolds`, `JudgeErrs`, `JudgeApproves` |
| gates before auto-approval | `AutoApproveWithheld` |
| `_claim_proposal_hold_for_applying` | `AutoClaim`, `AutoClaimLost` |
| `decide_proposal`, `withdraw_proposal` (row locked up to the commit) | `Reject`, `Approve`, `Withdraw`, `DecisionRefused` |
| `_apply_or_finalize_proposal_hold` | `ApplyRead`, `ApplyCheck`, `ApplyCheckFails`, `ApplyCall`, `Finish`, `Recover`, `LastDitch` |
| crash, cancellation, propagating error | `Abort` |
| the world | `EditTarget`, `OperatorRepairs` |

What the model leaves open rather than computing: whether a rate limit, a cap,
the kill switch or validation refuses (each may refuse at any time, which is
more than the code allows); which verdict the judge gives; what `apply()`
answers, drawn from `ApplyAnswers` together with whether the target was really
written. The second look at the auto-rule allowlist while a claimed hold is
checked is part of `ApplyCheckFails`. `SafeApply` is the translation of
`_safe_apply` and `_normalize_outcome`: which answers count as applied, failed
or indeterminate. A terminal commit may succeed, fail, or fail after it landed.

Bounds. `MaxCommitFaults` bounds failing commits; the number of rows is bounded
by `Holds` (an INSERT needs an unused id).

### Board

One conversation is modelled because conversations share nothing but agents and
rate limits. State:

- `conv`: state, archived flag, and whether the deadline has passed (`lapsed`
  stands for `expires_at <= now`);
- `part`: role and status of each agent, `log`: the messages in order, each with
  its type and the hold it came from; `holds`: the `approval_holds` rows;
- `req`: handlers between their load and their commit;
- `reopened`, `via`: history, the log's length at the last reopening and how
  each agent came in.

A handler that locks the conversation is one action: nothing it reads can change
under it except the status of its own caller, and a membership change in that
window equals one right after it. A handler without the lock is a load
(`Load...`), which decides on its copy, and a commit, which writes the columns
it changed there. `decide_hold` is two actions since it looks at the hold's
deadline before it waits for the conversation's lock; a failed re-validation
gives up both locks and comes back (`ApproveInviteInvalid`, `RejectInvalid`).

| Code | Actions |
|---|---|
| `start_conversation` | `StartConversation` (posted, held, or cleared) |
| `post_message`, `_divert_high_risk_message` | `Post`, `PostHeld`, `PostCleared` |
| `invite`, `_divert_invite_for_approval` | `Invite`, `InviteHeld`, `InviteCleared` |
| `archive_`, `extend_`, `reopen_conversation` | `ArchiveConversation`, `ExtendConversation`, `ReopenConversation` |
| any denial of these (it commits, and with it a noticed expiry) | `LockedDenied` |
| `accept_invite`, `decline_invite`, `leave` | `LoadAccept`, `AcceptInvite`, `LoadDecline`, `DeclineInvite`, `LoadLeave`, `Leave` |
| `rename_conversation`, `get_conversation`, denials without a lock | `LoadTouch`, `Touch` |
| `get_hold_status`, `list_pending_approval_holds` | `LoadHold`, `CommitExpiredHold` |
| `get_hold_conversation_participants`, an expired `decide_hold` | `LockExpiredHold` |
| `decide_hold` | `DecideHold`, `RejectHold`, `ApproveDenied`, `ApproveMessage`, `ApproveInvite`, `ApproveInviteMoot`, `ApproveInviteInvalid`, `RejectInvalid` |
| time, crashes | `Lapse`, `HoldLapse`, `Abort` |

The risk scorer, the auto-approver, admission, rate limits and payload checks
are inputs: a message may be low-risk, held or cleared, and any call may be
denied. Message types are reduced to those the state machine, the sender roles
and the free-text barrier tell apart (`note` stands for
`BARRIER_SENSITIVE_TYPES`, `report` for every type without an effect). Sender
and payload of a message and the name of a conversation are left out. The
auto-approver that ships with the repository never clears; the plug-in
interface allows it, and so does the model.

### ReadCursor

`get_conversation` of one active participant: the row with `last_read_seq` is
loaded, a page selected (any `since_seq`, any timestamp window, the page limit),
and the cursor committed when the page has messages and lies beyond the loaded
cursor. `delivered` is history: what was returned. The names it would share with
`Subscriptions` are prefixed (`RCSpec`, `RCTypeOK`), so that one module can prove
things about both.

### ProposalGates

A request is one call of `create_proposal`, followed through the two places where
it counts rows of `audit_log` under an advisory lock: `Begin`, `LockRate`,
`CountAttempts` or `RateLimited`, `Mark` for the submissions of a bot; then
`KillSwitched`, `Uncapped` or `AskCap`, `LockCap`, `CountApproved` or
`CapExhausted`, `Claim` for the auto-approvals of an action type. Everything
`Proposals` already models between and around these points is `Abort`: the
request ends and its transaction gives the locks back. `marked` and `charged` are
the requests with an attempt and an auto-approval row; `began` and `at` are the
times of these rows. The two differ in kind: the marker's time is `now()`, the
start of its transaction, the auto-approval's is `clock_timestamp()` read under
the lock.

`rates`, `caps` and `switch` are what the environment held when the process
started, reduced to what the parsers tell apart: unset, blank, unreadable, or an
object whose entries are absent, integers or anything else. `RateLimitFor`,
`Capped`, `CapFor` and `KillSwitch` are the parsers and look-ups together.
Different processes are assumed to run with the same settings, and one database
clock that does not go back to serve both the stamps and the window. Two places
use the application's clock instead: the start of the window, and the stamp of an
auto-approval of an uncapped type when the clock query fails (service.py
8926–8941). The first is covered by the assumption, the second is not modelled,
since no cap counts such a row. Time is in ticks; `MaxTime` is the bound.

### Registry

`agents` holds status, owner and sharing of each identity; several identities
may belong to one credential (`Base`). Only `apply_owner_reassignment` locks its
row, and is one action. Every other handler loads rows, decides on its copies and
commits the columns it changed (`Merge`, as in `Proposals` and `Board`).

| Code | Actions |
|---|---|
| `register_agent`, `admin_register_agent` of a new identity | `RegisterNew`, `CheckSiblings`, `Insert`, `InsertLost` |
| `register_agent` of an existing one | `LoadRebind`, `Commit` |
| `_resolve_caller_agent` with `write_through_ownership` | `LoadWriteThrough`, `Commit` |
| `set_agent_shared`, `deregister_agent` | `LoadSetShared`, `LoadDeregister`, `Commit` |
| `reconcile_agent_ownership` | `LoadBatch`, `LookUp`, `Commit` |
| `apply_owner_reassignment` | `ApplyReassignment` |
| refusals, failures, crashes | `Abort` |
| the ownership registry | `RegistryAssigns` |

`asserted` is every owner the registry ever named for an identity: a verified
token or a cached answer may carry an old one. It is kept per row, although the
claim of a token is its credential's and goes to whichever row the key resolves
to (providers/comms.py 369–375). `first` and `shut` are history.

### OwnerSweep

The order in which `reconcile_agent_ownership` visits rows: least recently
checked first, ties by id, at most the clamped limit, all stamped together. Rows
enter and leave the table while a sweep is in flight, look-ups may fail, and a
sweep may die. Sweeps do not overlap: the code is written for a periodic task.
`passed` and `missed` are history.

### ApplyClient

The board's side: `pc` is where the coroutine is (`idle` before a call, `top` of
the loop, `wire` while a request is awaited, `sleep`, `returned`), `attempt`,
`saw` (`saw_ambiguous`), `clock` and `wake` its locals, `outcome` what each call
returned. `net` holds requests on their way, which arrive in any order, late or
never; `reply` is the response that reached the waiting client. The approvals
service is not in the repository. It is modelled from the contract the client's
docstring states: a hold id is executed at most once, `record`
(`proposal_apply_attempts`) remembers how that ended or that nobody knows, a
second request for it is answered from the record or with a conflict, and a
request refused by its status was not executed.

| Code | Actions |
|---|---|
| early returns before the first request | `Misconfigured` |
| the loop's head | `Call`, `OutOfBudget`, `Attempt` |
| `client.post` under `asyncio.timeout` | `Send`, `Response`, `Exception`, `WallClock`, `Cancelled` |
| `_classify_exception`, `_classify_response` and what follows | `ClassifyException`, `ClassifyResponse`, `Settle`, `Definite`, `Ambiguous` |
| after the loop | `Exhausted` |
| the sleep, time | `Wake`, `TimePasses` |
| a failed proposal submitted again under a new id | `Resubmit` |
| service and network (external) | `Refuse`, `Begin`, `Execute`, `Answer`, `Interfere` |

Statuses and bodies are reduced to the seven `Replies` the classifier tells apart,
exceptions to those raised before anything leaves the process and the others.
`httpx` is trusted on that line, as the code trusts it. `OutcomeTrue` is what
`Proposals` assumes of a judge that keeps its contract: the answers in
`ApplyAnswers` are honest about the write.

### Boundary

One conversation and the owners (`owners`) and sharing (`shared`) of all agents,
which `Reassign` and `SetAgentShared` change at any time. Opening is two steps,
`AuthorizeOpen` (the pairwise rules and the snapshot) and `StartConversation`
(the opener is scored and everything committed), since ownership is looked up in
both. `Invite`, `InviteDiverted`, `ApproveInvite` and `CloseInvite` are the ways
of coming in, `OwnerFrozen` the rule they share. `Say` is a post: scored against
the live owners of everybody invited or active, then posted, held, or cleared by
the auto-approver; `ApproveMessage` and `RejectMessage` decide a held one.
`sensitive` is membership in `BARRIER_SENSITIVE_TYPES`. `msgs` holds only
messages nobody reviewed, since the promises are about those; `history` says
whether any free text is in the log. Invitations and posts are single steps
because both hold the conversation's row lock, which `Board` models; rate limits,
expiry and archiving are `Board`'s too. A failing ownership lookup denies the
call and changes nothing.

`moved`, `excused` and `founders` are history. `docs/DESIGN.md` 2611–2650 accepts
that ownership may change after a member was admitted or a message scored: an
agent that moved is excused from then on, for what had been said before. Nothing
else is excused.

### Subscriptions

`registry` is the union of the lists in `_registry`, a record carrying its own
identity (`id`), as `remove_if_current` and the pruning compare by identity.
`count` is `_agent_subscription_counts`. `session` says of each session whether
it is open, its stream closed, or collected (the weak reference is dead). `req`
are the handlers of `main.py`, `write` a write tool between its commit and its
pings, `task` the background `notify()` of each write and URI. The registry's
lock makes each of `Register`, `Dropped` (the removals) and `Snapshot` one step;
everything between them interleaves.

| Code | Actions |
|---|---|
| `_handle_subscribe_resource` | `AskSubscribe`, `Register`, `AuditSubscribe`, `AuditFails`, `GiveUp` |
| `_handle_unsubscribe_resource` | `AskUnsubscribe`, `Peek`, `AuditUnsubscribe`, `Unsubscribe`, `GiveUp` |
| the write tools, `decide_approval` | `PostMessage`, `ApproveMessage`, `Accept`, `DeclineInvite`, `Leave`, `Invite`, `ChangeState`, then `Schedule` |
| `notify` | `Snapshot`, `Notify`, `Prune` |
| peers and the garbage collector | `Close`, `Collect` |

A session is bound to one agent (its token); `_Record.sub` is not used by any
decision and is left out. Denials, and the audit rows of denials, change nothing
here. `audited` and `orphaned` are history.

## 3. What TLC checks

| Run | Instance | Shows |
|---|---|---|
| `proposals_own` | 3 requests, 2 rows, 1 key, 2 payloads, 2 digests, 3 commit faults, crashes | `TypeOK`, `ClaimHeld`, `OneWriterPerKey`, `AtMostOneWrite`, `OutcomeHonest`, and that the pipeline implements `ProposalLifecycle` |
| `proposals_cross` | 4 requests, 1 cross-brain row needing 2 owners, no fingerprint, a judge that may break its contract | `WrittenWithConsent` |
| `proposals_live` | 2 requests, 2 rows, 2 commit faults, no crashes | `ClaimsResolve` under fairness, given that the judge's calls return |
| `board_holds` | 1 request, 3 agents, 2 holds, `note`, 2 messages | `HoldOutcomeHonest`, `BarrierKept` |
| `board_races` | 2 requests, 2 agents, 1 hold, `note`, `confirm` and `decline`, 2 messages | `TypeOK`, `ClosureExplained`, `HoldOutcomeHonest`, `ArchivedQuiet` |
| `read_cursor` | 2 reads, 4 messages, pages of 2 | `RCTypeOK`, `CursorDelivered` |
| `proposal_gates` | 3 requests, 2 bots, 1 type, window and day of 2 ticks, settings of each form | `TypeOK`, `WindowKept`, `CapKept`, `FailsClosed`, `LocksComeBack` |
| `registry` | 2 requests, 2 identities of one credential, 2 owners | `TypeOK`, `OwnerVouched`, `SuspensionStands`, `KillSwitchHolds`, `OnlyItsWriter` |
| `owner_sweep` | 4 agents, limits below, inside and above the clamp of 2, 6 sweeps | `TypeOK`, `BoundedWait` |
| `apply_client` | 2 successive holds, 3 attempts, a budget of 5 ticks with 1 to be left for a retry | `TypeOK`, `OutcomeTrue`, `NoSecondWrite`, and `CallReturns` under fairness |
| `boundary` | 3 agents and 2 owners with every initial ownership and sharing, 1 change of ownership, 1 unreviewed message, 1 hold | `TypeOK`, `NoUnreviewedCrossing`, `SharedRecipientReviewed`, `AdmissionKept` |
| `subscriptions` | 2 sessions of one agent, a conversation and an inbox, 3 requests, 1 write, a cap of 2, 3 records | `TypeOK`, `CountsTrack`, `SubscriptionsAudited`, `PingsEntitled` |

Why the bounds are enough. For the board: an owner and one other agent, who
may be invited, active or gone, meet every race on one hold and one closing
message; a third is needed only for the disclosure barrier, where somebody is
still to be invited after a member has spoken, and `board_holds` has it. Two
messages are an opening and one that closes or discloses. One hold meets every
race on a hold; two are needed for two invitations of one agent. One unlocked request is enough to race every
locked handler, since those are single actions; two are needed where a reader
or a second decision races a decision. For the read cursor, two calls and pages
shorter than the log reach both orders of commit.

For the proposals: three requests on one key reach every race the code
comments worry about: a submission, a resubmission and a decision on one row;
two decisions and a judge; a driver between its claim and its terminal commit
with a resubmission and a second decision behind it. Two rows are needed for a
key that is released by one hold and taken by the next. Three commit faults
exhaust `Finish`, `Recover` and `LastDitch`, so that a row is left claimed. Two
digests make staleness, and two payloads a change of content, possible. The
cross-brain run uses a fourth request because two owners have to approve while
a submission and a resubmission are in flight.

For the gates: with limits of 1 and 2 and caps of 0 and 1, three requests are
enough to exceed each; three ticks cross a window and a midnight. For the
registry: two handlers on two identities meet every pair of writers on one row,
and a suspended identity beside a new one. For the sweeps: with four agents and
batches of two, an agent can be passed over by others that failed, entered or
returned; six sweeps go round the table twice.

For the apply client: a wrong verdict needs one ambiguous attempt and one that
seems definite, and a third shows that the flag survives a sleep; a second hold
is the resubmission a wrong `failed` would invite. The budget is long enough for
all attempts and short enough to end in each place. For the boundary: the rules
are about pairs of an author and a reader, and a third agent is the one whose
presence decides a pair's case (a shared member, an owner that enlarges the
snapshot); the properties speak of one message at a time, and the second of two
changes would only excuse a second agent. For the subscriptions: two sessions
reach replacement, collection and the cap of one agent; the cap and the count
concern one agent at a time; of three requests, one may subscribe, one replace or
unsubscribe and one meet the cap, while one write's task prunes.

`CHECK_DEADLOCK FALSE` is given where every call may have ended: for the gates,
the apply client, the boundary, the subscriptions and the cross-brain run. In the
other runs somebody can always edit a target or read.

Fairness. In `Proposals`, `Fairness` is weak fairness of the transactions a
request with a claim runs by itself (`RecordStep`: reading its row, the three
terminal writes). The event loop resumes a coroutine whose await has returned,
the database is taken to answer, and a row lock is released at the commit of a
transaction that waits for nothing else. Nothing makes a human, a submission, an
operator, an editor or a crash happen, and no fairness is assumed of them.

Nor is any assumed of the judge. `_safe_fingerprint` (service.py 7462–7532) and
`_safe_apply` await the injected plug-in without a timeout, the HTTP wrapper
bounds only its own `apply()` (`ApplyClient`) and hands `fingerprint()` to its
delegate (proposal_apply_http_client.py 826–827), and `docs/DESIGN.md` 1950–1957
says the latency of a judge is not "something this repo bounds or predicts". So
`ClaimsResolve` is an implication: if the judge's calls return, with whatever
answer (`JudgeCallsReturn`), a claimed hold is resolved. Without the premise, or
with it for one of the two calls only, TLC finds the hold that stays `applying`
behind a call that hangs, with no crash and no failed commit. The three terminal
writes are what the conclusion is about: with two failing commits the third ends
the claim. With crashes, or with three failing commits, a row may stay
`applying` for good: the code says so and leaves it to the operator. That is why
`ClaimsResolve` is checked with neither.

In `ApplyClient`, `Fairness` is weak fairness of the coroutine's own steps and of
time: the event loop runs what is ready and its timers fire. Nothing is assumed
of the service, the network or the caller; in particular a request may be
accepted and never answered.

Disagreements. Some statements of comments, docstrings or `docs/DESIGN.md` do not
hold of the code. Each is a definition of its module that no run keeps; naming it
as an INVARIANT or PROPERTY in a cfg reproduces the counterexample in seconds.
Those of the proposals come from the unlocked SELECT in
`_dedup_or_insert_proposal`, those of the board from writing an expiry from an
unlocked copy:

- `DecidedContentFrozen` (service.py 8183): the dedup match is selected without a
  lock, found `pending`, and updated by id. A decision in between has its row's
  payload and fingerprint rewritten. The comment at 8037–8043 says that it "does
  NOT mutate an 'applying' match in place".
- `TerminalDecisionStands` (1329): a handler without the lock writes `expired`
  over a conversation that was extended and then completed, and any participant's
  extend makes it active again. `docs/DESIGN.md` 804–805 says of reopen "This is
  the only board operation that REVERSES another participant's own explicit
  terminal decision".
- `ExpiredNeverPosts` (6001): a reader writes `expired` over a hold that was
  approved meanwhile and whose message is posted. `docs/DESIGN.md` 1251–1252 says
  "`rejected`/`expired` (content never posts)".
- `ApprovalsMatchContent` (service.py 8092): an owner's approval committed between
  the SELECT and the UPDATE of a resubmission survives on the new payload, which
  the comment at 8089 excludes.
- `NobodyJoinsArchived` (4065): an `accept_invite` that loaded the conversation
  before it was archived commits after; the docstring at 4056 excludes it.
- `ConfirmCompletes` (5646): a `confirm` that an auto-approver clears is posted
  and leaves the conversation active, against `state_machine.py` 65.
- `AdmittedWithinLimit` (8584): markers carry the time their transaction began.
  When a slow fingerprint call or a wait for the lock lies between that and the
  count, more submissions than "at most {limit} proposals per 60s per bot" (6817)
  are let through within one window. What the query counts stays within the
  limit (`WindowKept`).
- `JudgeErrorMeansPending` (8755): a judge that fails after a human
  decided the hold overwrites the decision's note.
- `ResubmissionStoredWhole` (8183): the UPDATE of a resubmission holds only the
  columns that differ from its own copy, so two of them leave a mixture.
- `DeclineTakesEffect` (6530): an approved `decline` is posted and leaves its
  sender active.
- `CursorAdvances` (11219): the later commit of a shorter page moves the read
  cursor back, which the comment at 11205 excludes.

## 4. What is proved

Every invariant and action property that a run checks is also proved here, for
every value of the constants; what remains with TLC is listed at the end.

`ProposalsProofs` proves, for any sets of requests, rows, keys, payloads,
digests and owners and any number of commit faults: `TypeCorrect`, `ClaimSafe`,
`OneWriter`, `WriteOnce`, `Honest`, `ConsentGiven`, and `Implements` (the
pipeline implements `ProposalLifecycle` when the judge keeps its contract). The
assumptions are those of `Proposals`: the key sets are subsets of `Keys`,
`RequiredOwners` is a function on them, the switches have their types, `None` is
none of the ids, and a key that does not cross brains needs exactly its one owner
(`OwnBrainAssumption`, which is what `_cross_brain_required_owners` computes).

None of the invariants is inductive. `AtMostOneWrite` holds because an unwritten
claim has at most one driver; that is true because a claim is taken under a
status check; and it stays true because a row leaves `applying` only through
its driver or, when it has none, through the operator. `IInv` says all that at
once:

- `Formed`: what a request must carry at each program counter, and that its row
  exists and has its key;
- `Exclusive`: one open row per key, one driver per row, the row of a driver
  before its terminal commit is `applying`;
- `Accounting`: how the driver's program counter and outcome, the row's status
  and the number of writes fit together: before `apply` nothing was written, an
  outcome of `applied` means one write, `failed` or `stale` none, and a row
  without a driver that reads `applied` was written;
- the properties themselves.

The proof does not visit each action for each conjunct. `StepShape` shows that
every action has one of eight effects on the pair of a request and its row
(insert, rewrite, note, claim, drop, resolve, write, nothing), and the
preservation lemmas `StepFormed`, `StepExclusive` and `StepAccounting` go over
the eight. `StepRefines` uses the same shapes: each is one step of
`ProposalLifecycle` or a stutter.

`ConsentGiven` has an invariant of its own, `Vouched`, beside `TypeOK` and
`Formed`: every approval on a row was given by that owner, and a row that was ever
claimed was endorsed by the judge or by all the owners it needs. The two steps
that claim, `AutoClaim` and the last `Approve`, establish it; a resubmission only
clears approvals, and no other step makes a row claimed. That the writes come
only from claimed rows is part of the invariant above. `OwnBrainAssumption` is
used for the first `Approve` of a key with one owner, which is claimed at once.

`BoardProofs` proves, for any agents, holds, types and requests and a log of any
length: `TypeCorrect`, `HoldsHonest`, `ClosuresExplained`, `BarrierProved` and
`ArchivedForGood`. `HoldOutcomeHonest` is not inductive, because a decision takes
two steps. The invariant says what may not happen between them: the hold of a
deciding request is pending, and no other request decides it (`Deciding`, the row
lock). `ClosureExplained` needs that a reopening lies in the past
(`PastReopening`). The rest is bookkeeping: what a hold of each kind is filled
with (`Filled`), what a request carries from its load (`Carried`), that there is
nothing before the opening (`Untouched`), and that nobody comes in twice
(`Entered`), so that an approved invitation stays the way its target came in. The
two action properties follow from the same invariant: `RolesKept` says that only
four actions bring anybody in, and `AdmittedByHold` that past free text those go
through a hold; `ArchivedStep` that an archived row makes every admitting or
posting action impossible, whatever was loaded before. The ids of holds are
assumed to differ from the words `via` uses for other ways in
(`HoldIdAssumption`).

`RegistryProofs` proves, for any identities, owners and requests: `TypeCorrect`,
`OwnersVouched`, `SuspensionForGood`, `KillSwitchProved` and `OwnColumnsOnly`.
What decides them is not the table but the copies that unlocked handlers hold.
The invariant says that a copy differs from what was loaded only in the column
that is its handler's own, and its owner only by one the ownership registry has
named (`OwnColumn`); since a commit writes just the differing columns, two stale
handlers cannot undo each other's columns. `Warned` says that a registration that
began with a suspended sibling still has a sibling at its check, because rows are
never deleted, and past the check was confirmed; `Drafted` what a new row will be.

`ReaderProofs` proves, for any sessions, requests, writes, cap and participants:
`TypeCorrect`, `CapKept`, `TrailKept` and `DepartedUnpinged`. `CountsTrack` needs
that a session has at most one record of a URI (`Lone`): `subscribe()` counts a
replaced record down by one. `HeldMinus` and `DroppedTallies` are then the whole of
the removals: a removal counts just what it takes out of the registry, however
stale the list it came with. The sweep at the cap recounts. `SubscriptionsAudited`
is inductive once a handler's uri, session and record are (`Carried`). For the
pings, `Departures` says that whoever had left when a write committed has still
left when its recipients are queried, so the conversation's filter holds none of
them. The invariant includes that `count` never exceeds the number of records
ever made, which its type needs.

The same module proves `CursorTyped` and `CursorSafe`: for any number of concurrent
reads, any page limit and any log, `CursorDelivered` holds. The invariant adds what a
call in flight carries: a page of existing messages which, unless it is empty, has a
last one (`WellPaged`); without that `PageMax` would choose nothing.

`ProposalGatesProofs` proves, for any numbers of requests, bots and action types,
any window, day, limits and settings: `TypeCorrect`, `RateLimitHolds`,
`DailyCapHolds`, `MalformedSettingsClose` and `LocksReturn`. A count is below its
limit only at the moment it is taken; what makes the row that follows safe is
that it is still so when the row is written. The invariant says that: a request
between its count and its row holds the lock of what it counted (`Holders`) and
there is room for one more (`Room`). Another request cannot fill the room, since
it would hold the same lock, and the clock only empties it. `Written` ties the
rows to program counters, so that no stamp of a written row changes.

`OwnerSweepProofs` proves `TypeCorrect` and `NobodyStarves` for any finite table
and any limits. `BoundedWait` is not inductive: its bound comes from counting who
has overtaken. The invariant says that an agent has been left out by at most as
many sweeps as there are agents with a later stamp than its own; a sweep that
leaves it out takes at least one agent that was ahead of it and stamps it later,
and nobody comes back.

`ApplyClientProofs` proves, for any number of attempts, budget, backoff and
resubmissions: `VerdictTrue`, `WriteOnce` and `TypeCorrect`. `OutcomeTrue` is not
inductive: a verdict of `failed` must also exclude a write still to come. The
invariant says why it does. The service's record is true of its write
(`Recorded`); earlier holds have failed and later ones were never heard of
(`InTurn`); a verdict stands on the record, or on a hold no request of which is on
its way or was executed (`Grounded`, `Untouched`); a response says what the record
says (`Answered`); and until an attempt was ambiguous the call has made one request
at most, either on its way or executed (`Unsettled`), so that a refusal, or an
exception before the request left, leaves nothing behind. `TypeCorrect` adds
`Ranges`: a retry has an attempt left, and a sleep obeys its caps.

`BoundaryProofs` proves, for any agents, rosters and sharing and any number of
messages, holds and changes of ownership: `NoCrossing`, `SharedReviewed`,
`FrozenOwners` and `TypeCorrect`. `NoUnreviewedCrossing` needs `AdmissionKept`,
since nothing is scored in an internal conversation: its members have the same
owners because they were all admitted against one snapshot. The rest of the
invariant is `Settled` (nothing was said before the opening, and a founder keeps
its row, so an invited agent is no founder) and `Remembered` (free text is in the
history, so an invitation that was not diverted finds none). The step that matters
is `StaysCovered`: a message stays covered as long as whoever comes in, or whose
ownership changes, is excused from it; each action is shown to do that.

The assumptions are the `ASSUME`s of the modules: the finiteness of the sets that
are counted (requests, agents, sessions), the types of the parameters, and the two
named above. TLC evaluates each of them on the instances it runs.

Only model-checked: `ClaimsResolve` and `CallReturns`, since liveness under fairness
is outside the prover, and the statements under "Disagreements", which the code
does not keep.

## 5. Not modelled, and the plan

Left out for good: tools and routes, authentication and scopes, schemas, error
texts, connection set-up, migrations, metrics. They keep no protocol state; the
constraints and triggers of the migrations are modelled where they matter.

Also left out: the inbox's listing and the read models of proposals (reads over
state the modules have), plug-ins that are not in the repository, the pending
caps of cross-brain proposals (counted without a lock; nothing claims they are
exact).

In order:

1. An abstract specification of a hold of the board (held, then effective or
   dropped, once) with `Board` shown to implement it, and the steps of that
   refinement proved from the invariant of `BoardProofs`.
2. An abstract account of the subscription registry (a map from a session and a URI
   to a record, with the counts derived) that `Subscriptions` implements; `Tallied`
   and `Lone` are what its proof needs.
3. `ProposalLog`: the trigger that numbers each change of a hold under its bot's
   counter lock (`log_seq`) and the cursor a bot pages with: no change is missed.
