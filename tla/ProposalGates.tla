---------------------------- MODULE ProposalGates ----------------------------
(***************************************************************************)
(* The counts create_proposal consults: the submissions of a bot in the    *)
(* rolling window, and the auto-approvals of an action type in a UTC day.  *)
(* Both count rows of audit_log under a transaction-scoped advisory lock   *)
(* and write one more row before the transaction ends.  Their limits come  *)
(* from environment variables, parsed once.                                *)
(*                                                                         *)
(* A request is one call of create_proposal.  What Proposals models (the   *)
(* row, the judge, the claim and what follows it) appears only as the      *)
(* points where a request may drop out (Abort).                            *)
(***************************************************************************)
EXTENDS Integers, FiniteSets

CONSTANTS
    Requests, Bots,
    Types,          \* action types
    Window,         \* PROPOSAL_RATE_LIMIT_WINDOW, in ticks
    DayLength,      \* ticks in a UTC day
    DefaultLimit,   \* MAX_PROPOSALS_PER_BOT_PER_WINDOW
    Ceiling,        \* _MAX_CONFIGURABLE_RATE_LIMIT
    MaxTime,        \* bound: the last tick
    RateSettings, CapSettings, SwitchSettings,  \* what the environment may hold
    None

(* A JSON value of a setting: absent, an integer, or anything else.        *)
Entry == [kind : {"absent", "int", "other"}, value : Int]
Forms == {"unset", "blank", "invalid", "object"}
SwitchForms == {"unset", "blank", "truthy", "falsy", "unrecognized"}

ASSUME GatesAssumption ==
    /\ IsFiniteSet(Requests)
    /\ Window \in Nat /\ MaxTime \in Nat
    /\ DayLength \in Nat \ {0}
    /\ Ceiling \in Nat /\ DefaultLimit \in 1..Ceiling
    /\ RateSettings \subseteq [form : Forms, of : [Bots -> Entry]]
    /\ CapSettings \subseteq [form : Forms, of : [Types -> Entry]]
    /\ SwitchSettings \subseteq SwitchForms
    /\ None \notin Requests

VARIABLES
    rates, caps, switch,    \* the environment of the process
    now,
    pc, bot, type,          \* the requests
    began,      \* when its transaction began: now() in it, so the marker's "at"
    counted,    \* history: when it counted the attempts of its bot
    at,         \* auto_approved_at: when it counted the auto-approvals
    rateLock, capLock,      \* the advisory locks
    marked,     \* the requests with a "proposal.submission_attempt" row
    charged     \* the requests with a "proposal.auto_approved" row

settings == <<rates, caps, switch>>
locks == <<rateLock, capLock>>
vars == <<settings, now, pc, bot, type, began, counted, at, locks, marked, charged>>

PCs == {"new", "waiting", "rate", "mark", "judge", "capwait", "cap", "claim", "ended"}

TypeOK ==
    /\ rates \in RateSettings /\ caps \in CapSettings /\ switch \in SwitchSettings
    /\ now \in 0..MaxTime
    /\ pc \in [Requests -> PCs]
    /\ bot \in [Requests -> Bots] /\ type \in [Requests -> Types]
    /\ began \in [Requests -> 0..now]
    /\ counted \in [Requests -> 0..now]
    /\ at \in [Requests -> 0..now]
    /\ rateLock \in [Bots -> Requests \cup {None}]
    /\ capLock \in [Types -> Requests \cup {None}]
    /\ marked \subseteq Requests /\ charged \subseteq Requests

-----------------------------------------------------------------------------
(* The settings.                                                           *)

(* proposal_rate_limit_for: whatever is wrong, the default.                *)
UsableRateUnbounded(e) == e.kind = "int" /\ e.value > 0
UsableRate(e) == e.kind = "int" /\ e.value \in 1..Ceiling
RateLimitFor(b) ==
    IF rates.form = "object" /\ UsableRate(rates.of[b]) THEN rates.of[b].value ELSE DefaultLimit

(* proposal_auto_approve_daily_cap_for: None if the variable is unset or   *)
(* does not list the type; 0 if the variable or its entry is malformed.    *)
CappedIfParsed(y) == caps.form = "object" /\ caps.of[y].kind # "absent"
Capped(y) == caps.form # "unset" /\ (caps.form = "object" => caps.of[y].kind # "absent")
CapFor(y) ==
    IF caps.form = "object" /\ caps.of[y].kind = "int" /\ caps.of[y].value >= 0
    THEN caps.of[y].value ELSE 0

KillSwitch == switch \in {"truthy", "unrecognized"}

-----------------------------------------------------------------------------
Init ==
    /\ rates \in RateSettings /\ caps \in CapSettings /\ switch \in SwitchSettings
    /\ now = 0
    /\ pc = [r \in Requests |-> "new"]
    /\ bot \in [Requests -> Bots] /\ type \in [Requests -> Types]
    /\ began = [r \in Requests |-> 0]
    /\ counted = [r \in Requests |-> 0]
    /\ at = [r \in Requests |-> 0]
    /\ rateLock = [b \in Bots |-> None] /\ capLock = [y \in Types |-> None]
    /\ marked = {} /\ charged = {}

Tick ==
    /\ now < MaxTime
    /\ now' = now + 1
    /\ UNCHANGED <<settings, pc, bot, type, began, counted, at, locks, marked, charged>>

GoTo(r, l) == pc' = [pc EXCEPT ![r] = l]

(* Transaction-scoped: a commit or a rollback gives both back.             *)
Released(lock, r) == [k \in DOMAIN lock |-> IF lock[k] = r THEN None ELSE lock[k]]
EndTransaction(r) == rateLock' = Released(rateLock, r) /\ capLock' = Released(capLock, r)

(* The transaction begins with the request for the lock or, across brains, *)
(* with the look-up of the target, before the fingerprint is fetched.      *)
Begin(r) ==
    /\ pc[r] = "new"
    /\ began' = [began EXCEPT ![r] = now]
    /\ GoTo(r, "waiting")
    /\ UNCHANGED <<settings, now, bot, type, counted, at, locks, marked, charged>>

LockRateUnheld(r) ==
    /\ pc[r] = "waiting"
    /\ GoTo(r, "rate")
    /\ UNCHANGED <<settings, now, bot, type, began, counted, at, locks, marked, charged>>
LockRate(r) ==
    /\ pc[r] = "waiting"
    /\ rateLock[bot[r]] = None
    /\ rateLock' = [rateLock EXCEPT ![bot[r]] = r]
    /\ GoTo(r, "rate")
    /\ UNCHANGED <<settings, now, bot, type, began, counted, at, capLock, marked, charged>>

(* The attempts of a bot whose "at" is after the window's start.           *)
Recent(b) == {r \in marked : bot[r] = b /\ began[r] > now - Window}

CountAttempts(r) ==
    /\ pc[r] = "rate"
    /\ Cardinality(Recent(bot[r])) < RateLimitFor(bot[r])
    /\ counted' = [counted EXCEPT ![r] = now]
    /\ GoTo(r, "mark")
    /\ UNCHANGED <<settings, now, bot, type, began, at, locks, marked, charged>>

RateLimitedLocked(r) ==
    /\ pc[r] = "rate"
    /\ Cardinality(Recent(bot[r])) >= RateLimitFor(bot[r])
    /\ GoTo(r, "ended")
    /\ UNCHANGED <<settings, now, bot, type, began, counted, at, locks, marked, charged>>
RateLimited(r) ==
    /\ pc[r] = "rate"
    /\ Cardinality(Recent(bot[r])) >= RateLimitFor(bot[r])
    /\ GoTo(r, "ended")
    /\ EndTransaction(r)
    /\ UNCHANGED <<settings, now, bot, type, began, counted, at, marked, charged>>

Mark(r) ==
    /\ pc[r] = "mark"
    /\ marked' = marked \cup {r}
    /\ GoTo(r, "judge")
    /\ EndTransaction(r)
    /\ UNCHANGED <<settings, now, bot, type, began, counted, at, charged>>

-----------------------------------------------------------------------------
(* The judge approved.                                                     *)

KillSwitched(r) ==
    /\ pc[r] = "judge" /\ KillSwitch
    /\ GoTo(r, "ended")
    /\ UNCHANGED <<settings, now, bot, type, began, counted, at, locks, marked, charged>>

(* _fetch_db_timestamp: clock_timestamp() of the one database.             *)
DbNowAhead == now + 1
DbNow == now

(* When the clock query fails here, the code stamps the local time.  No cap *)
(* counts the auto-approvals of this type, so the fallback is left out.    *)
Uncapped(r) ==
    /\ pc[r] = "judge" /\ ~KillSwitch /\ ~Capped(type[r])
    /\ at' = [at EXCEPT ![r] = DbNow]
    /\ GoTo(r, "claim")
    /\ UNCHANGED <<settings, now, bot, type, began, counted, locks, marked, charged>>

AskCap(r) ==
    /\ pc[r] = "judge" /\ ~KillSwitch /\ Capped(type[r])
    /\ GoTo(r, "capwait")
    /\ UNCHANGED <<settings, now, bot, type, began, counted, at, locks, marked, charged>>

LockCap(r) ==
    /\ pc[r] = "capwait"
    /\ capLock[type[r]] = None
    /\ capLock' = [capLock EXCEPT ![type[r]] = r]
    /\ GoTo(r, "cap")
    /\ UNCHANGED <<settings, now, bot, type, began, counted, at, rateLock, marked, charged>>

Day(t) == t \div DayLength
ApprovedSince(y, d) == {r \in charged : type[r] = y /\ Day(at[r]) >= d}

CountApprovedLate(r) ==
    /\ pc[r] = "cap"
    /\ Cardinality(ApprovedSince(type[r], Day(DbNow))) <= CapFor(type[r])
    /\ at' = [at EXCEPT ![r] = DbNow]
    /\ GoTo(r, "claim")
    /\ UNCHANGED <<settings, now, bot, type, began, counted, locks, marked, charged>>
CountApproved(r) ==
    /\ pc[r] = "cap"
    /\ Cardinality(ApprovedSince(type[r], Day(DbNow))) < CapFor(type[r])
    /\ at' = [at EXCEPT ![r] = DbNow]
    /\ GoTo(r, "claim")
    /\ UNCHANGED <<settings, now, bot, type, began, counted, locks, marked, charged>>

CapExhausted(r) ==
    /\ pc[r] = "cap"
    /\ Cardinality(ApprovedSince(type[r], Day(DbNow))) >= CapFor(type[r])
    /\ GoTo(r, "ended")
    /\ EndTransaction(r)
    /\ UNCHANGED <<settings, now, bot, type, began, counted, at, marked, charged>>

(* _claim_proposal_hold_for_applying: claim and audit row in one commit.   *)
Claim(r) ==
    /\ pc[r] = "claim"
    /\ charged' = charged \cup {r}
    /\ GoTo(r, "ended")
    /\ EndTransaction(r)
    /\ UNCHANGED <<settings, now, bot, type, began, counted, at, marked>>

(* The request ends without another row: an invalid or unavailable target, *)
(* a verdict to hold, a hold decided or resubmitted meanwhile, a failed    *)
(* cap check (held for human review), a crash.                             *)
Abort(r) ==
    /\ pc[r] \notin {"new", "ended"}
    /\ GoTo(r, "ended")
    /\ EndTransaction(r)
    /\ UNCHANGED <<settings, now, bot, type, began, counted, at, marked, charged>>

-----------------------------------------------------------------------------
Step(r) ==
    \/ LockRate(r) \/ CountAttempts(r) \/ RateLimited(r) \/ Mark(r)
    \/ KillSwitched(r) \/ Uncapped(r) \/ AskCap(r)
    \/ LockCap(r) \/ CountApproved(r) \/ CapExhausted(r) \/ Claim(r)

Next == Tick \/ \E r \in Requests : Begin(r) \/ Step(r) \/ Abort(r)

Spec == Init /\ [][Next]_vars

-----------------------------------------------------------------------------
(* _deny_rate_limited_proposals: however many submissions of a bot run at  *)
(* once, the attempts its query counts are never more than its limit, and  *)
(* "there is no syntax that yields an unlimited limit".                    *)
WindowKept ==
    \A b \in Bots :
       /\ Cardinality(Recent(b)) <= RateLimitFor(b)
       /\ Cardinality(Recent(b)) <= Ceiling

(* create_proposal, daily cap: the auto-approvals of a type in a UTC day   *)
(* are never more than the integer configured for it, whatever requests    *)
(* run at once and whenever midnight falls.                                *)
CapKept ==
    \A y \in Types, d \in 0..MaxTime :
       caps.form = "object" /\ caps.of[y].kind = "int" /\ caps.of[y].value >= 0 =>
          Cardinality({r \in charged : type[r] = y /\ Day(at[r]) = d}) <= caps.of[y].value

(* The settings fail closed: a malformed cap, or a kill switch nobody can  *)
(* read, lets no auto-approval through.                                    *)
FailsClosed ==
    \A r \in charged :
       /\ switch \in {"unset", "blank", "falsy"}
       /\ caps.form \in {"unset", "object"}
       /\ caps.form = "object" =>
             \/ caps.of[type[r]].kind = "absent"
             \/ caps.of[type[r]].kind = "int" /\ caps.of[type[r]].value > 0

(* Nobody waits for ever: a lock is held by one request, which is past    *)
(* every wait and has not ended, so that it gives the lock back.           *)
LocksComeBack ==
    /\ \A b \in Bots : rateLock[b] # None =>
          pc[rateLock[b]] \in {"rate", "mark"} /\ bot[rateLock[b]] = b
    /\ \A y \in Types : capLock[y] # None =>
          pc[capLock[y]] \in {"cap", "claim"} /\ type[capLock[y]] = y

(* "at most {limit} proposals per 60s per bot", by the time a submission   *)
(* was let through instead of the time its transaction began.              *)
AdmittedWithinLimit ==
    \A b \in Bots :
       Cardinality({r \in marked : bot[r] = b /\ counted[r] > now - Window}) <= RateLimitFor(b)
=============================================================================
