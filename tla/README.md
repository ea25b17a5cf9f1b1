# Cursor Pulse: a TLA+ model

Cursor Pulse shares the AI accounts of a team. A Go data plane (`proxy/`) relays
the members' traffic through pooled accounts; a Python control plane ("Pulse
Web", `pulse/`) decides who uses which account, meters and bills; a chat
assistant (`assistant_platform/`) lets members borrow, report and administer.
This directory models the parts of it where several actors meet, checks them
with TLC and proves what matters most with TLAPS. The source is the reference:
every definition is translated from it, and `PROJECT.json` ("map") names the
lines each one stands for.

    tlc -config Seats.cfg MCOccupancy         # one run; all are listed below
    tlapm OccupancyProofs.tla                 # the proofs of one module; section 4 lists them

## 1. Inventory

What each part keeps, does and must get right. "Modelled" here means: every
operation that changes its state is an action of a module.

| Part | State | Operations | Hard behaviour | What makes it correct | Modelled |
|---|---|---|---|---|---|
| **Seat book** `pulse/proxy/occupancy.py` | in memory of one Web process: seats per (holder, account) with calls in flight per boot, ages, holds; boots and when last heard | choose, count, begin, end, release if idle, hold, note boot, expiry and reaping inside each | any order of callers; two data planes; their deaths; several ttls over one book | the cap binds whoever is steered; no seat lost through someone else; no call outlives its process | yes: `SeatBook`, `Occupancy` |
| **Coding Plan gateway** `openai_proxy/sticky_pick.py`, `internal_openai_proxy_api.py`, `proxy/openai_gateway.go` | sticky bindings (database), seats (memory), the handlers and sticky memory of the data plane | resolve, fail over, stream, end with retries, restore after a restart | two resolves of one key at once; lost requests and replies; restart of Web, death of the data plane | one account within the dwell; running calls are counted; seats always come free | yes: `CpGateway`, `CpScenes` |
| **Wallet and usage recording** `proxy/credit.py`, `membership.py`, `usage.py` | `credit_accounts`, `credit_transactions`, `member_memberships`, `proxy_key_usages` | grant, adjust, refund, open or change or cancel a membership, record a batch and charge it | concurrent transactions, row locks, rollback anywhere, batches delivered twice | balance = sum of the lines = last line; a charge and its usage together; nothing charged or refunded twice | partly: `CreditLedger`, `Wallet`; the plans' rules and the spend gate are not |
| **Usage reporting of the data plane** `proxy/pulse_client.go` | a buffer, batches being posted, a backoff | enqueue, flush by size and by ticker, retry, requeue with overflow | flushes at once; lost answers; a full buffer; death | no turn mislaid or doubled in the proxy; each is reported or known dropped | partly: `UsageReport`; the authorize cache is not |
| **Seat assignment** `proxy/seat_assignment.py` | none of its own: pool, team policy | rank, ask the book, pin, report | the shapes of its questions | the answer agrees with the seats | partly: the questions in `MCOccupancy`, the advice a session gets in `StickySelect`; ranking is any order |
| **Sessions and sticky slots** `proxy/sticky_select.go`, `session.go`, `pool.go`, `quota_state.go` | per session two slots (auto/API) with credential, dwell and in-flight counts; pool, exhaustion marks, cooldowns | select, keep, rotate, release, report, re-authorize, delete, bind again | copies of the binding read before the advisor's HTTP call and written after it | whoever is billed somewhere has a seat there; counts match what runs; a revoked key stops | partly: `StickySelect` |
| **Relay** `proxy/mitm.go`, `connect.go`, `server.go` | the streams | frame, tap, forward, retry once on another credential | byte-level I/O | - | the retries and marks, in `StickySelect`; the rest is I/O |
| **Keys and spend policy** `spend_policy.py`, `authorize.py`, `key_crud.py` | keys, policies, spend windows | authorize, evaluate, suspend | window boundaries; charges still in a buffer | the overdraft is bounded by what is in flight; a window counts each row once | no: rules over rows read in one transaction; candidate for operators |
| **Key loans** `tool_center/key_loan_*.py` | loans, credentials of lent keys, the keys at Cursor | self-service, issue, pool issue, move, return, patch, expire by tick and after a sync | remote calls before and after the local commit; ticks against requests; rows read before they are locked | no active loan without a working key, no working key without a loan, one self-service loan, the cap | partly: `KeyLoan`; notices, usage caps, legacy direct keys and the choice of a lender are not |
| **Lender selection** `auto_lender.py`, `burn_rate.py`, ... | none: reads snapshots | score, rank | - | ranking respects its thresholds | no: pure and read-only; candidate for operators |
| **Ingestion and sync** `pulse/ingestion/` | credentials, ingestions with their records, daily figures, summaries, quota snapshots | tick, manual sync, bind, unbind, reschedule | syncs of one account overlap and end out of order; keys change while a sync runs; cycles and months cross | each event counted once and kept; the newest quota wins; no sync begins with an unbound key | partly: `UsageSync` (and the reclaim after a sync in `KeyLoan`); the On-Demand brake, Coding Plan vendors and uploads are not |
| **Capability invocation** `pulse/capabilities/` | invocation records | invoke, replay | - | executed once | no: its idempotency keys are fresh uuids and nothing sends an invocation twice |
| **Assistant jobs and turns** `assistant_platform/jobs/`, `conversation/` | job table, turn inbox, sessions | schedule, claim, heartbeat, finish, fail and retry, recover stale, close a session | a slow worker against recovery; a message that arrives while a turn commits; crashes | one final reply per trigger; turns one at a time; no message stranded | partly: `Turns` |
| **IM channels** `pulse/channels/`, `web/internal_channel_api.py` | delivery slots, outbound ledger | deliver, deduplicate, expire | timeouts answered by retries while the first attempt runs; restarts | no reply lost or doubled | partly: `ReplyDesk` |
| **Dialogue, memory, skills** `assistant_platform/` | prompts, memories, vectors | model calls | driven by model answers | - | no: little control to state properties about |
| **Identity and web sessions** `pulse/identity/`, `pulse/web/auth_tokens.py` | accounts, tokens, a throttle | sequential | - | - | no: small and unit-tested |
| **Web console** `web-admin/` | none | presentation | - | - | no |

How they interact. The data plane calls Pulse Web over HTTP: `proxy/authorize` and
`proxy/spend-check` for Cursor sessions (the first assigns a seat), `openai-proxy/resolve` and
`openai-proxy/end` for Coding Plan calls, `proxy/usage` for finished turns, and it
polls `proxy/pool` every 60 seconds. Each request carries its boot id; from a resolve, an end or a poll the seat book
learns that it is alive. Web answers Cursor and Coding Plan requests from one seat book, which
lives in memory and is lost when Web restarts; the bindings, the wallet and the
usage rows are in the database. Any of the HTTP exchanges can be lost or
time out on the data plane's side while Web completes it, and most are retried.
The assistant is a process of its own: its workers take jobs from its database and hand replies
to Pulse Web's channel endpoint by HTTP. The scheduler's ticks (syncs, expiry of loans) run beside
the requests of the Web console, on the same rows.

The hazards, each at the line where it bites and with the properties that would
catch it, are listed in `PROJECT.json`.

## 2. Modules

| Module | What it is |
|---|---|
| `SeatBook` | seats, boots, expiry, reaping and each method of `OccupancyBook` as operators on the book: shared by `Occupancy`, `CpGateway` and `StickySelect` |
| `Occupancy` | the book under unconstrained callers: one action per method |
| `CpGateway` | the gateway end to end: handlers, HTTP, Web's two database steps, the book |
| `CpScenes` | the gateway in the calm and in the storm: which properties hold in which |
| `Wallet` | what the wallet promises: per member a statement that only grows, adds up, and names each usage and refunded charge once |
| `CreditLedger` | the tables and the concurrent transactions that write them; implements `Wallet` |
| `UsageReport` | the data plane's buffer and flushes, composed with `CreditLedger`: a post is a transaction |
| `StickySelect` | one session of the data plane with its two slots and concurrent requests, composed with `SeatBook` on the other side of the advisor's call |
| `ReplyDesk` | Web's channel endpoint: delivery slots and deliveries |
| `Turns` | one chat session: messages, turns, the job table and its workers, composed with `ReplyDesk` |
| `KeyLoan` | loans as transactions with row locks, and the keys at Cursor |
| `UsageSync` | one account's syncs, its figures, and the binding of its key |
| `SeatBookProofs` | what each operator of `SeatBook` does to a well-formed book; used by the three modules that share it |
| `OccupancyProofs`, `GatewayProofs`, `StickyProofs` | theorems about `Occupancy`, `CpScenes` and `StickySelect` |
| `BillingProofs` | theorems about `CreditLedger`, its step to `Wallet`, and `UsageReport` |
| `TurnsProofs`, `KeyLoanProofs`, `SyncProofs` | theorems about `Turns` with `ReplyDesk`, `KeyLoan` and `UsageSync` |
| `MCOccupancy`, `MCCpGateway`, `MCBilling`, `MCStickySelect`, `MCTurns`, `MCKeyLoan`, `MCUsageSync` | the instances TLC checks |

Some MC modules put two instances into one run: a variable `scene`, chosen at the start and never
changed, or two kinds of initial state, say which. Each module also holds the slips its
properties were tried against (the definitions whose comments begin with "Slip", and others named
in `PROJECT.json`, "mutants"); no specification uses them.

### Seat book

`seats` is `_seats`: for each (holder, account) a record of the credential, the
calls in flight per boot, the ages of the seat's clocks and what is left of its hold.
`boots` is `_boots`. The code stamps times and subtracts; the model keeps ages, which
`Tick` makes older up to a bound past which no comparison distinguishes them
(`OneOlder`). Every public method of the class is one action that includes the
expiry and reaping it begins with, since the code runs each under one lock.
`choose` takes a question: the holder, the ranked credentials, the table that
maps credentials to accounts, what is current, pinned, left or held by the other slot.
Two variables are not the code's: `advice` is the last answer (to state what an
answer promises) and `waived` is history: which seats were taken without asking for
room (pinned sessions, the slot already held, calls begun, restored holds). The cap
is a promise about the others only: a pinned session is seated past it by design.

A `question` may be any record of the set `Question`; the instances list the
shapes the two callers build.

### Coding Plan gateway

`calls[k]` is a handler of the data plane: idle, asking (the resolve not yet
read), picking (read, not yet written), serving (answered, upstream not yet), streaming,
ending. `resolve_cp_credential` is two steps because a commit of
another request may fall between its read of the binding and its own flush. The flush is modelled
with what SQLAlchemy's identity map does: a row marked deleted stays deleted, an
update of a row that went away or an insert of one that came fails the request, and a
write of an unchanged value writes no credential. The seat book is changed
where the code changes it, before or after the flush (sticky path: before;
ranked path: after). Which account ranks first by quota is left open: any order.

What the documents promise a request needs history: `last` is a key's last answer with its age,
`Promised` the credential that a request is due because of it. An answer sets `last` only if no other resolve of
the key has overlapped it (`alone`); when two overlap, the next request of the key is promised nothing, since
after the dwell the one answered last need not be the one whose account the binding ends on.

`CpScenes` chooses a scene at the start. `Limit` bounds what is rare, `Spent` says how much of each limit a scene
does without; `Beginning` is the initial state with that much spent. The calm has no restarts, lost
replies to ends, refusals or hanging upstreams; the storm has all of them.

Simplified: an end (`end_cp_call`) reads the credential's account, changes the book and commits in one step; and the death of a
data plane takes a resolve of its own that Web is still working on with it, though Web goes on with it and begins a call for a
dead boot. That call is one `BeginCall` of `Occupancy` allows, and what becomes of it (the reap takes it) is checked there.

Left out: authorisation of keys, the metering of the gateway's own tokens, and the admin
operations that move keys between vendors.

### Wallet and usage recording

A transaction is a record of what it has still to do and what it has written. It reads what is
committed (read committed, as PostgreSQL runs it), its UPDATE of a balance takes that row's
lock until it ends, and it may fail at any step. SQLite, which the deployment may also use,
has a single writer, so its behaviours are among these. `Move` is
`_apply_delta` and the insert of the line together: no other transaction can see between them.
A `usage_id` is fresh in every transaction, so its unique index never binds;
that of a refund's `ref_transaction_id` does. `nextId` is the row id, drawn when the row is
written, which need not be the order of commits. Left out: plan rules other than `credit_mode`,
`evaluate_spend`, key suspension, members without a plan (`plan_id` empty) and the rollups that only read.

### Usage reporting

One goroutine that finishes turns, and the ticker, each with its own
flush. A post in flight is a `CreditLedger` transaction; it may be lost before Pulse
sees it (`Unreachable`), outlive the client's patience (`StopWaiting`), commit with the
answer lost (`AnswerLost`) or fail (`Refused`). The commit and the arrival of a good answer are one step
(`Answered`); the order in between is covered by `StopWaiting` followed by a
commit. `Die` is the end of the process; `Stop`, which would flush, is deferred in a
`main` that ends in `log.Fatal` or a signal, so it never runs.
A batch is the whole buffer, and the route takes `MaxItems` (1000) items at most: a longer one is answered 422 and tried again
like any other (`TooLong`). A post succeeds for items it leaves no row for: those of a key or loan Pulse does not know (`Gone`),
and those whose request id the same key or loan has used (`PassedOver`). Two more such branches of the code, an item with both or
neither of key and loan and a time that does not parse, are left out: the handler sets exactly one of the two, and no time.

### Sessions and sticky slots

A session's token is `minted` by the data plane, bound before its first request and never bound again once deleted; or it is a
login of the client's own, bound by its first billed request under the key of its tunnel (`Misses`, then `BindsFresh` with a
binding of its own, authorized and empty, that replaces what is bound by then; `BindFails`), and bound again when deleted or moved
to another key. A billed request that finds its session goes on with it (`LooksUp`); one that is not billed, of a minted session,
only has its token swapped (`Swaps`): it selects on the auto slot as any other, without re-authorization and without being counted,
and leaves (`SwapEnds`).

`session` is the binding in the `SessionMap`; each request selects on a copy of it (`request[r].copy`)
and writes slots back at the places the code does, so two requests of one session can overwrite each
other. Pulse's side is the seat book: `Advise` is the advisor's call answered by `choose` over one of
`Orders`, `AdviseFails` the call that is not answered, after which the request goes by the pool it last
fetched (`FillsLocally`, `RotatesLocally`). `Blames` is what the answer of an upstream does: marks and
cooldowns, the retry on another credential. `Revoke` and `Reauthorized` are the life of the member's key as
the session sees it; `RivalSits` and `RivalLeaves` are other members.

Time is coarse: a unit is about 90 seconds, and none passes while a request is selecting
(a selection takes milliseconds to seconds), so that the real 180 s of a seat's ttl and of a slot's idleness, 120 s
of the session's re-authorization and 20 minutes of dwell become 2, 2, 1 and 2: the dwell is shorter than the code's, but
longer than all the others matter together with. A seat past its ttl is removed when time
passes; the code removes it at the next look, which no one can tell apart here. `notes` is
history: whether two selections crossed (`crossed`), a deleted session came back (`revived`), a session was bound over requests
counted on its slots (`rebound`), and slots on a
credential released or never advised on (`unseated`).

Left out: the allowlists of loans, changes of the pool's membership, the difference between marks of a
snapshot and of the runtime, passthrough loans, the pruning of expired sessions, the authorize cache. The key a
tunnel moves to is another key of the same member (the seats are the member's).

### Turns and replies

A message is `Arrive` (ingest: the message, the session's turn, the process job and the decision whether to schedule
one, in one SQLite write transaction, hence one step). A worker claims a job and runs it: rounds of `Ask` (the model gets the
messages of the turn: they are `heard`), `UseTools` and `Consume` (the turn pulls in a message that arrived meanwhile, before a round and
after each tool), until `PersistFinal` writes the reply. That is what the model said, or, without another round, a tool's own text,
the notice that the rounds are over or that the model is not available (`agent_runtime.py:318-328`). The worker commits, reschedules if messages wait, wakes others
and ends the job; each of these may fail, and what the code does on each failure (retry with an attempt
counted, `failed` after `MaxAttempts`) is in the step. `RecoverJob` and `RecoverTurn` are the keeper's
maintenance. Time is abstracted: whether a job or a turn has been silent too long is a nondeterministic choice, limited only
by what the code's intervals exclude: a delivery is taken to end within the 90 seconds of a stale job. `ReplyDesk` is the other end of
`reply.send`: the slot is claimed before the delivery, given back on failure, forgotten by age or restart. `Crash` is the
assistant's process, `WebRestart` Pulse Web's.

History is in `marks`: a live worker was taken for dead (`overtaken`), a wake-up was cut off (`cut`), a process
job came beside a pending one or came back after it was done (`doubled`), the desk lost a memory (`lapsed`), a final reply was older than
the forty the check looks at (`buried`, `orchestrator.py:104`), a reply was written without the model having heard all
the turn's messages (`unheard`), a retry was told "sent" during the first delivery (`assumed`), Web lost the commit after a
delivery of its own (`unsaved`), nothing is sent for want of the token (`skipped`, `channel_reply.py:16-18`). Left out:
interim replies, traces, retention, the archive a close writes (it changes nothing modelled), more than one
session, and rounds of the maintenance in which there is nothing to do.

### Key loans

A thread is a transaction of a Web request or of a tick. `SELECT ... FOR UPDATE` takes `lock`; a loan the session loaded
before taking its lock keeps the values loaded (`view`), as SQLAlchemy's identity map does. Keys are made and
revoked at Cursor outside the transaction: `keys` has no rollback. Between the two, `Faults` may strike: the answer to
a creation is lost, a listing, flush, commit or revocation fails, the process dies. The id of a new key is looked up by its name
(`Resolves`): it may be that of a namesake; and when Cursor's listing lacks the key (`unlisted`) it is that of any other key listed last, the account's own
included (`PrimaryKey`), or none. An account without a primary credential (`unbound`) skips the revocation and goes on. Once an
account's own key has been revoked (`cut`), listings, bindings and revocations may fail freely. The daily tick does not overlap
itself; the reclaim after a sync does, and acts on one account. `marks` records the rare things the properties
exclude. A loan is due from `ResetDay` on.

Left out: notices, usage caps, notes and baselines, legacy `cursor_direct` loans and rows without an expiry,
PostgreSQL's foreign-key share locks and deadlocks, the ranking of lenders (any account may be asked for), and a reset
flag set together with a move.

### Syncs

A sync lists or is asked for, decrypts the key, asks Cursor for the quota (`Asks`), reads the clock (`Stamps`), lists the usage up to there
(`Lists`), and writes later, in one transaction; an answer without a plan or its cycle writes no quota and no reset date. Between any two of these
others go on, and nothing stops a sync whose key is unbound meanwhile. An unbinding reads the row to revoke first and
revokes it later. What is written are records, daily figures, summary, quota and reset date, overwritten from `events`. What it read of its credential and account
before it may have changed meanwhile. The database is SQLite: from its first write to its commit a transaction is alone, so the
write is one step; its earlier reads are separate. Usage is a set of instants, each in a day,
a month and a billing cycle, and `Pass` lets time go on with or without usage. The account lends no key
(a lent key's row would be found by `get_primary_credential` too, see section 5). A failed sync leaves `next_sync_at`
in the past, so the backoff and the priorities only change how the row is due, which is nondeterministic (`ComesDue`).

Left out: the columns that only show the last sync, the On-Demand brake, notices, a reset date locked by hand, Coding Plan vendors,
uploaded files, the recomputation of plans, and which of many due accounts a tick takes.

## 3. Runs

| Run | Instance | Shows |
|---|---|---|
| `seats` | 2 holders in two scenes. "steering": 2 accounts, 2 credentials, 1 boot, every shape of question, cap 1. "clocks": 1 account, a boot and calls without one, ttl 0 or 1, holds 0 or 2 | `SteeredWithinCap`: no mix of assignments, pins, releases and held slots steers more people to an account than its cap. `AdviceSound`: what an answer says and the seats it leaves agree. `CallsAreWatched`: a call in flight belongs to a boot whose death will be noticed. `OnlyTheHolderGivesUp`: a live seat goes only by its holder or with the book. |
| `gateway` | 1 key. "calm": 2 handlers, up to 4 requests, an exchange lost, a crash (5 of these in all), upstreams that accept. "storm": 1 handler, 2 requests, both upstreams refusing or hanging, losses, a lost reply, a restart, a crash | `StickyInCalm`, `CountedInCalm`: the dwell promise and the count of running calls under concurrent requests of one key. `LapseInStorm` (liveness): whatever happens, every seat comes free. |
| `billing` | "reports": 3 turns, one of a key Pulse does not know, a goroutine and the ticker, a buffer of two and a route that takes one item at a time, 2 tries a flush, 2 posts lost, a death. "requests": 2 members, 2 transactions at a time, 3 requests of every kind, with or without a membership at the start; batches that bill both members in opposite orders and repeat a request id | `NoTurnMislaid`, `EveryTurnIsReported` (liveness); `StatementAddsUp`, `ChargesMatchUsage`, and `WalletSpec`: the tables implement `Wallet` under the statement ordered by id. |
| `sticky` | 2 requests of one session, minted or bound by its first requests, one of them perhaps only swapping the token, 2 slots, 2 credentials on 2 accounts, cap 1, another member, one mishap | `ServedSeated`: a billed request is sent only where the session holds a live seat. `BusyMatches`: in-flight counts are the requests relayed, whatever copies are written back and whichever request binds the session first. `RevokedSoon`: a revoked key's billed requests stop in time, even in a session brought back. |
| `turns` | 2 messages, 2 threads (two interactive, or one and the background one), one fault of seventeen kinds, retried or final | `OneFinal`, `TurnsSerial`, `NotStranded`; `NothingSwallowed`: no drain, tool or retry marks a message handled that the reply's author had not heard, but the returns named above; `NoOtherLoss`: a reply is lost in three ways only; `DeliveredOnce`; `EveryMessageSettles` (liveness). |
| `loans` | 2 borrowers, 2 accounts with a cap of one, 2 requests on 2 threads beside the expiry jobs, a reset day, one fault | `LentKeysWork`, `KeysAreLent`: loans and keys at Cursor belong together, up to the failures they name. `OneSelfLoan`, `SelfWithinCap`: the row locks do their work. `DueLoansEnd` (liveness). |
| `sync` | one account. "usage": 4 instants over 2 cycles and 2 months, the tick and a request, a failure. "keys": 3 requests that bind, unbind or sync | `FiguresAgree`: records, daily figures and summaries tell one story. `UsageStaysCounted`, `QuotaSeldomOlder`: what an overtaken sync may take back, and what not. `NoSyncBeginsUnbound`; `UsageArrives` (liveness). |
| `cp_lost_ack`, `cp_failover`, `ledger_opening`, `report_twice`, `reply_lost` | the smallest that show it | the findings of section 5 |

Each run also carries at most one type invariant. Every property has a mutant in `PROJECT.json`:
a plausible slip in one mapped definition under which the run fails. With two workers the passing runs
take from one to three and a half minutes each.

### Bounds, and why they are enough

* Ages stop at the largest constant they are compared with plus one, which loses
  nothing; `CallBound` caps the calls counted on a seat per boot.
  One call in flight is enough for the seat book, which asks only whether
  there are any; the gateway has `CallBound` at least the number of requests, so
  it never binds there except in the hang of a counted and forgotten call.
* Two holders and a cap of one make every conflict over a seat happen; two accounts are
  what a move needs. Holders are symmetric in the seat book's run. Its "steering" scene
  has few clocks and "clocks" one account because the product of both does not end
  in reasonable time: choosing and expiry meet in "clocks" over one account, where
  a seat can be lost and won, and in `CpGateway` over two.
* In `CpGateway` the limits count what makes runs long: requests started, exchanges lost,
  replies to ends lost, restarts and crashes. Four requests are what the calm needs: with three, two
  resolves that overlap after the dwell have no later request to whom it could matter (section 4).
  The calm excludes restarts, refusing
  upstreams and lost replies to ends. That is not for size: with refusals
  `StickyWithinDwell` is false (finding `cp_failover`), with lost replies
  `CallsCounted` is (finding `cp_lost_ack`), and after a restart calls in progress
  are uncounted by design.
* Three ledger requests let two transactions interleave, one of them after a third; two
  transactions at a time are what a race needs. The properties also held with four requests
  (without the data plane's actions). `NotCharged` and `Move` both occur as one member has a
  prepaid plan and the other not.
* In "reports", `MaxRequests` is large enough never to bind. The deadlock of two posts that
  lock two members' rows in opposite orders needs four turns and two prepaid
  members, so it does not occur there; in "requests" any transaction may fail at any
  step, which covers what it leaves behind. `MaxItems` is 1 and the buffer 2 (1000 and 2000 in the code): what matters is that the
  buffer can outgrow the route, and that two batches can be on the way; the third turn is passed over or overflows.
* In `turns` `MaxAttempts` is 2 instead of 5, and one start has every job at its last attempt, so that a single fault is
  retried in one case and final in the other. Two messages are what
  a turn that consumes another's message and a turn that waits for another need. `Pools` chooses at the start which
  two of the three threads exist. The safety properties also held with two faults and no background thread.
* In `sticky` two requests, one of each slot or both of one, are what a crossing needs. The session starts
  empty or on the first credential; a mishap is a failed upstream, exchange or advice, the key's revocation or
  another member's coming or going, and one start has the key revoked and the first credential
  cooling, so that both meet. `BusyBound` is one more than the requests, for the phantom count of section 5. Requests
  are symmetric; the run has no liveness property. For size, one request swaps at a time (two would not disturb each other but by
  writing back slots, as billed ones do), and requests on both pools overlap only in a minted session, while no other member is
  seated and neither swaps (whoever binds a tunnel's session anew replaces both slots alike); the other member begins beside a minted
  session only.
* In `loans` three loans and keys are what two requests and a first loan can make; two accounts are what a move needs.
* In `loans` `DueLoansEnd` says that once a loan is due a time comes when none is: each tick takes back all it finds, and `MaxResets` bounds the days
  on which more fall due.
* In `sync` four instants give a day with usage of two cycles and a cycle that crosses the month. One request beside the tick makes two syncs overlap in each order of their calls. In "keys" time
  stands still at the last instant: binding does not look at the figures.
* `CHECK_DEADLOCK FALSE` is given to the billing, turns, loans and sync runs, where every request or message allowed may
  have been received and served, and then nothing is left to do.

### Fairness

* `StormFairness` (in `gateway`, of its storm; nothing is assumed or promised of how the calm ends): time passes (`Tick`); the data plane polls the pool every 60 seconds
  (`Heartbeat`, `pollPool` in `proxy/main.go`; an interval configured at or beyond `BOOT_STALE_SECONDS` would break this); a resolve that has read goes on to its commit, in a request
  thread nothing blocks; an end is reported or given up, since `EndOpenAI` makes a bounded number of
  attempts with timeouts. No request need ever come, no upstream need finish, nobody need look
  at the book: `SeatsLapse` therefore says a seat *would be found* lapsed by
  the next look, which is when the code removes it.
* `ReportFairness`: the ticker fires and goroutines go on (`TakeBatch`, `Post`,
  `GiveUp`), the backoff ends (`Rested`), Pulse goes on with a request it has begun and commits it, and
  the database breaks a deadlock. Losses are finite, by their bound: with endless losses no
  turn would ever be reported, and the property does not claim it.
* `Turns`: weak fairness of every worker's steps and of deliveries, which end by their timeouts. Strong fairness of the keeper's two recoveries: the
  keeper looks in every round, but between rounds it is busy and the recovery not enabled; since it returns to idle again
  and again, a recovery that is possible at each return is made. Recovery of a row that a live worker still holds is *not*
  assumed; nobody need write or close. Faults are finite, by their bound.
* `KeyLoan`: threads go on and the tick comes round. Each fault happens at most as often as the bound lets it.
* `UsageSync`: the tick lists, its sync goes on (calls to Cursor have timeouts), it reschedules, and `next_sync_at` passes. Requests of
  the console need not end. Failures are finite.

## 4. Proofs

Eight modules hold theorems. They hold for every value of the constants that meets the assumptions named in the modules
(`BookAssumption`, `OccupancyAssumption`, `RankedFromTheTable`, `GatewayAssumption`, `ScenesAssumption`,
`LedgerAssumption`, `ReportAssumption`, `StickyAssumption`, `TurnsAssumption`, `LoanAssumption`, `SyncAssumption`): the sets are
what they are named for, the finite ones finite, the limits natural numbers, no question has a cap above `MaxCap`. Those that say
more: `RankedFromTheTable` (the account a question's table gives for a ranked credential is the credential's, except for one being
left), the order of days, months and cycles in `SyncAssumption`, and `Spent` within `Limit` in `ScenesAssumption`. TLC evaluates all
of them in the runs.

Of the invariants and action properties the passing runs check, all are theorems but `ServedSeated`.

| Module | Theorems | Property |
|---|---|---|
| `OccupancyProofs` | `TypeCorrect`, `Watched`, `CapRespected`, `AnswersAreSound`, `SeatsAreKept` | `TypeOK`, `CallsAreWatched`, `SteeredWithinCap`, `AdviceSound`, `OnlyTheHolderGivesUp` |
| `GatewayProofs` | `CpTyped`, `CallsAreCounted`, `DwellIsKept` | `CpTypeOK`, `CountedInCalm`, `StickyInCalm` |
| `BillingProofs` | `LedgerTyped`, `StatementsAddUp`, `ChargesAreForUsages`, `WalletKept` | `LedgerTypeOK`, `StatementAddsUp`, `ChargesMatchUsage`, `WalletSpec` |
| | `ReportTyped`, `TurnsAreKept`, `ReportedBooks`, `ReportedWallet` | `ReportTypeOK`, `NoTurnMislaid`, and the ledger's again under `ReportSpec` |
| `TurnsProofs` | `TypeCorrect`, `CoherenceHolds`, `FinalOnce`, `AnswersWhatItHeard`, `RepliesArriveOnce`, `TurnsDoNotOverlap`, `NobodyStranded`, `LostInThreeWays` | `TurnsTypeOK`, -, `OneFinal`, `NothingSwallowed`, `DeliveredOnce`, `TurnsSerial`, `NotStranded`, `NoOtherLoss` |
| `KeyLoanProofs` | `LoanTyped`, `OneHolds`, `CapKept`, `LentWork`, `NoKeyForgotten` | `LoanTypeOK`, `OneSelfLoan`, `SelfWithinCap`, `LentKeysWork`, `KeysAreLent` |
| `SyncProofs` | `SyncTyped`, `FiguresHold`, `NoneBeginsUnbound`, `QuotaGoesBackSeldom`, `CountedForGood` | `SyncTypeOK`, `FiguresAgree`, `NoSyncBeginsUnbound`, `QuotaSeldomOlder`, `UsageStaysCounted` |
| `StickyProofs` | `StickyTyped`, `RevokedStops`, `CountsAreRequests` | `StickyTypeOK`, `RevokedSoon`, `BusyMatches` |

`SeatBookProofs` has the lemmas about the operators of `SeatBook`: each makes a book of a book (`SeatTypes`,
`ReapSeatType`, `ExpiredType`, `SeatsAfterType`, `BeganType`, `EndedType`, ...) and leaves the calls or the seats of others
alone. The other modules about seats cite them. Several modules have lemma `LeastElement`, since the prover knows no minimum.

### The arguments

**Seat book.** `CallsAreWatched` is inductive with the types: begin and end note the boot they are for, no other method raises a
count, and a boot is forgotten only by the reap that zeroes its counts, in the same step. For `SteeredWithinCap` the number of
seats on an account says nothing inductive, as waived seats may exceed the cap; the number of seats that are *not* waived does.
Its one growing step is an unpinned choose under a cap, and `NewcomerHasRoom` shows that there all other seats of
the account, waived or not, were fewer than the cap. `AdviceSound` goes through the shapes of an answer (kept,
pinned, moved, refused) against the seats after it, and is where `RankedFromTheTable` is needed: with a table that
lies about a ranked credential the answer names another account than the seat.

**Gateway.** `Types` says what a handler has in each phase (`Formed`). In the calm, `Calm` says that no call fails
over, acks and restarts are spent, and the running boot is alive. `Counted`: the open calls of a seat are at most its
count under the running boot, and a seat with one is not old enough to expire; each
step of Web must spare such seats (`Spares`). `Sticks`: the binding is at least as new as the last answer and says the same
(`Fresh`), and a resolve that nobody overlapped has read the binding as it still is (`Picks`). `SceneInv` is all of these.
Without `alone` this is false: of two resolves that overlap after the dwell, the first to be written may be
the last to be answered, and then the binding and the last answer differ. That takes four requests to matter, which is
why the calm has four.

**Wallet.** `LedgerInv` is `Tables` (a row's lock is held by exactly the transaction that has moved it), `Numbered`
(ids come from one counter), `Chained` (each balance is what its committed lines end in; the lines of a transaction under way come after all of them
in its own sight) and `Referring` (a charge, made or owed, is for a usage recorded; a refund for a charge on the books, once).
The commit keeps `Chained` because the transaction has held the member's row since its first line. The step to `Wallet`: a commit appends
to the statement of each member it has moved, everything else stutters; the statement is defined by place, since what
`SortSeq` returns is not visible to the prover, and `SumOf` is shown equal to an explicit sum by
well-founded induction over finite sets of lines.

**Usage reporting.** `ReportInv` adds to it `Proxy`, `Separate` (no turn in two places of the buffer and the batches), `Carried` (the
transaction a flush waits for has recorded, or still will, each turn of the batch, and nobody else waits for it) and
`Accounted` (every turn that ended is in the buffer, in flight, known dropped or settled). Since a post is a
transaction of the ledger with a batch the ledger's own instance need not list, the lemmas about the ledger are over
any batch (`Steps`).

**Turns.** `Coherent` says that workers, rows, messages and replies agree (a reply's job comes with the reply). `Exclusive`: while no live
worker was taken for dead, no two work on one job, and a trigger has at most one final reply and none while a worker
thinks about it. `Memory`: until the desk forgets, what has arrived once has a slot and is not being sent. `OneJob`: one process job
waits or runs. `Looked`: something will look for waiting messages. `Hearing`: once the model has been asked, what is the turn's has been heard, and
a final reply keeps that, since only a running turn consumes. `Lossless`: a finished job and a worker told "sent" speak of a reply
that arrived, or of one of the three marks. All are for any number of faults of any kind.

**Key loans.** One lemma per action gives its outcomes; `ThreadsStep` and `RowsStep` then say once, for any step, what can become of a
thread and of a loan's row. `Base` is types, who holds which lock, and that threads work on loans that exist. On it: `Single` (a member has one
self-service loan in a wide sense that includes loans being moved, and none while a thread that counted none issues one); `Room` (likewise
for the cap of an account); `Owned` (keys are made in order, a key in a thread's hands is in nobody else's, a credential is of one
loan); on that, `Remotes` (a credential stands for its own key, or for none, while no other key's id was recorded), `Works` (the key behind an active loan works or its loan is
being taken back by a thread that has revoked it), `Fresh` (a thread with a row locked knows its credential, while nothing stale was written)
and `Gone` (the keys of loans about to be ended are revoked). Each conclusion needs only those of the history marks that
its property names.

**Syncs.** `Books`: records and summaries agree, a recorded event is counted once in its day, a quota is stamped after it was answered, and no
reset date is of a cycle to come. What an overtaken sync takes back follows from what its listing covers. Proving `QuotaSeldomOlder` about the reset date
found an exception no run had shown: a sync that began in one billing cycle, asked in the next and ends in a third takes the reset
date back. The property names it. `Keys`: one active row, and only after a bind, unless binds, or a bind and an unbinding, crossed (`crossed`).

**Sticky slots.** `Types` says what each phase of a request holds and that history remembers a deleted session that came back and one bound over its requests; `InTime`
bounds the age of the binding a request serves from, so that a key revoked longer ago has been noticed by the session's re-authorization.
`CountsHold`: the count of a slot is the number of requests counted on it, in the session as it is stored, whatever copies
the requests carry (they keep the stored counts, `Stays`).

### Model-checked only

* Liveness under fairness is out of the prover's reach, and so is `ENABLED`: `LapseInStorm`, `EveryTurnIsReported`, `EveryMessageSettles`, `DueLoansEnd`, `UsageArrives`.
* `ServedSeated` (sticky slots). It does not hold for every value of the constants: it needs the session's re-authorization to be
  due before a seat lapses (`SessionTtl` below `SeatTtl`), a slot idle for no time to be kept, and an account behind every
  credential. The code's own values give these. Its invariant relates each active slot
  to its seat's age, through copies that may be written back later; see section 6.
* The findings of section 5 are counterexamples of TLC.

## 5. Findings

* `cp_lost_ack`: an end whose reply is lost is posted again and takes a second call off the count; with
  two calls of a key on an account, the one still running loses its protection and its seat expires,
  although a call in progress is documented not to (docs/adr/0003, line 30).
* `cp_failover`: on a failover the binding is deleted and then upserted in the same database session, which leaves
  it deleted; the key's next request, within the dwell, may go elsewhere (ADR 0003, line 29).
* `ledger_opening`: two PUTs of a membership at a time both grant the opening credit that is
  documented to be granted once in a life (`membership.py:140`).
* `report_twice`: the data plane sets no request id, so a batch posted again after a lost answer is
  recorded and charged again; ADR 0006 (line 69) says repeated reports are idempotent.
* `reply_lost`: the slot of a reply is claimed before its delivery, so a `reply.send` retried after the client's
  timeout is told "sent" while the first delivery still runs; if that fails, the job is done and the reply
  lost. CHANGELOG.md (line 84) says failures are retried and not silently marked done.

### Seen but not claimed

Behaviours met while modelling, which the properties leave out by name (the history variables) or the models
contain without a property. They are for a reader who touches the code.

* Usage reporting: once an outage has left more than 1000 turns in the buffer (`pulse_client.go:116` holds 2000), the flush posts them all, the route answers 422
  (`internal_proxy_api.py:41`), and the batch goes back: from then on nothing is reported until the process ends, though CHANGELOG.md:81
  says what failed is reported later. Items of a key or loan that is gone are answered with success and leave no row.
* Billing: two PUTs at a time also open two memberships; after two failed
  flushes the turns a full buffer drops need not be the newest (comment at `pulse_client.go:105`).
  Gateway: with a hanging upstream an end that comes after `MAX_INFLIGHT_SECONDS` can end a fresh call's count; of two
  resolves of a key that overlap after its dwell, the one that is written first can be answered last, so
  that the key's next request goes to another account than its last one, within the dwell.
* Sticky slots: of two selections that cross, one can release the seat the other slot still uses, which the
  comment at `pulse_client.go:279` means to prevent; a rotation that finds nothing leaves the slot on a credential
  already released, which serves unseated once the marks reset; a session deleted and bound again by a request under way
  keeps that request's in-flight count (`session.go:24`), a phantom; two first requests of a tunnel's session both bind it, and the second
  binding wipes slots and counts of the first (`mitm.go:123`), so that the first's end may take another request's count; a request that is not billed
  (`mitm.go:73`, `forwardSessionSwap`) is served with the session's credential for as long as the session is found, after the key was revoked
  (proxy/README.md:92 promises minutes) and past the life of its seat, and keeps the auto slot from going idle; a member's second session can release a seat the first one uses.
* Turns: the check for an active process job looks for a status no job has (`turn_inbox.py:125`; `test_turn_inbox.py:166`
  expects otherwise, and docs/audits/2026-09-29-project-audit.md:68 says so), so a second job can come beside a pending one; a crash between
  the commit of a turn and its reschedule, or a last attempt that fails in the commit, strands a waiting message until the next one
  arrives; a message consumed after the last tool is marked handled though the reply, a tool's own text or the notice that the rounds are over, was fixed
  without it (`agent_runtime.py:318-328`); a live worker taken for dead commits a second final reply; a failed wake-up puts a job back that is done.
* Loans: `reassign` judges a loan it loaded before it took the lock (`key_loan_issue.py:77` promises serialization), so two
  moves, or a move and a return, can leave a working key behind no active loan (`stale`); remote ids are looked up by name, and names
  repeat per borrower, so the wrong key may be recorded (`namesake`; ADR 0001, line 28); a key that is not listed gets the id of the last one
  listed, be it a stranger's or the account's own (`mistaken`), or none, and then nothing can revoke it (`unknown`); where the account has no
  primary credential a return or a move skips the revocation without a word (`kept`; `key_loan_state.py:31`, `key_loan_issue.py:728`); a listing or commit that fails after a key was made
  leaves it unrevoked (`kept`; CHANGELOG.md:120); a return revokes at Cursor before its commit (`half`; `key_loan_state.py:33`);
  a return asked for in the chat notifies before its commit, and a repeated one again.
* Syncs: the stamp of a quota is taken after the answer (`sync.py:191-193`), so an older answer, even of the cycle that has ended, can be the newest
  snapshot; a sync under way goes on with its decrypted key after the unbinding is committed; an unbinding that reads its row before a bind
  commits may leave a row bound; what is used between a cycle's last sync and its end is never fetched (a sync asks from `billingCycleStart`, `sync.py:195`); the
  first sync of a cycle replaces the month's records, dropping those from before the cycle that the daily figures keep, and rebuilds the
  cycle's first day without what was used on it before; a credential that fails for good is tried at every tick, though
  `sync_errors.py:15` says it is not retried, and a batch of such accounts starves the others (`sync_tick.py:105`); `trigger_sync` acts on
  the status "success", which no sync returns; `get_primary_credential` falls back to any active credential
  (`credentials.py:66`), so a second unbinding, or a binding after one, takes over a lent key's row (CONTEXT.md:101); two
  binds at a time make two rows, of which an unbinding ends one (`commands.py:267`); on PostgreSQL the deletion of a
  replaced ingestion violates the foreign key of `usage_summaries` (`models.py:398`).

## 6. Not modelled, and the plan

The map covers a small share of the source's lines, and cannot cover most of them. Large parts of it are user
interface and HTTP handlers, schema and migrations, configuration, adapters to IM systems and model providers, command line and
development tools: they keep no state of their own beyond the rows and calls modelled here, or none at all. The dialogue, memory and
skills of the assistant are prompts and the parsing of model answers. Reports, burn rates and lender scores only read. What remains,
and is modelled, is where rows, memory and remote systems must agree while several actors move.

What could still be modelled, in this order:

1. `SpendPolicy`: `evaluate_spend` and its windows as operators against a reference definition; the gate under
   charges still in the data plane's buffer, composed with `CreditLedger`.
2. `LenderSelection`: thresholds and order of the candidates, as operators.
3. The tick over several accounts: which due accounts a batch takes, backoff and starvation.
4. The fallback to a loan's credential: `UsageSync` composed with `KeyLoan`, with an account that lends.
5. The allowlists of loans and a changing pool in `StickySelect`; the On-Demand brake.

Worth proving:

1. `ServedSeated`. Of a live session without crossed selections: while it was bound no longer than `SessionTtl` ago, the seat
   of each active slot is taken and no older than the binding, or the slot is in `unseated`; a request
   that has been advised has its seat just refreshed; one that settles has a copy in step with the session.
2. Whatever is modelled next; `SpendPolicy` as functions over finite sets of rows would allow proofs about the windows.
