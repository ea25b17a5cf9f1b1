----------------------------- MODULE UsageSync -----------------------------
(***************************************************************************)
(* One Cursor account's usage brought into Pulse: the scheduler's tick and *)
(* requests of the Web console read the usage of the current billing cycle *)
(* from Cursor and write it over what the database has, while keys are     *)
(* bound and unbound (pulse/ingestion/sync_tick.py, sync.py, service.py,   *)
(* daily.py, credentials.py). SQLite: a transaction is alone from its      *)
(* first write to its commit, and what was read before it may be stale.    *)
(* The account lends no key, so each of its credentials is a primary one.  *)
(***************************************************************************)
EXTENDS Naturals, Sequences, FiniteSets

CONSTANTS
  Handler,     \* requests of the Web console that may run at once
  Tick,        \* the scheduler's job, which does not overlap itself
  Horizon,     \* bound: how many instants usage may happen at
  DayOf, PeriodOf, CycleOf,   \* the day, the month and the billing cycle of each instant
  MaxRows,     \* bound: rows of credentials
  MaxRequests, MaxFaults      \* bounds: requests, and syncs that fail

Syncer == Handler \cup {Tick}
Instant == 1..Horizon
Row == 1..MaxRows
Period == {PeriodOf[i] : i \in Instant}
Cycle == {CycleOf[i] : i \in Instant}
None == 0

ASSUME SyncAssumption ==
  /\ Tick \notin Handler /\ Horizon \in Nat \ {0} /\ {MaxRows, MaxRequests, MaxFaults} \subseteq Nat
  /\ {DayOf, PeriodOf, CycleOf} \subseteq [Instant -> Nat \ {0}]
  /\ \A i, j \in Instant :
       /\ i <= j => DayOf[i] <= DayOf[j] /\ CycleOf[i] <= CycleOf[j]
       /\ DayOf[i] = DayOf[j] => PeriodOf[i] = PeriodOf[j]

VARIABLES
  now, used,   \* the instant it is, and the instants at which the account was used
  creds,       \* ai_account_credentials of the account: status, and whether a sync is due
  records,     \* of each period, its confirmed ingestions: the usage events each holds
  daily,       \* usage_daily_aggregates: how often an event is counted in its day's figure
  summaries,   \* usage_summaries: the events a period's summary is computed from
  quota,       \* the newest quota snapshot: its captured_at, and when Cursor had answered it
  resetsOn,    \* the account's usage_resets_on, as the cycle that ends then
  sync,        \* what each syncer is doing
  wanted,      \* history: the last command about the key was to bind one
  crossed,     \* history: a bind or an unbinding left a row active that another had made meanwhile
  requests, faults

syncVars == <<now, used, creds, records, daily, summaries, quota, resetsOn, sync, wanted, crossed,
              requests, faults>>
books == <<records, daily, summaries, quota, resetsOn>>
world == <<now, used, wanted, crossed, requests, faults>>

NoCred == [status |-> "none", due |-> FALSE]
NoQuota == [at |-> 0, from |-> 0]

\* row: the credential listed by the tick, or read by a bind or an unbinding; view: the reset
\* date as loaded with the account; asked: when Cursor answered the quota; stamp: the clock
\* as read after that; events: the usage it then listed.
Idle == [at |-> "idle", row |-> None, view |-> None, asked |-> 0, stamp |-> 0, events |-> {}]

NothingRead ==
  /\ records = [p \in Period |-> <<>>] /\ daily = [e \in Instant |-> 0]
  /\ summaries = [p \in Period |-> {}] /\ quota = NoQuota /\ resetsOn = None
  /\ sync = [s \in Syncer |-> Idle] /\ crossed = FALSE

\* The account has a key or not; nothing has been brought in yet.
SyncInit ==
  /\ now = 1 /\ used \in SUBSET {1}
  /\ wanted \in BOOLEAN
  /\ creds = [r \in Row |-> IF r = 1 /\ wanted THEN [status |-> "active", due |-> TRUE] ELSE NoCred]
  /\ NothingRead /\ requests = 0 /\ faults = 0

At(s, stage) == sync[s].at = stage
Ends(s) == sync' = [sync EXCEPT ![s] = Idle]

\* Slip: a revoked row is still found.
PrimaryEver == {r \in Row : creds[r].status # "none"}

\* get_primary_credential takes any of these.
Primary == {r \in Row : creds[r].status = "active"}
-----------------------------------------------------------------------------
(* A sync *)

\* run_sync_tick lists what is due. (Priorities, retries and next_retry_at only make a row
\* due earlier: a failure leaves next_sync_at in the past.)
TickLists ==
  /\ At(Tick, "idle")
  /\ \E r \in Primary : creds[r].due /\ sync' = [sync EXCEPT ![Tick] = [Idle EXCEPT !.at = "listed", !.row = r]]
  /\ UNCHANGED <<world, creds, books>>

\* trigger_sync, of an account that has a key.
Triggers(h) ==
  /\ At(h, "idle") /\ Primary # {} /\ requests < MaxRequests /\ requests' = requests + 1
  /\ sync' = [sync EXCEPT ![h].at = "listed", ![h].view = resetsOn]
  /\ UNCHANGED <<now, used, wanted, crossed, faults, creds, books>>

\* sync_account looks for the key itself, and gives up without one.
Starts(s) ==
  /\ At(s, "listed")
  /\ IF Primary = {} THEN Ends(s)
     ELSE sync' = [sync EXCEPT ![s].at = "started", ![s].view = IF s = Tick THEN resetsOn ELSE @]
  /\ UNCHANGED <<world, creds, books>>

CurrentCycle == CycleOf[now]
CycleAsked(s) == CycleOf[sync[s].asked]

\* GetCurrentPeriodUsage, with the key decrypted when the sync started.
Asks(s) ==
  /\ At(s, "started") /\ sync' = [sync EXCEPT ![s].at = "asked", ![s].asked = now]
  /\ UNCHANGED <<world, creds, books>>

\* Then the clock is read, for captured_at and for the end of the listing.
Stamps(s) ==
  /\ At(s, "asked") /\ sync' = [sync EXCEPT ![s].at = "stamped", ![s].stamp = now]
  /\ UNCHANGED <<world, creds, books>>

\* Then the usage events are listed, from the start of the answer's cycle until the stamp.
Lists(s) ==
  /\ At(s, "stamped")
  /\ sync' = [sync EXCEPT ![s].at = "fetched",
                          ![s].events = {e \in used : CycleOf[e] >= CycleAsked(s) /\ e <= sync[s].stamp}]
  /\ UNCHANGED <<world, creds, books>>

OfPeriod(events, p) == {e \in events : PeriodOf[e] = p}

\* Slip: a month that has an ingestion keeps it.
ReplacedOnce(rows, events, p) == IF rows # <<>> THEN rows ELSE <<OfPeriod(events, p)>>

\* Slip: the whole answer goes into every month it touches.
ReplacedWhole(rows, events, p) == <<events>>

\* ingest: the new ingestion replaces every confirmed one of the account and period.
Replaced(rows, events, p) == <<OfPeriod(events, p)>>

RecordsAfter(events) ==
  [p \in Period |-> IF OfPeriod(events, p) = {} THEN records[p] ELSE Replaced(records[p], events, p)]

CountIn(rows, e) == Cardinality({n \in DOMAIN rows[PeriodOf[e]] : e \in rows[PeriodOf[e]][n]})

\* Slip: the days are rebuilt before the ingestion is replaced.
DailyBefore(events, rows) ==
  [e \in Instant |-> IF DayOf[e] \in {DayOf[i] : i \in events} THEN CountIn(records, e) ELSE daily[e]]

\* Slip: every day of the months in the answer is rebuilt.
DailyOfMonth(events, rows) ==
  [e \in Instant |-> IF PeriodOf[e] \in {PeriodOf[i] : i \in events} THEN CountIn(rows, e) ELSE daily[e]]

\* rebuild_daily_aggregates, for the days the answer has usage on.
DailyAfter(events, rows) ==
  [e \in Instant |-> IF DayOf[e] \in {DayOf[i] : i \in events} THEN CountIn(rows, e) ELSE daily[e]]

\* Slip: the newest is the snapshot written last.
QuotaWritten(s) == [at |-> sync[s].stamp, from |-> sync[s].asked]

\* The snapshot is added; the newest is the one captured last.
QuotaAfter(s) ==
  IF sync[s].stamp >= quota.at THEN [at |-> sync[s].stamp, from |-> sync[s].asked] ELSE quota

\* The reset date is written only if it differs from the one the session had loaded.
ResetAfter(s) == IF sync[s].view = CycleAsked(s) THEN resetsOn ELSE CycleAsked(s)

\* The transaction that sync_account commits. (Nothing looks earlier whether the answer has
\* a plan and the bounds of its cycle; without them no quota and no reset date is written.)
Stores(s) ==
  LET rows == RecordsAfter(sync[s].events)
  IN /\ At(s, "fetched")
     /\ records' = rows /\ daily' = DailyAfter(sync[s].events, rows)
     /\ summaries' = [p \in Period |-> IF rows[p] = <<>> THEN summaries[p] ELSE rows[p][Len(rows[p])]]
     /\ \/ quota' = QuotaAfter(s) /\ resetsOn' = ResetAfter(s)
        \/ UNCHANGED <<quota, resetsOn>>
     /\ IF s = Tick THEN sync' = [sync EXCEPT ![s] = [Idle EXCEPT !.at = "stored", !.row = sync[s].row]]
        ELSE Ends(s)
     /\ UNCHANGED <<world, creds>>

\* apply_sync_success, in a transaction of its own. (trigger_sync looks for the status
\* "success", which no sync returns, so only the tick moves next_sync_at.)
Reschedules ==
  /\ At(Tick, "stored") /\ Ends(Tick)
  /\ creds' = [creds EXCEPT ![sync[Tick].row].due = FALSE]
  /\ UNCHANGED <<world, books>>

\* Cursor refuses or is out of reach, the transaction fails, or the process dies. What was
\* not committed is rolled back, and a row the tick was at is still due.
Fails(s) ==
  /\ sync[s].at \in {"started", "asked", "stamped", "fetched", "stored"}
  /\ faults < MaxFaults /\ faults' = faults + 1 /\ Ends(s)
  /\ UNCHANGED <<now, used, wanted, crossed, requests, creds, books>>
-----------------------------------------------------------------------------
(* Keys *)

\* bind_cursor_api_key: Cursor has accepted the key, the account's row is read.
BindReads(h) ==
  /\ At(h, "idle") /\ requests < MaxRequests /\ requests' = requests + 1
  /\ \E r \in IF Primary = {} THEN {None} ELSE Primary :
       sync' = [sync EXCEPT ![h] = [Idle EXCEPT !.at = "binding", !.row = r]]
  /\ UNCHANGED <<now, used, wanted, crossed, faults, creds, books>>

\* The row gets the new key (its status, read as active, is not written), or a new row is
\* made; init_schedule_on_bind puts the next sync off. The request then syncs.
BindWrites(h) ==
  /\ At(h, "binding") /\ sync' = [sync EXCEPT ![h].at = "listed", ![h].row = None, ![h].view = resetsOn]
  /\ \/ sync[h].row # None /\ creds' = [creds EXCEPT ![sync[h].row].due = FALSE] /\ UNCHANGED crossed
     \/ /\ sync[h].row = None /\ crossed' = (crossed \/ Primary # {})
        /\ \E r \in Row :
             /\ creds[r].status = "none" /\ \A q \in 1..r - 1 : creds[q].status # "none"
             /\ creds' = [creds EXCEPT ![r] = [status |-> "active", due |-> FALSE]]
  /\ wanted' = TRUE
  /\ UNCHANGED <<now, used, requests, faults, books>>

\* revoke: the account's row is read.
UnbindReads(h) ==
  /\ At(h, "idle") /\ requests < MaxRequests /\ requests' = requests + 1
  /\ \E r \in Primary : sync' = [sync EXCEPT ![h] = [Idle EXCEPT !.at = "unbinding", !.row = r]]
  /\ UNCHANGED <<now, used, wanted, crossed, faults, creds, books>>

\* That row is revoked, whichever the account has by now. No sync under way is stopped.
Unbinds(h) ==
  /\ At(h, "unbinding") /\ Ends(h)
  /\ creds' = [creds EXCEPT ![sync[h].row].status = "revoked"]
  /\ wanted' = FALSE /\ crossed' = (crossed \/ Primary \ {sync[h].row} # {})
  /\ UNCHANGED <<now, used, requests, faults, books>>
-----------------------------------------------------------------------------
(* The surroundings *)

\* Time goes on, and the account is used or not.
Pass ==
  /\ now < Horizon /\ now' = now + 1
  /\ used' \in {used, used \cup {now + 1}}
  /\ UNCHANGED <<wanted, crossed, requests, faults, creds, books, sync>>

\* next_sync_at is reached, or an administrator has shortened the interval.
ComesDue(r) ==
  /\ creds[r].status = "active" /\ ~creds[r].due
  /\ creds' = [creds EXCEPT ![r].due = TRUE]
  /\ UNCHANGED <<world, books, sync>>

SyncStep(s) == Starts(s) \/ Asks(s) \/ Stamps(s) \/ Lists(s) \/ Stores(s)

SyncNext ==
  \/ TickLists \/ Reschedules \/ Pass
  \/ \E s \in Syncer : SyncStep(s) \/ Fails(s)
  \/ \E h \in Handler : Triggers(h) \/ BindReads(h) \/ BindWrites(h) \/ UnbindReads(h) \/ Unbinds(h)
  \/ \E r \in Row : ComesDue(r)

SyncSpec == SyncInit /\ [][SyncNext]_syncVars

\* The tick comes round every two minutes, calls to Cursor time out, next_sync_at passes.
SyncFairness ==
  /\ WF_syncVars(TickLists) /\ WF_syncVars(SyncStep(Tick)) /\ WF_syncVars(Reschedules)
  /\ \A r \in Row : WF_syncVars(ComesDue(r))

SyncFairSpec == SyncSpec /\ SyncFairness
-----------------------------------------------------------------------------
(* What must hold *)

SyncTypeOK ==
  /\ now \in Instant /\ used \subseteq 1..now
  /\ creds \in [Row -> [status : {"none", "active", "revoked"}, due : BOOLEAN]]
  /\ \A p \in Period : \A n \in DOMAIN records[p] : records[p][n] \subseteq OfPeriod(used, p)
  /\ daily \in [Instant -> Nat] /\ summaries \in [Period -> SUBSET used]
  /\ quota \in [at : 0..now, from : 0..now] /\ resetsOn \in Cycle \cup {None}
  /\ \A s \in Syncer : sync[s].events \subseteq used /\ sync[s].row \in Row \cup {None}
  /\ {wanted, crossed} \subseteq BOOLEAN /\ requests \in 0..MaxRequests /\ faults \in 0..MaxFaults

\* However syncs overlap, fail and end out of order, the day's figures, the records and the
\* summaries of the console tell one story: a recorded event is counted once in its day and
\* stands in its month's summary, and no event is counted twice.
FiguresAgree ==
  LET recorded(p) == UNION {records[p][n] : n \in DOMAIN records[p]}
  IN /\ \A e \in Instant : daily[e] <= 1 /\ (e \in recorded(PeriodOf[e]) => daily[e] = 1)
     /\ \A p \in Period : summaries[p] = recorded(p)

FirstDay(c) == DayOf[CHOOSE i \in Instant : CycleOf[i] = c /\ \A j \in 1..i - 1 : CycleOf[j] # c]

\* Usage once in a day's figure stays there, except in two cases: a sync whose listing ends
\* before that usage is written after one that has it, and the first sync of a billing cycle
\* takes from the day the cycle began what was used earlier on that day.
UsageStaysCounted ==
  [][\A e \in Instant : daily'[e] < daily[e] =>
       \E s \in Syncer : At(s, "fetched") /\ sync'[s].at # "fetched" /\
         \/ sync[s].stamp < e
         \/ CycleOf[e] < CycleAsked(s) /\ DayOf[e] = FirstDay(CycleAsked(s))]_syncVars

\* The quota that loans and routing go by gives way to an older answer of Cursor's only if it
\* was itself answered between that older answer and the stamp its sync put on it (so also to
\* one of an ended cycle only if the cycle turned in between). The reset date goes back only
\* for a sync that began before the account had any, or that began in one cycle, had its
\* answer in the next and ends in a third.
QuotaSeldomOlder ==
  [][/\ quota'.at >= quota.at
     /\ quota'.from < quota.from =>
          \E s \in Syncer : /\ At(s, "fetched") /\ sync'[s].at # "fetched"
                            /\ sync[s].asked < quota.from /\ quota.from <= sync[s].stamp
     /\ resetsOn' < resetsOn =>
          \E s \in Syncer : /\ At(s, "fetched")
                            /\ \/ sync[s].view = None
                               \/ sync[s].view < CycleAsked(s) /\ CycleAsked(s) < CurrentCycle]_syncVars

\* No sync begins once an unbinding is committed: not the tick that had the key listed, nor a
\* request that had found the account bound; unless a bind and an unbinding, or two binds,
\* crossed and a row was missed. (A sync that had begun goes on asking Cursor with the key
\* it decrypted, and stores what it reads.)
NoSyncBeginsUnbound ==
  [][\A s \in Syncer : At(s, "listed") /\ sync'[s].at = "started" => wanted \/ crossed]_syncVars

\* An account that stays bound has in the end all usage of its cycle in its figures,
\* each event once and for good, whatever syncs failed or overwrote each other before.
UsageArrives ==
  <>[](Primary # {}) => <>[](\A e \in used : CycleOf[e] = CurrentCycle => daily[e] = 1)
=============================================================================
