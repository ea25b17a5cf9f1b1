----------------------------- MODULE SyncProofs -----------------------------
(***************************************************************************)
(* What holds of an account's figures and keys for every number of         *)
(* handlers, every calendar and every bound on time, requests and faults:  *)
(* that a sync which writes late breaks no figure but those the properties *)
(* name, that the quota gives way to an older answer in one case only, and *)
(* that no sync begins with an unbound key.                                *)
(***************************************************************************)
EXTENDS UsageSync, FiniteSetTheorems, TLAPS

USE SyncAssumption

\* Every set of naturals with an element has a smallest one.
LEMMA LeastElement ==
  ASSUME NEW T \in SUBSET Nat, NEW n \in T
  PROVE  \E x \in T : \A y \in T : x <= y
<1> DEFINE Less == {s \in Nat \X Nat : s[1] < s[2]}
<1>1. IsWellFoundedOn(Less, Nat)
  BY NatLessThanWellFounded DEF OpToRel
<1>2. \A x, y \in Nat : y < x => <<y, x>> \in Less
  OBVIOUS
<1> HIDE DEF Less
<1>3. PICK x \in T : \A y \in T : ~(<<y, x>> \in Less)
  BY <1>1, WFMin
<1>4. \A y \in T : ~(y < x)
  BY <1>2, <1>3, Zenon
<1> QED BY <1>4

\* What a syncer can be doing.
SyncState == [at : {"idle", "listed", "started", "asked", "stamped", "fetched", "stored", "binding", "unbinding"},
              row : Row \cup {None}, view : Cycle \cup {None},
              asked : Instant \cup {None}, stamp : Instant \cup {None}, events : SUBSET Instant]

\* The usage from the start of the cycle of instant a until instant t.
Listed(a, t) == {e \in used : CycleOf[e] >= CycleOf[a] /\ e <= t}

Answered(v) == v.at \in {"asked", "stamped", "fetched"} => v.asked \in Instant /\ v.view <= CycleOf[v.asked]
Stamped(v) == v.at \in {"stamped", "fetched"} => v.stamp \in Instant /\ v.asked <= v.stamp

\* What a syncer holds is no newer than now, an answer is stamped after it came, and a
\* listing is all usage from its cycle's start until the stamp.
Syncing(v) ==
  /\ v.view <= CurrentCycle /\ v.asked <= now /\ v.stamp <= now /\ v.events \subseteq used
  /\ Answered(v) /\ Stamped(v)
  /\ v.at = "fetched" => v.events = Listed(v.asked, v.stamp)

\* A month has no confirmed ingestion or one: every sync replaces what it finds.
Types ==
  /\ now \in Instant /\ used \subseteq 1..now
  /\ creds \in [Row -> [status : {"none", "active", "revoked"}, due : BOOLEAN]]
  /\ records \in [Period -> {<<>>} \cup {<<E>> : E \in SUBSET Instant}]
  /\ daily \in [Instant -> {0, 1}] /\ summaries \in [Period -> SUBSET used]
  /\ quota \in [at : 0..now, from : 0..now] /\ resetsOn \in Cycle \cup {None}
  /\ sync \in [Syncer -> SyncState] /\ \A s \in Syncer : Syncing(sync[s])
  /\ wanted \in BOOLEAN /\ crossed \in BOOLEAN /\ requests \in 0..MaxRequests /\ faults \in 0..MaxFaults

\* The events of a month's confirmed ingestion.
Recorded(p) == IF records[p] = <<>> THEN {} ELSE records[p][1]

\* The figures agree with the records, and the newest quota was answered before its stamp.
Books ==
  /\ \A p \in Period : Recorded(p) \subseteq OfPeriod(used, p) /\ summaries[p] = Recorded(p)
  /\ \A e \in Instant : /\ e \in Recorded(PeriodOf[e]) => daily[e] = 1
                        /\ daily[e] = 1 => e \in used
  /\ quota.from <= quota.at /\ resetsOn <= CurrentCycle

\* One active row, and only after a bind; unless binds that ran at once made two.
Keys ==
  /\ ~crossed => \A q, r \in Primary : q = r
  /\ Primary # {} => wanted \/ crossed

\* Days, months and cycles are positive numbers, and go on as time does.
LEMMA Calendar ==
  /\ \A i \in Instant : /\ DayOf[i] \in Nat \ {0} /\ PeriodOf[i] \in Nat \ {0} /\ CycleOf[i] \in Nat \ {0}
                        /\ PeriodOf[i] \in Period /\ CycleOf[i] \in Cycle
                        /\ i \in Nat \ {0}
  /\ \A i, j \in Instant : /\ i <= j => DayOf[i] <= DayOf[j] /\ CycleOf[i] <= CycleOf[j]
                           /\ DayOf[i] = DayOf[j] => PeriodOf[i] = PeriodOf[j]
  /\ Cycle \subseteq Nat \ {0}
BY DEF Instant, Period, Cycle

\* A sequence of one.
LEMMA Single ==
  ASSUME NEW E
  PROVE  /\ DOMAIN <<E>> = {1} /\ <<E>>[1] = E /\ Len(<<E>>) = 1 /\ <<E>> # <<>>
         /\ DOMAIN <<>> = {}
OBVIOUS

\* With one ingestion, all records of a month are that one's.
LEMMA RecordedUnion ==
  ASSUME Types, NEW p \in Period
  PROVE  /\ UNION {records[p][n] : n \in DOMAIN records[p]} = Recorded(p)
         /\ \A n \in DOMAIN records[p] : records[p][n] = Recorded(p)
<1>1. CASE records[p] = <<>>
  <2>1. DOMAIN records[p] = {}
    BY <1>1
  <2> QED BY <1>1, <2>1 DEF Recorded
<1>2. ASSUME NEW E, records[p] = <<E>>
      PROVE  /\ UNION {records[p][n] : n \in DOMAIN records[p]} = Recorded(p)
             /\ \A n \in DOMAIN records[p] : records[p][n] = Recorded(p)
  <2>1. DOMAIN records[p] = {1} /\ records[p][1] = E /\ records[p] # <<>>
    BY <1>2, Single
  <2>2. Recorded(p) = E
    BY <2>1 DEF Recorded
  <2> QED BY <2>1, <2>2
<1> QED BY <1>1, <1>2 DEF Types

\* With one ingestion, an event is counted once or not at all.
LEMMA Counted ==
  ASSUME NEW rows \in [Period -> {<<>>} \cup {<<E>> : E \in SUBSET Instant}], NEW e \in Instant
  PROVE  CountIn(rows, e) = IF rows[PeriodOf[e]] # <<>> /\ e \in rows[PeriodOf[e]][1] THEN 1 ELSE 0
<1> DEFINE r == rows[PeriodOf[e]]
           C == {n \in DOMAIN r : e \in r[n]}
<1>1. r = <<>> \/ \E E \in SUBSET Instant : r = <<E>>
  BY Calendar
<1>2. CountIn(rows, e) = Cardinality(C)
  BY DEF CountIn
<1>3. CASE r = <<>>
  <2>1. C = {}
    BY <1>3
  <2>2. Cardinality(C) = 0
    BY <2>1, FS_EmptySet
  <2> QED BY <1>2, <1>3, <2>2
<1>4. ASSUME NEW E, r = <<E>> PROVE CountIn(rows, e) = IF r # <<>> /\ e \in r[1] THEN 1 ELSE 0
  <2>1. DOMAIN r = {1} /\ r[1] = E /\ r # <<>>
    BY <1>4, Single
  <2> HIDE DEF r
  <2>2. CASE e \in E
    <3>1. C = {1}
      BY <2>1, <2>2
    <3>2. Cardinality(C) = 1
      BY <3>1, FS_Singleton
    <3> QED BY <1>2, <2>1, <2>2, <3>2
  <2>3. CASE e \notin E
    <3>1. C = {}
      BY <2>1, <2>3
    <3>2. Cardinality(C) = 0
      BY <3>1, FS_EmptySet
    <3> QED BY <1>2, <2>1, <2>3, <3>2
  <2> QED BY <2>2, <2>3
<1> QED BY <1>1, <1>3, <1>4

\* The invariant holds before anything is brought in.
LEMMA InitHolds == SyncInit => Types /\ Books /\ Keys
<1> SUFFICES ASSUME SyncInit PROVE Types /\ Books /\ Keys
  OBVIOUS
<1>1. Idle \in SyncState
  BY DEF Idle, SyncState, None
<1>2. /\ now \in Instant /\ used \subseteq 1..now /\ CurrentCycle \in Nat
  BY Calendar DEF SyncInit, Instant, CurrentCycle
<1>3. \A s \in Syncer : Syncing(sync[s])
  BY <1>2 DEF SyncInit, NothingRead, Syncing, Answered, Stamped, Idle, None, Instant
<1>4. creds \in [Row -> [status : {"none", "active", "revoked"}, due : BOOLEAN]]
  BY DEF SyncInit, NoCred
<1>5. quota = NoQuota /\ NoQuota \in [at : 0..now, from : 0..now]
  BY <1>2 DEF SyncInit, NothingRead, NoQuota, Instant
<1>6. /\ records = [p \in Period |-> <<>>] /\ daily = [e \in Instant |-> 0]
      /\ summaries = [p \in Period |-> {}] /\ resetsOn = None
      /\ sync = [s \in Syncer |-> Idle] /\ crossed = FALSE /\ wanted \in BOOLEAN /\ requests = 0 /\ faults = 0
  BY DEF SyncInit, NothingRead
<1>7. Types
  <2>1. sync \in [Syncer -> SyncState]
    BY <1>1, <1>6
  <2>2. /\ daily \in [Instant -> {0, 1}] /\ summaries \in [Period -> SUBSET used]
        /\ records \in [Period -> {<<>>} \cup {<<E>> : E \in SUBSET Instant}]
    BY <1>6
  <2>3. requests \in 0..MaxRequests /\ faults \in 0..MaxFaults /\ resetsOn \in Cycle \cup {None}
    BY <1>6
  <2> QED BY <1>2, <1>3, <1>4, <1>5, <1>6, <2>1, <2>2, <2>3 DEF Types
<1>8. Books
  <2>1. \A p \in Period : Recorded(p) = {} /\ summaries[p] = {}
    BY <1>6 DEF Recorded
  <2>2. \A e \in Instant : daily[e] = 0 /\ Recorded(PeriodOf[e]) = {}
    BY <1>6, <2>1, Calendar
  <2>3. resetsOn <= CurrentCycle
    BY <1>2, <1>6 DEF None
  <2>4. \A p \in Period : Recorded(p) \subseteq OfPeriod(used, p) /\ summaries[p] = Recorded(p)
    BY <2>1
  <2>5. \A e \in Instant : /\ e \in Recorded(PeriodOf[e]) => daily[e] = 1
                           /\ daily[e] = 1 => e \in used
    BY <2>2
  <2>6. quota.from <= quota.at
    BY <1>5 DEF NoQuota
  <2> QED BY <2>3, <2>4, <2>5, <2>6 DEF Books
<1>9. Keys
  BY DEF SyncInit, NothingRead, Keys, Primary, NoCred
<1> QED BY <1>7, <1>8, <1>9

\* Binds and unbinds keep Keys: a bind that read a row writes that one, a bind that read
\* none makes a second one only beside another bind (credentials.py:66).
LEMMA KeysStep == Types /\ Keys /\ [SyncNext]_syncVars => Keys'
<1> SUFFICES ASSUME Types, Keys, [SyncNext]_syncVars PROVE Keys'
  OBVIOUS
<1>1. creds \in [Row -> [status : {"none", "active", "revoked"}, due : BOOLEAN]] /\ crossed \in BOOLEAN
  BY DEF Types
<1>2. ASSUME UNCHANGED <<wanted, crossed>>, \A r \in Row : creds'[r].status = creds[r].status PROVE Keys'
  BY <1>2 DEF Keys, Primary
<1>3. CASE TickLists \/ Pass
  BY <1>2, <1>3 DEF TickLists, Pass, world
<1>4. CASE Reschedules
  <2>1. \A r \in Row : creds'[r].status = creds[r].status
    BY <1>1, <1>4 DEF Reschedules
  <2> QED BY <1>2, <1>4, <2>1 DEF Reschedules, world
<1>5. ASSUME NEW h \in Handler, Unbinds(h) PROVE Keys'
  <2>1. \A q \in Row : creds'[q].status = IF q = sync[h].row THEN "revoked" ELSE creds[q].status
    BY <1>1, <1>5 DEF Unbinds
  <2>2. Primary' = Primary \ {sync[h].row}
    BY <2>1 DEF Primary
  <2>3. wanted' = FALSE /\ crossed' = (crossed \/ Primary \ {sync[h].row} # {})
    BY <1>5 DEF Unbinds
  <2> QED BY <2>2, <2>3 DEF Keys
<1>6. ASSUME NEW s \in Syncer, SyncStep(s) \/ Fails(s) PROVE Keys'
  BY <1>2, <1>6 DEF SyncStep, Starts, Asks, Stamps, Lists, Stores, Fails, world
<1>7. ASSUME NEW h \in Handler, Triggers(h) \/ BindReads(h) \/ UnbindReads(h) PROVE Keys'
  BY <1>2, <1>7 DEF Triggers, BindReads, UnbindReads
<1>8. ASSUME NEW h \in Handler, BindWrites(h) PROVE Keys'
  <2>1. CASE sync[h].row # None /\ creds' = [creds EXCEPT ![sync[h].row].due = FALSE] /\ UNCHANGED crossed
    <3>1. \A r \in Row : creds'[r].status = creds[r].status
      BY <1>1, <2>1
    <3> QED BY <1>8, <2>1, <3>1 DEF Keys, Primary, BindWrites
  <2>2. ASSUME NEW r \in Row, creds' = [creds EXCEPT ![r] = [status |-> "active", due |-> FALSE]],
               crossed' = (crossed \/ Primary # {})
        PROVE  Keys'
    <3>1. \A q \in Row : creds'[q].status = IF q = r THEN "active" ELSE creds[q].status
      BY <1>1, <2>2
    <3> QED BY <1>1, <1>8, <2>2, <3>1 DEF Keys, Primary, BindWrites
  <2> QED BY <1>8, <2>1, <2>2 DEF BindWrites
<1>9. ASSUME NEW r \in Row, ComesDue(r) PROVE Keys'
  <2>1. \A q \in Row : creds'[q].status = creds[q].status
    BY <1>1, <1>9 DEF ComesDue
  <2> QED BY <1>2, <1>9, <2>1 DEF ComesDue, world
<1>10. CASE UNCHANGED syncVars
  BY <1>2, <1>10 DEF syncVars
<1> QED BY <1>3, <1>4, <1>5, <1>6, <1>7, <1>8, <1>9, <1>10 DEF SyncNext

\* One syncer goes on; the clock and the books stand still.
LEMMA SyncMoved ==
  ASSUME Types, NEW s \in Syncer, NEW v \in SyncState, Syncing(v), UNCHANGED <<now, used>>,
         sync' = [sync EXCEPT ![s] = v]
  PROVE  sync' \in [Syncer -> SyncState] /\ \A r \in Syncer : Syncing(sync[r])'
<1>1. \A r \in Syncer : sync'[r] = IF r = s THEN v ELSE sync[r]
  BY DEF Types
<1>2. \A r \in Syncer : sync'[r] \in SyncState /\ Syncing(sync'[r])
  BY <1>1 DEF Types
<1>3. sync' \in [Syncer -> SyncState]
  BY DEF Types
<1>4. \A r \in Syncer : Syncing(sync[r])'
  BY <1>2 DEF Syncing, Answered, Stamped, Listed, CurrentCycle
<1> QED BY <1>3, <1>4

\* Usage is of the past.
LEMMA UsedSoFar == Types => /\ used \subseteq Instant /\ \A e \in used : e \in Nat /\ 1 <= e /\ e <= now
                            /\ now \in Nat /\ now <= Horizon
<1> SUFFICES ASSUME Types PROVE /\ used \subseteq Instant /\ \A e \in used : e \in Nat /\ 1 <= e /\ e <= now
                                /\ now \in Nat /\ now <= Horizon
  OBVIOUS
<1>1. now \in Nat /\ now <= Horizon
  BY DEF Types, Instant
<1>2. used \subseteq 1..now
  BY DEF Types
<1>3. \A e \in used : e \in Nat /\ 1 <= e /\ e <= now
  BY <1>1, <1>2
<1> QED BY <1>1, <1>3 DEF Instant

\* A syncer at rest holds nothing.
LEMMA IdleFits == Types => Idle \in SyncState /\ Syncing(Idle)
BY Calendar DEF Types, Idle, SyncState, Syncing, Answered, Stamped, None, CurrentCycle

\* A bind that ends goes on as a sync of its own.
LEMMA Again ==
  ASSUME Types, Books, NEW w \in SyncState, Syncing(w)
  PROVE  /\ [w EXCEPT !.at = "listed", !.view = resetsOn] \in SyncState
         /\ Syncing([w EXCEPT !.at = "listed", !.view = resetsOn])
<1> DEFINE v == [w EXCEPT !.at = "listed", !.view = resetsOn]
<1>1. resetsOn \in Cycle \cup {None} /\ resetsOn <= CurrentCycle
  BY DEF Types, Books
<1>2. v \in SyncState
  BY <1>1 DEF SyncState
<1>3. v.at = "listed" /\ v.view = resetsOn /\ v.asked = w.asked /\ v.stamp = w.stamp /\ v.events = w.events
  BY DEF SyncState
<1> HIDE DEF v
<1>4. Syncing(v)
  BY <1>1, <1>3 DEF Syncing, Answered, Stamped
<1> QED BY <1>2, <1>4 DEF v

\* Whatever a syncer does, what it holds stays of the past.
LEMMA SyncersStep == Types /\ Books /\ [SyncNext]_syncVars =>
                       sync' \in [Syncer -> SyncState] /\ \A s \in Syncer : Syncing(sync[s])'
<1> SUFFICES ASSUME Types, Books, [SyncNext]_syncVars
             PROVE  sync' \in [Syncer -> SyncState] /\ \A s \in Syncer : Syncing(sync[s])'
  OBVIOUS
<1>1. /\ sync \in [Syncer -> SyncState] /\ Tick \in Syncer /\ Handler \subseteq Syncer
      /\ \A s \in Syncer : sync[s] \in SyncState /\ Syncing(sync[s])
      /\ now \in Instant /\ used \subseteq 1..now /\ resetsOn \in Cycle \cup {None} /\ resetsOn <= CurrentCycle
      /\ Primary \subseteq Row
  BY DEF Types, Books, Syncer, Primary
<1>2. ASSUME UNCHANGED <<now, used, sync>>
      PROVE  sync' \in [Syncer -> SyncState] /\ \A s \in Syncer : Syncing(sync[s])'
  BY <1>1, <1>2 DEF Syncing, Answered, Stamped, Listed, CurrentCycle
<1>3. ASSUME NEW s \in Syncer, Ends(s), UNCHANGED <<now, used>>
      PROVE  sync' \in [Syncer -> SyncState] /\ \A r \in Syncer : Syncing(sync[r])'
  BY <1>3, IdleFits, SyncMoved DEF Ends
<1>4. CASE TickLists
  <2>1. PICK r \in Primary : sync' = [sync EXCEPT ![Tick] = [Idle EXCEPT !.at = "listed", !.row = r]]
    BY <1>4 DEF TickLists
  <2> DEFINE v == [Idle EXCEPT !.at = "listed", !.row = r]
  <2>2. v \in SyncState /\ Syncing(v)
    BY <1>1, IdleFits DEF SyncState, Syncing, Answered, Stamped, Idle
  <2> HIDE DEF v
  <2> QED BY <1>1, <1>4, <2>1, <2>2, SyncMoved DEF TickLists, world, v
<1>5. CASE Reschedules
  BY <1>1, <1>3, <1>5 DEF Reschedules, world
<1>6. CASE Pass
  <2>1. now' = now + 1 /\ now' \in Instant /\ sync' = sync /\ \A e \in used' : e \in used \/ e = now + 1
    BY <1>1, <1>6 DEF Pass, Instant
  <2>2. used \subseteq used'
    BY <1>6 DEF Pass
  <2>3. CurrentCycle <= CurrentCycle'
    BY <1>1, <2>1, Calendar DEF CurrentCycle, Instant
  <2>0. sync' \in [Syncer -> SyncState]
    BY <1>1, <2>1
  <2> SUFFICES ASSUME NEW s \in Syncer PROVE Syncing(sync[s])'
    BY <2>0
  <2>4. sync[s].view <= CurrentCycle' /\ sync[s].asked <= now' /\ sync[s].stamp <= now' /\ sync[s].events \subseteq used'
    <3>1. now \in Nat /\ now' \in Nat /\ CurrentCycle \in Nat /\ CurrentCycle' \in Nat
      BY <1>1, <2>1, Calendar DEF CurrentCycle
    <3>2. sync[s] \in SyncState
      BY <1>1
    <3>3. sync[s].view \in Nat /\ sync[s].asked \in Nat /\ sync[s].stamp \in Nat
      <4>1. sync[s].view \in Cycle \cup {0} /\ sync[s].asked \in Instant \cup {0} /\ sync[s].stamp \in Instant \cup {0}
        BY <3>2 DEF SyncState, None
      <4>2. \A c \in Cycle : c \in Nat
        BY Calendar
      <4>3. \A i \in Instant : i \in Nat
        BY Calendar
      <4> QED BY <4>1, <4>2, <4>3
    <3>4. sync[s].view <= CurrentCycle /\ sync[s].asked <= now /\ sync[s].stamp <= now /\ sync[s].events \subseteq used
      BY <1>1 DEF Syncing
    <3> QED BY <2>1, <2>2, <2>3, <3>1, <3>3, <3>4
  <2>5. ASSUME sync[s].at = "fetched"
        PROVE  Listed(sync[s].asked, sync[s].stamp)' = Listed(sync[s].asked, sync[s].stamp)
    <3>1. sync[s].stamp \in Instant /\ sync[s].stamp <= now
      BY <1>1, <2>5 DEF Syncing, Stamped
    <3>2. \A e \in used' : e <= sync[s].stamp => e \in used
      BY SMTT(30), <1>1, <2>1, <3>1 DEF Instant
    <3> QED BY <2>1, <2>2, <3>2 DEF Listed
  <2>6. Answered(sync[s]) /\ Stamped(sync[s]) /\ (sync[s].at = "fetched" => sync[s].events = Listed(sync[s].asked, sync[s].stamp))
    BY <1>1 DEF Syncing
  <2>7. sync'[s] = sync[s]
    BY <2>1
  <2> QED BY <2>4, <2>5, <2>6, <2>7 DEF Syncing, Answered, Stamped
<1>7. ASSUME NEW h \in Handler, Unbinds(h)
      PROVE  sync' \in [Syncer -> SyncState] /\ \A s \in Syncer : Syncing(sync[s])'
  BY <1>1, <1>3, <1>7 DEF Unbinds
<1>8. ASSUME NEW s \in Syncer, Starts(s)
      PROVE  sync' \in [Syncer -> SyncState] /\ \A r \in Syncer : Syncing(sync[r])'
  <2>1. CASE Primary = {}
    BY <1>3, <1>8, <2>1 DEF Starts, world
  <2>2. CASE Primary # {}
    <3> DEFINE v == [sync[s] EXCEPT !.at = "started", !.view = IF s = Tick THEN resetsOn ELSE sync[s].view]
    <3>1. v \in SyncState /\ Syncing(v)
      BY ZenonT(40), <1>1 DEF SyncState, Syncing, Answered, Stamped
    <3>2. sync' = [sync EXCEPT ![s] = v]
      BY <1>1, <1>8, <2>2 DEF Starts
    <3> HIDE DEF v
    <3> QED BY <1>8, <3>1, <3>2, SyncMoved DEF Starts, world
  <2> QED BY <2>1, <2>2
<1>9. ASSUME NEW s \in Syncer, Asks(s) \/ Stamps(s) \/ Lists(s)
      PROVE  sync' \in [Syncer -> SyncState] /\ \A r \in Syncer : Syncing(sync[r])'
  <2>1. ASSUME Asks(s)
        PROVE  sync' \in [Syncer -> SyncState] /\ \A r \in Syncer : Syncing(sync[r])'
    <3> DEFINE v == [sync[s] EXCEPT !.at = "asked", !.asked = now]
    <3>1. sync[s] \in SyncState /\ Syncing(sync[s])
      BY <1>1
    <3>2. v \in SyncState
      BY ZenonT(40), <1>1, <3>1 DEF SyncState
    <3>3. /\ v.at = "asked" /\ v.asked = now /\ v.view = sync[s].view
          /\ v.stamp = sync[s].stamp /\ v.events = sync[s].events
      BY <3>1 DEF SyncState
    <3>4. sync' = [sync EXCEPT ![s] = v]
      BY <1>1, <2>1 DEF Asks
    <3> HIDE DEF v
    <3>5. Syncing(v)
      BY <1>1, <3>1, <3>3, Calendar DEF Syncing, Answered, Stamped, CurrentCycle
    <3> QED BY <2>1, <3>2, <3>4, <3>5, SyncMoved DEF Asks, world
  <2>2. ASSUME Stamps(s)
        PROVE  sync' \in [Syncer -> SyncState] /\ \A r \in Syncer : Syncing(sync[r])'
    <3> DEFINE v == [sync[s] EXCEPT !.at = "stamped", !.stamp = now]
    <3>1. sync[s] \in SyncState /\ Syncing(sync[s]) /\ sync[s].at = "asked"
      BY <1>1, <2>2 DEF Stamps, At
    <3>2. v \in SyncState
      BY ZenonT(40), <1>1, <3>1 DEF SyncState
    <3>3. /\ v.at = "stamped" /\ v.stamp = now /\ v.view = sync[s].view
          /\ v.asked = sync[s].asked /\ v.events = sync[s].events
      BY <3>1 DEF SyncState
    <3>4. sync' = [sync EXCEPT ![s] = v]
      BY <1>1, <2>2 DEF Stamps
    <3> HIDE DEF v
    <3>5. Syncing(v)
      BY <1>1, <3>1, <3>3, Calendar DEF Syncing, Answered, Stamped
    <3> QED BY <2>2, <3>2, <3>4, <3>5, SyncMoved DEF Stamps, world
  <2>3. ASSUME Lists(s)
        PROVE  sync' \in [Syncer -> SyncState] /\ \A r \in Syncer : Syncing(sync[r])'
    <3> DEFINE E == Listed(sync[s].asked, sync[s].stamp)
               v == [sync[s] EXCEPT !.at = "fetched", !.events = E]
    <3>1. sync[s] \in SyncState /\ Syncing(sync[s]) /\ sync[s].at = "stamped"
      BY <1>1, <2>3 DEF Lists, At
    <3>2. E \subseteq used /\ E \in SUBSET Instant
      BY UsedSoFar DEF Listed
    <3>3. sync' = [sync EXCEPT ![s] = v]
      BY <1>1, <2>3 DEF Lists, Listed, CycleAsked
    <3> HIDE DEF E
    <3>4. v \in SyncState
      BY ZenonT(40), <1>1, <3>1, <3>2 DEF SyncState
    <3>5. /\ v.at = "fetched" /\ v.stamp = sync[s].stamp /\ v.view = sync[s].view
          /\ v.asked = sync[s].asked /\ v.events = E
      BY <3>1 DEF SyncState
    <3> HIDE DEF v
    <3>6. Syncing(v)
      BY <1>1, <3>1, <3>2, <3>5 DEF Syncing, Answered, Stamped, E
    <3> QED BY <2>3, <3>3, <3>4, <3>6, SyncMoved DEF Lists, world
  <2> QED BY <1>9, <2>1, <2>2, <2>3
<1>10. ASSUME NEW s \in Syncer, Stores(s)
       PROVE  sync' \in [Syncer -> SyncState] /\ \A r \in Syncer : Syncing(sync[r])'
  <2>1. CASE Ends(s)
    BY <1>3, <1>10, <2>1 DEF Stores, world
  <2>2. CASE sync' = [sync EXCEPT ![s] = [Idle EXCEPT !.at = "stored", !.row = sync[s].row]]
    <3> DEFINE v == [Idle EXCEPT !.at = "stored", !.row = sync[s].row]
    <3>1. v \in SyncState /\ Syncing(v)
      <4>1. sync[s].row \in Row \cup {None}
        BY <1>1 DEF SyncState
      <4> QED BY <4>1, IdleFits DEF SyncState, Syncing, Answered, Stamped, Idle
    <3>2. sync' = [sync EXCEPT ![s] = v]
      BY <2>2
    <3> HIDE DEF v
    <3> QED BY <1>10, <3>1, <3>2, SyncMoved DEF Stores, world
  <2> QED BY <1>10, <2>1, <2>2 DEF Stores
<1>11. ASSUME NEW s \in Syncer, Fails(s)
       PROVE  sync' \in [Syncer -> SyncState] /\ \A r \in Syncer : Syncing(sync[r])'
  BY <1>3, <1>11 DEF Fails
<1>12. ASSUME NEW h \in Handler, Triggers(h)
       PROVE  sync' \in [Syncer -> SyncState] /\ \A r \in Syncer : Syncing(sync[r])'
  <2> DEFINE v == [sync[h] EXCEPT !.at = "listed", !.view = resetsOn]
  <2>1. v \in SyncState /\ Syncing(v)
    BY <1>1, Again
  <2>2. sync' = [sync EXCEPT ![h] = v]
    BY <1>1, <1>12 DEF Triggers
  <2> HIDE DEF v
  <2> QED BY <1>1, <1>12, <2>1, <2>2, SyncMoved DEF Triggers
<1>13. ASSUME NEW h \in Handler, BindReads(h)
       PROVE  sync' \in [Syncer -> SyncState] /\ \A r \in Syncer : Syncing(sync[r])'
  <2>1. PICK r \in Row \cup {None} : sync' = [sync EXCEPT ![h] = [Idle EXCEPT !.at = "binding", !.row = r]]
    BY <1>1, <1>13 DEF BindReads
  <2> DEFINE v == [Idle EXCEPT !.at = "binding", !.row = r]
  <2>2. v \in SyncState /\ Syncing(v)
    BY IdleFits DEF SyncState, Syncing, Answered, Stamped, Idle
  <2> HIDE DEF v
  <2> QED BY <1>1, <1>13, <2>1, <2>2, SyncMoved DEF BindReads, v
<1>14. ASSUME NEW h \in Handler, BindWrites(h)
       PROVE  sync' \in [Syncer -> SyncState] /\ \A r \in Syncer : Syncing(sync[r])'
  <2> DEFINE u == [sync[h] EXCEPT !.row = None]
             v == [u EXCEPT !.at = "listed", !.view = resetsOn]
  <2>0. u \in SyncState /\ Syncing(u)
    BY <1>1 DEF SyncState, Syncing, Answered, Stamped
  <2>1. v \in SyncState /\ Syncing(v)
    BY <1>1, <2>0, Again
  <2>2. sync' = [sync EXCEPT ![h] = v]
    BY <1>1, <1>14 DEF BindWrites
  <2> HIDE DEF v
  <2> QED BY <1>1, <1>14, <2>1, <2>2, SyncMoved DEF BindWrites
<1>15. ASSUME NEW r \in Row, ComesDue(r)
       PROVE  sync' \in [Syncer -> SyncState] /\ \A s \in Syncer : Syncing(sync[s])'
  BY <1>2, <1>15 DEF ComesDue, world
<1>17. ASSUME NEW h \in Handler, UnbindReads(h)
       PROVE  sync' \in [Syncer -> SyncState] /\ \A r \in Syncer : Syncing(sync[r])'
  <2>1. PICK r \in Row : sync' = [sync EXCEPT ![h] = [Idle EXCEPT !.at = "unbinding", !.row = r]]
    BY <1>1, <1>17 DEF UnbindReads
  <2> DEFINE v == [Idle EXCEPT !.at = "unbinding", !.row = r]
  <2>2. v \in SyncState /\ Syncing(v)
    BY IdleFits DEF SyncState, Syncing, Answered, Stamped, Idle
  <2> HIDE DEF v
  <2> QED BY <1>1, <1>17, <2>1, <2>2, SyncMoved DEF UnbindReads, v
<1>16. CASE UNCHANGED syncVars
  BY <1>2, <1>16 DEF syncVars
<1> QED BY <1>4, <1>5, <1>6, <1>7, <1>8, <1>9, <1>10, <1>11, <1>12, <1>13, <1>14, <1>15, <1>16, <1>17
        DEF SyncNext, SyncStep

\* What the commit of a sync makes of the books.
LEMMA Stored ==
  ASSUME Types, NEW s \in Syncer, Stores(s)
  PROVE  LET E == sync[s].events
             a == sync[s].asked
             t == sync[s].stamp
         IN /\ E \subseteq used /\ E = Listed(a, t) /\ {a, t, now} \subseteq Instant /\ a <= t /\ t <= now
            /\ records' \in [Period -> {<<>>} \cup {<<F>> : F \in SUBSET Instant}]
            /\ \A p \in Period : Recorded(p)' = IF OfPeriod(E, p) = {} THEN Recorded(p) ELSE OfPeriod(E, p)
            /\ \A p \in Period :
                 summaries'[p] = IF records'[p] = <<>> THEN summaries[p] ELSE Recorded(p)'
            /\ summaries' = [p \in Period |-> summaries'[p]]
            /\ daily' \in [Instant -> {0, 1}]
            /\ \A e \in Instant : daily'[e] =
                 IF \E i \in E : DayOf[e] = DayOf[i]
                 THEN IF e \in Recorded(PeriodOf[e])' THEN 1 ELSE 0
                 ELSE daily[e]
            /\ quota' = quota \/ (t >= quota.at /\ quota' = [at |-> t, from |-> a])
            /\ resetsOn' = resetsOn \/ (sync[s].view # CycleOf[a] /\ resetsOn' = CycleOf[a])
<1> DEFINE E == sync[s].events
           a == sync[s].asked
           t == sync[s].stamp
           rows == RecordsAfter(E)
           One == {<<>>} \cup {<<F>> : F \in SUBSET Instant}
<1>1. /\ E \subseteq used /\ E = Listed(a, t) /\ {a, t, now} \subseteq Instant /\ a <= t /\ t <= now
  BY DEF Types, Syncing, Answered, Stamped, Stores, At
<1>2. E \in SUBSET Instant
  BY DEF Types, SyncState
<1>3. /\ records' = rows /\ daily' = DailyAfter(E, rows)
      /\ summaries' = [p \in Period |-> IF rows[p] = <<>> THEN summaries[p] ELSE rows[p][Len(rows[p])]]
  BY DEF Stores
<1>4. \A p \in Period : OfPeriod(E, p) \in SUBSET Instant
  BY <1>2 DEF OfPeriod
<1>5. /\ records \in [Period -> One] /\ rows = [p \in Period |-> IF OfPeriod(E, p) = {} THEN records[p] ELSE <<OfPeriod(E, p)>>]
  BY DEF Types, RecordsAfter, Replaced
<1>6. rows \in [Period -> One]
  BY <1>4, <1>5
<1>7. \A p \in Period : Recorded(p)' = IF rows[p] = <<>> THEN {} ELSE rows[p][1]
  BY <1>3 DEF Recorded
<1>8. \A p \in Period : Recorded(p)' = IF OfPeriod(E, p) = {} THEN Recorded(p) ELSE OfPeriod(E, p)
  <2> SUFFICES ASSUME NEW p \in Period PROVE Recorded(p)' = IF OfPeriod(E, p) = {} THEN Recorded(p) ELSE OfPeriod(E, p)
    OBVIOUS
  <2>1. CASE OfPeriod(E, p) = {}
    <3>1. rows[p] = records[p]
      BY <1>5, <2>1
    <3> QED BY <1>7, <2>1, <3>1 DEF Recorded
  <2>2. CASE OfPeriod(E, p) # {}
    <3>1. rows[p] = <<OfPeriod(E, p)>>
      BY <1>5, <2>2
    <3>2. rows[p] # <<>> /\ rows[p][1] = OfPeriod(E, p)
      BY <3>1, Single
    <3> QED BY <1>7, <2>2, <3>2
  <2> QED BY <2>1, <2>2
<1>9. \A p \in Period : summaries'[p] = IF records'[p] = <<>> THEN summaries[p] ELSE Recorded(p)'
  <2> SUFFICES ASSUME NEW p \in Period PROVE summaries'[p] = IF records'[p] = <<>> THEN summaries[p] ELSE Recorded(p)'
    OBVIOUS
  <2>1. summaries'[p] = IF rows[p] = <<>> THEN summaries[p] ELSE rows[p][Len(rows[p])]
    BY <1>3
  <2>2. rows[p] = <<>> \/ Len(rows[p]) = 1
    <3>1. rows[p] \in One
      BY <1>6
    <3> QED BY <3>1, Single
  <2> HIDE DEF rows
  <2> QED BY <1>3, <1>7, <2>1, <2>2
<1>10. \A e \in Instant : daily'[e] =
         IF \E i \in E : DayOf[e] = DayOf[i] THEN IF e \in Recorded(PeriodOf[e])' THEN 1 ELSE 0 ELSE daily[e]
  <2> SUFFICES ASSUME NEW e \in Instant
               PROVE  daily'[e] = IF \E i \in E : DayOf[e] = DayOf[i]
                                  THEN IF e \in Recorded(PeriodOf[e])' THEN 1 ELSE 0 ELSE daily[e]
    OBVIOUS
  <2>1. daily'[e] = IF \E i \in E : DayOf[e] = DayOf[i] THEN CountIn(rows, e) ELSE daily[e]
    BY <1>3 DEF DailyAfter
  <2>2. CountIn(rows, e) = IF rows[PeriodOf[e]] # <<>> /\ e \in rows[PeriodOf[e]][1] THEN 1 ELSE 0
    BY <1>6, Counted
  <2>3. PeriodOf[e] \in Period
    BY Calendar
  <2>4. e \in Recorded(PeriodOf[e])' <=> rows[PeriodOf[e]] # <<>> /\ e \in rows[PeriodOf[e]][1]
    BY <1>7, <2>3
  <2> HIDE DEF rows
  <2> QED BY <2>1, <2>2, <2>4
<1>11. daily' \in [Instant -> {0, 1}]
  <2>1. daily' = [e \in Instant |-> IF DayOf[e] \in {DayOf[i] : i \in E} THEN CountIn(rows, e) ELSE daily[e]]
    BY <1>3 DEF DailyAfter
  <2>2. \A e \in Instant : daily'[e] \in {0, 1}
    BY <1>10 DEF Types
  <2> HIDE DEF rows, E
  <2> QED BY <2>1, <2>2
<1>12. summaries' = [p \in Period |-> summaries'[p]]
  <2> HIDE DEF rows
  <2> QED BY <1>3
<1>13. /\ quota' = quota \/ (t >= quota.at /\ quota' = [at |-> t, from |-> a])
       /\ resetsOn' = resetsOn \/ (sync[s].view # CycleOf[a] /\ resetsOn' = CycleOf[a])
  BY DEF Stores, QuotaAfter, ResetAfter, CycleAsked
<1> QED BY <1>1, <1>3, <1>6, <1>8, <1>9, <1>10, <1>11, <1>12, <1>13

\* The commit of a sync keeps the books in agreement, however old its answer is.
LEMMA StoredFits ==
  ASSUME Types, Books, NEW s \in Syncer, Stores(s)
  PROVE  /\ Books' /\ records' \in [Period -> {<<>>} \cup {<<F>> : F \in SUBSET Instant}]
         /\ daily' \in [Instant -> {0, 1}] /\ summaries' \in [Period -> SUBSET used]
         /\ quota' \in [at : 0..now, from : 0..now] /\ resetsOn' \in Cycle \cup {None}
<1> DEFINE E == sync[s].events
           a == sync[s].asked
           t == sync[s].stamp
<1>1. /\ E \subseteq used /\ {a, t, now} \subseteq Instant /\ a <= t /\ t <= now
      /\ \A p \in Period : Recorded(p)' = IF OfPeriod(E, p) = {} THEN Recorded(p) ELSE OfPeriod(E, p)
      /\ \A p \in Period : summaries'[p] = IF records'[p] = <<>> THEN summaries[p] ELSE Recorded(p)'
      /\ summaries' = [p \in Period |-> summaries'[p]]
      /\ \A e \in Instant : daily'[e] =
           IF \E i \in E : DayOf[e] = DayOf[i] THEN IF e \in Recorded(PeriodOf[e])' THEN 1 ELSE 0 ELSE daily[e]
      /\ quota' = quota \/ (t >= quota.at /\ quota' = [at |-> t, from |-> a])
      /\ resetsOn' = resetsOn \/ (sync[s].view # CycleOf[a] /\ resetsOn' = CycleOf[a])
  BY Stored
<1>2. /\ records' \in [Period -> {<<>>} \cup {<<F>> : F \in SUBSET Instant}] /\ daily' \in [Instant -> {0, 1}]
  BY Stored
<1>3. /\ \A p \in Period : Recorded(p) \subseteq OfPeriod(used, p) /\ summaries[p] = Recorded(p)
      /\ \A e \in Instant : /\ e \in Recorded(PeriodOf[e]) => daily[e] = 1
                            /\ daily[e] = 1 => e \in used
      /\ quota.from <= quota.at /\ resetsOn <= CurrentCycle
  BY DEF Books
<1>4. /\ quota \in [at : 0..now, from : 0..now] /\ resetsOn \in Cycle \cup {None}
      /\ now' = now /\ used' = used /\ CurrentCycle' = CurrentCycle
  BY DEF Types, Stores, world, CurrentCycle
<1>5. a \in Nat /\ t \in Nat /\ now \in Nat /\ quota.at \in Nat /\ a \in 0..now /\ t \in 0..now
      /\ CycleOf[a] \in Cycle /\ CycleOf[a] \in Nat /\ CycleOf[a] <= CurrentCycle
  <2>1. a \in Nat /\ t \in Nat /\ now \in Nat /\ a <= t /\ t <= now /\ a \in Instant /\ now \in Instant
    BY <1>1, Calendar
  <2>2. a \in 0..now /\ t \in 0..now
    BY <2>1
  <2>3. CycleOf[a] \in Cycle /\ CycleOf[a] \in Nat /\ CycleOf[a] <= CycleOf[now]
    BY <2>1, Calendar
  <2>4. quota.at \in Nat
    BY <1>4, <2>1
  <2> QED BY <2>1, <2>2, <2>3, <2>4 DEF CurrentCycle
<1>6. \A p \in Period : OfPeriod(E, p) \subseteq OfPeriod(used, p)
  BY <1>1 DEF OfPeriod
<1> HIDE DEF E, a, t
<1>7. \A p \in Period : Recorded(p)' \subseteq OfPeriod(used, p)
  BY <1>1, <1>3, <1>6
<1>8. \A p \in Period : summaries'[p] = Recorded(p)'
  <2> SUFFICES ASSUME NEW p \in Period, records'[p] = <<>> PROVE summaries[p] = Recorded(p)'
    BY <1>1
  <2>1. Recorded(p)' = {}
    BY DEF Recorded
  <2> QED BY ZenonT(40), <1>1, <1>3, <2>1
<1>9. quota' \in [at : 0..now, from : 0..now] /\ quota'.from <= quota'.at
  <2>1. CASE quota' = quota
    BY <1>3, <1>4, <2>1
  <2>2. CASE quota' = [at |-> t, from |-> a]
    BY <1>1, <1>5, <2>2
  <2> QED BY <1>1, <2>1, <2>2
<1>10. \A e \in E : e \in Instant /\ e \in used
  BY <1>1, UsedSoFar
<1>11. ASSUME NEW e \in Instant
       PROVE  /\ e \in Recorded(PeriodOf[e])' => daily'[e] = 1
              /\ daily'[e] = 1 => e \in used
  <2> DEFINE p == PeriodOf[e]
  <2>1. p \in Period /\ e \in Nat
    BY Calendar
  <2>2. e \in Recorded(p)' => e \in E \/ (OfPeriod(E, p) = {} /\ e \in Recorded(p))
    <3>1. Recorded(p)' = IF OfPeriod(E, p) = {} THEN Recorded(p) ELSE OfPeriod(E, p)
      BY <1>1, <2>1
    <3>2. OfPeriod(E, p) \subseteq E
      BY DEF OfPeriod
    <3> QED BY <3>1, <3>2
  <2>3. e \in E => \E i \in E : DayOf[e] = DayOf[i]
    OBVIOUS
  <2>4. e \in Recorded(p) => daily[e] = 1
    BY <1>3
  <2>5. e \in E => e \in used
    BY <1>10
  <2>6. daily[e] = 1 => e \in used
    BY <1>3
  <2> HIDE DEF p
  <2>7. daily'[e] = IF \E i \in E : DayOf[e] = DayOf[i] THEN IF e \in Recorded(p)' THEN 1 ELSE 0 ELSE daily[e]
    BY <1>1 DEF p
  <2>8. e \in Recorded(p)' => daily'[e] = 1
    BY <2>2, <2>3, <2>4, <2>7
  <2>9. daily'[e] = 1 => e \in used
    BY <2>2, <2>4, <2>5, <2>6, <2>7
  <2> QED BY <2>8, <2>9 DEF p
<1>13. resetsOn' <= CurrentCycle /\ resetsOn' \in Cycle \cup {None}
  BY <1>1, <1>3, <1>4, <1>5
<1>15. summaries' \in [Period -> SUBSET used]
  <2>1. \A p \in Period : summaries'[p] \in SUBSET used
    BY <1>7, <1>8 DEF OfPeriod
  <2> QED BY <1>1, <2>1
<1>16. Books'
  BY <1>4, <1>7, <1>8, <1>9, <1>11, <1>13 DEF Books
<1> QED BY <1>2, <1>9, <1>13, <1>15, <1>16

\* Every step but the commit of a sync leaves the books alone.
LEMMA OnlyStores ==
  ASSUME [SyncNext]_syncVars PROVE UNCHANGED books \/ \E s \in Syncer : Stores(s)
<1>1. ASSUME NEW s \in Syncer, SyncStep(s) \/ Fails(s) PROVE UNCHANGED books \/ Stores(s)
  BY <1>1 DEF SyncStep, Starts, Asks, Stamps, Lists, Fails, world
<1>2. ASSUME NEW h \in Handler, Triggers(h) \/ BindReads(h) \/ BindWrites(h) \/ UnbindReads(h) \/ Unbinds(h)
      PROVE  UNCHANGED books
  BY <1>2 DEF Triggers, BindReads, BindWrites, UnbindReads, Unbinds
<1>3. CASE TickLists \/ Reschedules \/ Pass \/ \E r \in Row : ComesDue(r)
  BY <1>3 DEF TickLists, Reschedules, Pass, ComesDue
<1>4. CASE UNCHANGED syncVars
  BY <1>4 DEF syncVars, books
<1> QED BY <1>1, <1>2, <1>3, <1>4 DEF SyncNext

\* Time, usage and the counts of the model stay within their types.
LEMMA Surroundings ==
  ASSUME Types, [SyncNext]_syncVars
  PROVE  /\ now' \in Instant /\ used' \subseteq 1..now' /\ used \subseteq used' /\ now <= now'
         /\ CurrentCycle <= CurrentCycle' /\ CurrentCycle \in Nat /\ CurrentCycle' \in Nat
         /\ creds' \in [Row -> [status : {"none", "active", "revoked"}, due : BOOLEAN]]
         /\ wanted' \in BOOLEAN /\ crossed' \in BOOLEAN /\ requests' \in 0..MaxRequests /\ faults' \in 0..MaxFaults
<1> DEFINE Clock == /\ now' \in Instant /\ used' \subseteq 1..now' /\ used \subseteq used' /\ now <= now'
           Count == requests' \in 0..MaxRequests /\ faults' \in 0..MaxFaults
           Rows == creds' \in [Row -> [status : {"none", "active", "revoked"}, due : BOOLEAN]]
           Keyed == wanted' \in BOOLEAN /\ crossed' \in BOOLEAN
           Goal == Clock /\ Count /\ Rows /\ Keyed
<1>1. /\ now \in Instant /\ used \subseteq 1..now /\ wanted \in BOOLEAN /\ crossed \in BOOLEAN
      /\ requests \in 0..MaxRequests /\ faults \in 0..MaxFaults /\ MaxRequests \in Nat /\ MaxFaults \in Nat
      /\ now \in Nat /\ now <= Horizon /\ Horizon \in Nat
      /\ creds \in [Row -> [status : {"none", "active", "revoked"}, due : BOOLEAN]]
  BY UsedSoFar DEF Types
<1>2. /\ UNCHANGED <<now, used>> => Clock
      /\ UNCHANGED <<requests, faults>> => Count
      /\ UNCHANGED creds => Rows
  <2>1. UNCHANGED <<now, used>> => Clock
    BY <1>1
  <2>2. UNCHANGED <<requests, faults>> => Count
    BY <1>1
  <2>3. UNCHANGED creds => Rows
    BY <1>1
  <2> QED BY <2>1, <2>2, <2>3
<1>0. UNCHANGED <<wanted, crossed>> => Keyed
  BY <1>1, Zenon
<1>3. ASSUME Pass PROVE Goal
  <2>1. now' = now + 1 /\ used' \subseteq used \cup {now + 1} /\ used \subseteq used' /\ now < Horizon
    BY <1>3 DEF Pass
  <2>2. now' \in Instant /\ now <= now'
    BY <1>1, <2>1 DEF Instant
  <2>3. \A e \in used : e \in Nat /\ 1 <= e /\ e <= now
    BY UsedSoFar
  <2>4. \A e \in used' : e \in Nat /\ 1 <= e /\ e <= now + 1
    BY <1>1, <2>1, <2>3
  <2>5. used' \subseteq 1..now'
    BY <1>1, <2>1, <2>4
  <2>6. Clock
    BY <2>1, <2>2, <2>5
  <2> HIDE DEF Clock, Count, Rows, Keyed
  <2> QED BY <1>0, <1>2, <1>3, <2>6 DEF Pass
<1>4. ASSUME TickLists PROVE Goal
  <2> HIDE DEF Clock, Count, Rows, Keyed
  <2> QED BY <1>0, <1>2, <1>4 DEF TickLists, world
<1>5. ASSUME Reschedules PROVE Goal
  <2>1. Rows
    BY <1>1, <1>5 DEF Reschedules
  <2> HIDE DEF Clock, Count, Rows, Keyed
  <2> QED BY <1>0, <1>2, <1>5, <2>1 DEF Reschedules, world
<1>6. ASSUME NEW h \in Handler, Unbinds(h) PROVE Goal
  <2>1. Rows
    BY ZenonT(40), <1>1, <1>6 DEF Unbinds
  <2>2. wanted' = FALSE /\ crossed' = (crossed \/ Primary \ {sync[h].row} # {})
    BY <1>6 DEF Unbinds
  <2>3. Keyed
    BY <1>1, <2>2, Zenon
  <2> HIDE DEF Clock, Count, Rows, Keyed
  <2> QED BY <1>2, <1>6, <2>1, <2>3 DEF Unbinds
<1>7. ASSUME NEW s \in Syncer, SyncStep(s) PROVE Goal
  <2> HIDE DEF Clock, Count, Rows, Keyed
  <2> QED BY <1>0, <1>2, <1>7 DEF SyncStep, Starts, Asks, Stamps, Lists, Stores, world
<1>8. ASSUME NEW s \in Syncer, Fails(s) PROVE Goal
  <2>1. Count
    BY <1>1, <1>8 DEF Fails
  <2> HIDE DEF Clock, Count, Rows, Keyed
  <2> QED BY <1>0, <1>2, <1>8, <2>1 DEF Fails
<1>9. ASSUME NEW h \in Handler, Triggers(h) \/ BindReads(h) \/ UnbindReads(h) PROVE Goal
  <2>0. requests < MaxRequests /\ requests' = requests + 1 /\ faults' = faults
    BY <1>9 DEF Triggers, BindReads, UnbindReads
  <2>1. Count
    BY <1>1, <2>0
  <2> HIDE DEF Clock, Count, Rows, Keyed
  <2> QED BY <1>0, <1>2, <1>9, <2>1 DEF Triggers, BindReads, UnbindReads
<1>10. ASSUME NEW h \in Handler, BindWrites(h) PROVE Goal
  <2>1. Rows
    <3>1. \/ creds' = [creds EXCEPT ![sync[h].row].due = FALSE]
          \/ \E r \in Row : creds' = [creds EXCEPT ![r] = [status |-> "active", due |-> FALSE]]
      BY <1>10 DEF BindWrites
    <3>2. CASE creds' = [creds EXCEPT ![sync[h].row].due = FALSE]
      BY <1>1, <3>2
    <3>3. CASE \E r \in Row : creds' = [creds EXCEPT ![r] = [status |-> "active", due |-> FALSE]]
      BY <1>1, <3>3
    <3> QED BY <3>1, <3>2, <3>3
  <2>2. wanted' = TRUE /\ (crossed' = crossed \/ crossed' = (crossed \/ Primary # {}))
    BY <1>10 DEF BindWrites
  <2>3. Keyed
    BY <1>1, <2>2, Zenon
  <2> HIDE DEF Clock, Count, Rows, Keyed
  <2> QED BY <1>2, <1>10, <2>1, <2>3 DEF BindWrites
<1>11. ASSUME NEW r \in Row, ComesDue(r) PROVE Goal
  <2>1. Rows
    BY <1>1, <1>11 DEF ComesDue
  <2> HIDE DEF Clock, Count, Rows, Keyed
  <2> QED BY <1>0, <1>2, <1>11, <2>1 DEF ComesDue, world
<1>12. ASSUME UNCHANGED syncVars PROVE Goal
  <2> HIDE DEF Clock, Count, Rows, Keyed
  <2> QED BY <1>0, <1>2, <1>12 DEF syncVars
<1>13. Goal
  BY <1>3, <1>4, <1>5, <1>6, <1>7, <1>8, <1>9, <1>10, <1>11, <1>12 DEF SyncNext
<1>14. CurrentCycle <= CurrentCycle' /\ CurrentCycle \in Nat /\ CurrentCycle' \in Nat
  BY <1>1, <1>13, Calendar DEF CurrentCycle
<1> QED BY <1>13, <1>14

\* Every step keeps types and books.
LEMMA BooksStep == Types /\ Books /\ [SyncNext]_syncVars => Books' /\ Types'
<1> SUFFICES ASSUME Types, Books, [SyncNext]_syncVars PROVE Books' /\ Types'
  OBVIOUS
<1> DEFINE Written == /\ Books' /\ records' \in [Period -> {<<>>} \cup {<<F>> : F \in SUBSET Instant}]
                      /\ daily' \in [Instant -> {0, 1}] /\ summaries' \in [Period -> SUBSET used']
                      /\ quota' \in [at : 0..now', from : 0..now'] /\ resetsOn' \in Cycle \cup {None}
<1>1. /\ now' \in Instant /\ used' \subseteq 1..now' /\ used \subseteq used' /\ now <= now'
      /\ CurrentCycle <= CurrentCycle' /\ CurrentCycle \in Nat /\ CurrentCycle' \in Nat
      /\ creds' \in [Row -> [status : {"none", "active", "revoked"}, due : BOOLEAN]]
      /\ wanted' \in BOOLEAN /\ crossed' \in BOOLEAN /\ requests' \in 0..MaxRequests /\ faults' \in 0..MaxFaults
  BY Surroundings
<1>2. sync' \in [Syncer -> SyncState] /\ \A s \in Syncer : Syncing(sync[s])'
  BY SyncersStep
<1>3. ASSUME NEW s \in Syncer, Stores(s) PROVE Written
  BY <1>3, StoredFits DEF Stores, world
<1>4. ASSUME UNCHANGED books PROVE Written
  <2>1. /\ records' = records /\ daily' = daily /\ summaries' = summaries /\ quota' = quota /\ resetsOn' = resetsOn
    BY <1>4 DEF books
  <2>2. \A p \in Period : Recorded(p)' = Recorded(p)
    BY <2>1 DEF Recorded
  <2>3. \A p \in Period : OfPeriod(used, p) \subseteq OfPeriod(used', p)
    BY <1>1 DEF OfPeriod
  <2>4. resetsOn' <= CurrentCycle'
    <3>1. resetsOn <= CurrentCycle /\ resetsOn \in Cycle \cup {None}
      BY DEF Books, Types
    <3>2. resetsOn \in Nat
      BY <3>1, Calendar DEF None
    <3> QED BY <1>1, <2>1, <3>1, <3>2
  <2>5. /\ \A p \in Period : Recorded(p)' \subseteq OfPeriod(used', p) /\ summaries'[p] = Recorded(p)'
        /\ \A e \in Instant : /\ e \in Recorded(PeriodOf[e])' => daily'[e] = 1
                              /\ daily'[e] = 1 => e \in used'
        /\ quota'.from <= quota'.at
    <3>1. \A p \in Period : Recorded(p)' \subseteq OfPeriod(used', p) /\ summaries'[p] = Recorded(p)'
      BY <2>1, <2>2, <2>3 DEF Books
    <3>2. \A e \in Instant : /\ e \in Recorded(PeriodOf[e])' => daily'[e] = 1
                             /\ daily'[e] = 1 => e \in used'
      BY <1>1, <2>1, <2>2, Calendar DEF Books
    <3>3. quota'.from <= quota'.at
      BY <2>1 DEF Books
    <3> QED BY <3>1, <3>2, <3>3
  <2>6. Books'
    BY <2>4, <2>5 DEF Books
  <2>7. quota' \in [at : 0..now', from : 0..now']
    <3>1. quota \in [at : 0..now, from : 0..now] /\ now \in Nat /\ now' \in Nat
      BY <1>1, Calendar DEF Types
    <3>2. quota.at \in 0..now' /\ quota.from \in 0..now' /\ quota = [at |-> quota.at, from |-> quota.from]
      BY <1>1, <3>1
    <3> QED BY <2>1, <3>2
  <2>8. summaries' \in [Period -> SUBSET used']
    <3>1. summaries \in [Period -> SUBSET used]
      BY DEF Types
    <3> QED BY <1>1, <2>1, <3>1
  <2>9. /\ records' \in [Period -> {<<>>} \cup {<<F>> : F \in SUBSET Instant}] /\ daily' \in [Instant -> {0, 1}]
        /\ resetsOn' \in Cycle \cup {None}
    BY <2>1 DEF Types
  <2> QED BY <2>6, <2>7, <2>8, <2>9
<1>5. Written
  BY <1>3, <1>4, OnlyStores
<1> QED BY <1>1, <1>2, <1>5 DEF Types

\* The inductive invariant of a sync.
LEMMA BooksHold == SyncSpec => [](Types /\ Books /\ Keys)
<1>1. Types /\ Books /\ Keys /\ [SyncNext]_syncVars => (Types /\ Books /\ Keys)'
  BY BooksStep, KeysStep
<1> QED BY <1>1, InitHolds, PTL DEF SyncSpec

\* The invariant implies the type invariant the runs check.
LEMMA BooksTyped == Types /\ Books => SyncTypeOK
<1> SUFFICES ASSUME Types, Books PROVE SyncTypeOK
  OBVIOUS
<1>1. \A p \in Period : \A n \in DOMAIN records[p] : records[p][n] \subseteq OfPeriod(used, p)
  BY RecordedUnion DEF Books
<1>2. \A s \in Syncer : sync[s].events \subseteq used /\ sync[s].row \in Row \cup {None}
  BY DEF Types, SyncState, Syncing
<1>3. daily \in [Instant -> Nat]
  <2>1. daily \in [Instant -> {0, 1}]
    BY DEF Types
  <2> QED BY <2>1
<1> QED BY <1>1, <1>2, <1>3 DEF Types, SyncTypeOK

\* Type correctness of the syncs: what a syncer holds, records and figures show is real
\* usage, and no clock runs ahead.
THEOREM SyncTyped == SyncSpec => []SyncTypeOK
BY BooksHold, BooksTyped, PTL

\* However many syncs overlap, fail and end out of order (sync.py, daily.py), the day's
\* figures, the records and the summaries agree and count no event twice.
THEOREM FiguresHold == SyncSpec => []FiguresAgree
<1>1. Types /\ Books => FiguresAgree
  <2> SUFFICES ASSUME Types, Books PROVE FiguresAgree
    OBVIOUS
  <2>1. \A p \in Period : UNION {records[p][n] : n \in DOMAIN records[p]} = Recorded(p)
    BY RecordedUnion
  <2>2. \A p \in Period : summaries[p] = UNION {records[p][n] : n \in DOMAIN records[p]}
    BY <2>1 DEF Books
  <2>3. \A e \in Instant : daily[e] <= 1
    <3>1. daily \in [Instant -> {0, 1}]
      BY DEF Types
    <3> QED BY <3>1
  <2>4. \A e \in Instant : e \in UNION {records[PeriodOf[e]][n] : n \in DOMAIN records[PeriodOf[e]]} => daily[e] = 1
    BY <2>1, Calendar DEF Books
  <2> QED BY <2>2, <2>3, <2>4 DEF FiguresAgree
<1> QED BY <1>1, BooksHold, PTL

\* Once an unbinding is committed no sync begins (sync_account looks for the key again), unless
\* a bind had crossed with it or with another bind; syncs that had begun before may go on.
THEOREM NoneBeginsUnbound == SyncSpec => NoSyncBeginsUnbound
<1> DEFINE Quiet == \A s \in Syncer : At(s, "listed") /\ sync'[s].at = "started" => wanted \/ crossed
<1>1. ASSUME Types, Keys, [SyncNext]_syncVars PROVE Quiet
  <2> SUFFICES ASSUME NEW s \in Syncer, At(s, "listed"), sync'[s].at = "started", Primary = {} PROVE FALSE
    BY <1>1 DEF Keys
  <2>1. sync \in [Syncer -> SyncState] /\ sync[s].at = "listed" /\ Tick \in Syncer /\ Handler \subseteq Syncer
    BY <1>1 DEF Types, At, Syncer
  <2>2. ASSUME NEW r \in Syncer, Starts(r) PROVE FALSE
    BY <2>1, <2>2 DEF Starts, Ends, Idle
  <2>3. ASSUME NEW r \in Syncer, Asks(r) \/ Stamps(r) \/ Lists(r) \/ Stores(r) \/ Fails(r) PROVE FALSE
    <3>1. sync[r].at # "listed"
      BY <2>3 DEF Asks, Stamps, Lists, Stores, Fails, At
    <3>2. r # s
      BY <2>1, <3>1
    <3>3. \E v : sync' = [sync EXCEPT ![r] = v]
      BY <2>1, <2>3 DEF Asks, Stamps, Lists, Stores, Fails, Ends
    <3> QED BY <2>1, <3>2, <3>3
  <2>4. ASSUME NEW h \in Handler, Triggers(h) \/ BindReads(h) \/ BindWrites(h) \/ UnbindReads(h) \/ Unbinds(h) PROVE FALSE
    <3>1. sync[h].at # "listed"
      BY <2>4 DEF Triggers, BindReads, BindWrites, UnbindReads, Unbinds, Ends, At
    <3>2. h # s
      BY <2>1, <3>1
    <3>3. \E v : sync' = [sync EXCEPT ![h] = v]
      BY <2>1, <2>4 DEF Triggers, BindReads, BindWrites, UnbindReads, Unbinds, Ends
    <3> QED BY <2>1, <3>2, <3>3
  <2>5. CASE TickLists \/ Reschedules
    BY <2>1, <2>5 DEF TickLists, Reschedules, Ends, Idle
  <2>6. CASE Pass \/ (\E r \in Row : ComesDue(r)) \/ UNCHANGED syncVars
    BY <2>1, <2>6 DEF Pass, ComesDue, syncVars
  <2> QED BY <1>1, <2>2, <2>3, <2>4, <2>5, <2>6 DEF SyncNext, SyncStep
<1> QED BY <1>1, BooksHold, PTL DEF SyncSpec, NoSyncBeginsUnbound

\* A commit is made by a syncer with an answer, of the cycle its session began in or a
\* later one.
LEMMA Written ==
  ASSUME Types, NEW s \in Syncer, Stores(s)
  PROVE  /\ At(s, "fetched") /\ sync'[s].at # "fetched" /\ sync[s].view <= CycleAsked(s)
         /\ CycleAsked(s) \in Nat \ {0} /\ sync[s].view \in Nat
<1>1. sync \in [Syncer -> SyncState] /\ sync[s].at = "fetched" /\ Syncing(sync[s])
  BY DEF Types, Stores, At
<1>2. \E v : sync' = [sync EXCEPT ![s] = v] /\ v.at # "fetched"
  <2>1. CASE Ends(s)
    <3>1. Idle.at = "idle"
      BY DEF Idle
    <3> QED BY <2>1, <3>1 DEF Ends
  <2>2. CASE sync' = [sync EXCEPT ![s] = [Idle EXCEPT !.at = "stored", !.row = sync[s].row]]
    <3>1. [Idle EXCEPT !.at = "stored", !.row = sync[s].row].at = "stored"
      BY DEF Idle
    <3> QED BY <2>2, <3>1
  <2> QED BY <2>1, <2>2 DEF Stores
<1>3. sync[s].asked \in Instant /\ sync[s].view <= CycleAsked(s) /\ sync[s].view \in Cycle \cup {None}
  BY <1>1 DEF Syncing, Answered, SyncState, CycleAsked
<1>4. CycleAsked(s) \in Nat \ {0} /\ sync[s].view \in Nat
  <2>1. CycleAsked(s) \in Nat \ {0}
    BY <1>3, Calendar DEF CycleAsked
  <2>2. \A c \in Cycle \cup {None} : c \in Nat
    BY Calendar DEF None
  <2> QED BY <1>3, <2>1, <2>2
<1> QED BY <1>1, <1>2, <1>3, <1>4 DEF At

\* The newest snapshot gives way to one answered earlier only if its own answer came between
\* the other's answer and stamp (sync.py reads the clock after the call), and the reset date
\* goes back only for a sync that began without one, or that began, asked and ended in three
\* cycles (the write of usage_resets_on).
THEOREM QuotaGoesBackSeldom == SyncSpec => QuotaSeldomOlder
<1> DEFINE Newer == quota'.at >= quota.at
           Between == \E s \in Syncer : /\ At(s, "fetched") /\ sync'[s].at # "fetched"
                                        /\ sync[s].asked < quota.from /\ quota.from <= sync[s].stamp
           Excused == \E s \in Syncer : /\ At(s, "fetched")
                                        /\ \/ sync[s].view = None
                                           \/ sync[s].view < CycleAsked(s) /\ CycleAsked(s) < CurrentCycle
           Goal == Newer /\ (quota'.from < quota.from => Between) /\ (resetsOn' < resetsOn => Excused)
<1>1. ASSUME Types, Books, [SyncNext]_syncVars PROVE Goal
  <2>1. /\ quota \in [at : 0..now, from : 0..now] /\ now \in Instant /\ quota.from <= quota.at
        /\ resetsOn \in Cycle \cup {None} /\ resetsOn <= CurrentCycle
    BY <1>1 DEF Types, Books
  <2>2. /\ quota.at \in Nat /\ quota.from \in Nat /\ now \in Nat
        /\ resetsOn \in Nat /\ CurrentCycle \in Nat
    <3>1. now \in Nat
      BY <1>1, UsedSoFar
    <3>2. \A c \in Cycle \cup {None} : c \in Nat
      BY Calendar DEF None
    <3>3. quota.at \in 0..now /\ quota.from \in 0..now
      BY <2>1
    <3>4. CurrentCycle \in Nat
      BY <2>1, Calendar DEF CurrentCycle
    <3> QED BY <2>1, <3>1, <3>2, <3>3, <3>4
  <2>3. ASSUME UNCHANGED books PROVE Goal
    <3>1. quota' = quota /\ resetsOn' = resetsOn
      BY <2>3 DEF books
    <3> QED BY <2>2, <3>1
  <2>4. ASSUME NEW s \in Syncer, Stores(s) PROVE Goal
    <3> DEFINE a == sync[s].asked
               t == sync[s].stamp
    <3>1. /\ {a, t} \subseteq Instant
          /\ quota' = quota \/ (t >= quota.at /\ quota' = [at |-> t, from |-> a])
          /\ resetsOn' = resetsOn \/ (sync[s].view # CycleOf[a] /\ resetsOn' = CycleOf[a])
      BY <1>1, <2>4, Stored
    <3>2. CycleOf[a] = CycleAsked(s)
      BY DEF CycleAsked
    <3>3. /\ At(s, "fetched") /\ sync'[s].at # "fetched" /\ sync[s].view <= CycleAsked(s)
          /\ CycleAsked(s) \in Nat \ {0} /\ sync[s].view \in Nat
      BY <1>1, <2>4, Written
    <3>4. a \in Nat /\ t \in Nat
      BY <3>1, Calendar
    <3>5. Newer /\ (quota'.from < quota.from => Between)
      <4>1. CASE quota' = quota
        BY <2>2, <4>1
      <4>2. ASSUME t >= quota.at, quota' = [at |-> t, from |-> a]
            PROVE  Newer /\ (quota'.from < quota.from => Between)
        <5>1. quota'.at = t /\ quota'.from = a
          BY <4>2
        <5>2. quota.from <= t
          BY <2>1, <2>2, <3>4, <4>2
        <5> QED BY <3>3, <4>2, <5>1, <5>2
      <4> QED BY <3>1, <4>1, <4>2
    <3> HIDE DEF a, t
    <3>6. resetsOn' < resetsOn => Excused
      <4> SUFFICES ASSUME resetsOn' < resetsOn, sync[s].view # None PROVE Excused
        BY <3>3
      <4>1. resetsOn' = CycleAsked(s) /\ sync[s].view # CycleAsked(s)
        BY <2>2, <3>1, <3>2
      <4>2. sync[s].view < CycleAsked(s) /\ CycleAsked(s) < CurrentCycle
        BY <2>1, <2>2, <3>3, <4>1
      <4> QED BY <3>3, <4>2
    <3> QED BY <3>5, <3>6
  <2> QED BY <1>1, <2>3, <2>4, OnlyStores
<1> QED BY <1>1, BooksHold, PTL DEF SyncSpec, QuotaSeldomOlder

\* The day a billing cycle begins is not after any other day of it.
LEMMA FirstDayIsFirst ==
  ASSUME NEW a \in Instant, NEW i \in Instant, NEW e \in Instant,
         CycleOf[e] < CycleOf[a], CycleOf[a] <= CycleOf[i], DayOf[e] = DayOf[i]
  PROVE  DayOf[e] = FirstDay(CycleOf[a])
<1> DEFINE c == CycleOf[a]
           First(j) == CycleOf[j] = c /\ \A k \in 1..j - 1 : CycleOf[k] # c
           S == {j \in Instant : CycleOf[j] = c}
<1>1. S \subseteq Nat /\ a \in S
  BY Calendar
<1>2. PICK m \in S : \A j \in S : m <= j
  BY <1>1, LeastElement
<1>3. m \in Instant /\ m \in Nat /\ First(m)
  <2>1. m \in Instant /\ m \in Nat /\ 1 <= m /\ m <= Horizon /\ Horizon \in Nat
    BY <1>1, <1>2 DEF Instant
  <2>2. \A k \in 1..m - 1 : k \in Instant /\ k < m
    BY <2>1 DEF Instant
  <2>3. \A k \in 1..m - 1 : CycleOf[k] # c
    BY <1>2, <2>1, <2>2, Calendar
  <2> QED BY <1>2, <2>1, <2>3
<1> DEFINE d == CHOOSE j \in Instant : First(j)
<1>4. d \in Instant /\ First(d)
  BY <1>3
<1> HIDE DEF d
<1>5. d <= i
  <2>1. d \in Nat /\ 1 <= d /\ i \in Nat /\ 1 <= i /\ m <= Horizon
    BY <1>3, <1>4 DEF Instant
  <2>2. ASSUME i < d PROVE FALSE
    <3>1. CycleOf[i] <= CycleOf[d] /\ CycleOf[d] = c
      BY <1>4, <2>1, <2>2, Calendar
    <3>2. CycleOf[i] = c
      BY <3>1, <1>4, Calendar
    <3>3. i \in 1..d - 1
      BY <2>1, <2>2
    <3> QED BY <1>4, <3>2, <3>3
  <2> QED BY <2>1, <2>2
<1>6. e < d
  BY <1>4, Calendar
<1>7. DayOf[e] <= DayOf[d] /\ DayOf[d] <= DayOf[i]
  BY <1>4, <1>5, <1>6, Calendar
<1>8. DayOf[e] = DayOf[d]
  BY <1>4, <1>7, Calendar
<1> QED BY <1>8 DEF FirstDay, d

\* A sync takes an event out of its day's figure only if its listing ends before the event, or
\* if its cycle began later on that day (daily.py rebuilds whole days).
THEOREM CountedForGood == SyncSpec => UsageStaysCounted
<1> DEFINE Excused(e) ==
             \E s \in Syncer : At(s, "fetched") /\ sync'[s].at # "fetched" /\
               \/ sync[s].stamp < e
               \/ CycleOf[e] < CycleAsked(s) /\ DayOf[e] = FirstDay(CycleAsked(s))
           Goal == \A e \in Instant : daily'[e] < daily[e] => Excused(e)
<1>1. ASSUME Types, Books, [SyncNext]_syncVars PROVE Goal
  <2>1. ASSUME UNCHANGED books PROVE Goal
    <3>1. daily' = daily /\ daily \in [Instant -> {0, 1}]
      BY <1>1, <2>1 DEF books, Types
    <3> QED BY <3>1
  <2>2. ASSUME NEW s \in Syncer, Stores(s), NEW e \in Instant, daily'[e] < daily[e] PROVE Excused(e)
    <3> DEFINE E == sync[s].events
               a == sync[s].asked
               t == sync[s].stamp
    <3>1. /\ E = Listed(a, t) /\ {a, t} \subseteq Instant /\ E \subseteq used
          /\ \A p \in Period : Recorded(p)' = IF OfPeriod(E, p) = {} THEN Recorded(p) ELSE OfPeriod(E, p)
          /\ daily' \in [Instant -> {0, 1}]
          /\ \A f \in Instant : daily'[f] =
               IF \E i \in E : DayOf[f] = DayOf[i] THEN IF f \in Recorded(PeriodOf[f])' THEN 1 ELSE 0 ELSE daily[f]
      BY <1>1, <2>2, Stored
    <3>2. At(s, "fetched") /\ sync'[s].at # "fetched" /\ CycleAsked(s) = CycleOf[a]
      BY <1>1, <2>2, Written DEF CycleAsked
    <3>3. daily'[e] = 0 /\ daily[e] = 1
      <4>1. daily[e] \in {0, 1}
        BY <1>1 DEF Types
      <4>2. daily'[e] \in {0, 1}
        BY <3>1
      <4> QED BY <2>2, <4>1, <4>2
    <3>4. a \in Nat /\ t \in Nat /\ e \in Nat
      BY <3>1, Calendar
    <3> SUFFICES ASSUME e <= t PROVE Excused(e)
      BY <3>2, <3>4
    <3> HIDE DEF E, a, t
    <3>5. e \in used
      BY <1>1, <3>3 DEF Books
    <3>6. PICK i \in E : DayOf[e] = DayOf[i]
      BY <3>1, <3>3
    <3>7. e \notin Recorded(PeriodOf[e])'
      BY <3>1, <3>3, <3>6
    <3>8. i \in Instant /\ CycleOf[i] >= CycleOf[a]
      BY <1>1, <3>1, <3>6, UsedSoFar DEF Listed
    <3>9. e \notin E
      <4>1. PeriodOf[e] = PeriodOf[i] /\ PeriodOf[e] \in Period
        BY <3>6, <3>8, Calendar
      <4>2. i \in OfPeriod(E, PeriodOf[e])
        BY <3>6, <4>1 DEF OfPeriod
      <4>3. Recorded(PeriodOf[e])' = OfPeriod(E, PeriodOf[e])
        BY <3>1, <4>1, <4>2
      <4> QED BY <3>7, <4>3 DEF OfPeriod
    <3>10. CycleOf[e] < CycleOf[a]
      <4>1. CycleOf[e] \in Nat /\ CycleOf[a] \in Nat
        BY <3>1, Calendar
      <4>2. ~(CycleOf[e] >= CycleOf[a])
        BY <3>1, <3>5, <3>9 DEF Listed
      <4> QED BY <4>1, <4>2
    <3>11. DayOf[e] = FirstDay(CycleOf[a])
      <4>1. CycleOf[a] <= CycleOf[i]
        BY <3>1, <3>8, Calendar
      <4> QED BY <3>1, <3>6, <3>8, <3>10, <4>1, FirstDayIsFirst
    <3> QED BY <3>2, <3>10, <3>11
  <2> QED BY <1>1, <2>1, <2>2, OnlyStores
<1> QED BY <1>1, BooksHold, PTL DEF SyncSpec, UsageStaysCounted
=============================================================================
