------------------------------ MODULE SeatBook ------------------------------
(***************************************************************************)
(* What one call of OccupancyBook (pulse/proxy/occupancy.py) does to the   *)
(* book: who sits on which AI account.  A seat belongs to a (holder,       *)
(* account) pair.  Every method runs under the book's one lock, so each is *)
(* an operator from the seats (and the boots) before to the ones after;    *)
(* the modules that own the state use them in their actions.               *)
(*                                                                         *)
(* Times are kept relative to the clock: idle is now - seen_at, hold is    *)
(* what is left of hold_until, silent is now - the boot's last call.  Each *)
(* saturates where no comparison of the code can tell larger values apart. *)
(***************************************************************************)
EXTENDS Integers, Sequences, FiniteSetsExt

CONSTANTS
  Holder,       \* whoever a seat is counted for: member, loan or proxy key
  Account,      \* upstream AI accounts
  Cred,         \* credentials of those accounts
  Boot,         \* data-plane boot ids, "" (NoBoot) among them or not
  NoCred, NoAccount, NoBoot,   \* the empty strings
  AccountOf,    \* [Cred -> Account \cup {NoAccount}]: the credential table
  MaxInflight,  \* MAX_INFLIGHT_SECONDS
  BootStale,    \* BOOT_STALE_SECONDS
  MaxTtl,       \* the largest concurrent_ttl_seconds of any team
  MaxHold,      \* the longest time a seat is kept after a call
  CallBound     \* bound on the calls one boot has in flight on one seat

ASSUME BookAssumption ==
  /\ IsFiniteSet(Holder)
  /\ NoCred \notin Cred
  /\ NoAccount \notin Account
  /\ AccountOf \in [Cred -> Account \cup {NoAccount}]
  /\ MaxInflight \in Nat \ {0}
  /\ BootStale \in Nat \ {0}
  /\ MaxTtl \in Nat
  /\ MaxHold \in Nat
  /\ CallBound \in Nat \ {0}

\* No comparison looks past these two ages.
Larger(m, n) == IF m > n THEN m ELSE n
OneOlder(age, bound) == IF age < bound THEN age + 1 ELSE bound
IdleBound == Larger(MaxInflight, MaxTtl)
SilenceBound == Larger(BootStale, MaxHold)

Seat == [cred     : Cred \cup {NoCred},
         idle     : 0..IdleBound,
         inflight : [Boot -> 0..CallBound],
         hold     : 0..MaxHold,
         keep     : 0..MaxHold]       \* hold_seconds

\* A pair with no entry in the book.
Blank == [cred |-> NoCred, idle |-> 0, inflight |-> [b \in Boot |-> 0],
          hold |-> 0, keep |-> 0]

Pair == Holder \X Account

\* The age of a boot the book has no entry for.
Unknown == -1

Taken(s, p) == s[p].cred # NoCred
Busy(seat) == \E b \in Boot : seat.inflight[b] > 0

\* Slip: a call in progress counts for ever.
AliveWhileBusy(seat, ttl) == Busy(seat) \/ seat.hold > 0 \/ seat.idle < ttl

\* Seat.alive
Alive(seat, ttl) ==
  \/ Busy(seat) /\ seat.idle < MaxInflight
  \/ seat.hold > 0
  \/ seat.idle < ttl

-----------------------------------------------------------------------------
(* Expiry: run at the head of choose and count_by_account. *)

DeadBoots(b) == {x \in Boot : b[x] >= BootStale}

\* Slip: the dead boot is forgotten but its calls stay on the seat.
ReapSeatKeepingCalls(seat, b) == seat

\* A dead boot's calls end when it was last heard of; keep runs from there.
\* A boot that has none left on this seat leaves it alone.
ReapSeat(seat, b) ==
  LET gone == {x \in DeadBoots(b) : seat.inflight[x] > 0}
  IN [seat EXCEPT
        !.inflight = [x \in Boot |-> IF x \in gone THEN 0 ELSE seat.inflight[x]],
        !.hold     = Max({seat.keep - b[x] : x \in gone} \cup {seat.hold})]

Reaped(s, b) == [p \in Pair |-> ReapSeat(s[p], b)]

BootsAfterReap(b) == [x \in Boot |-> IF x \in DeadBoots(b) THEN Unknown ELSE b[x]]

\* A ttl of 0 turns expiry off, never the reaping of dead boots.
Expired(s, b, ttl) ==
  LET r == Reaped(s, b)
  IN [p \in Pair |-> IF ttl = 0 \/ Alive(r[p], ttl) THEN r[p] ELSE Blank]

-----------------------------------------------------------------------------
(* choose *)

\* One authorize or resolve call's question.  table is account_by_credential
\* completed by ranked: the accounts this caller could look up.
Question == [holder : Holder, ranked : Seq(Cred), table : [Cred -> Account \cup {NoAccount}],
             current : Cred \cup {NoCred}, release : BOOLEAN,
             pinned : BOOLEAN, pin : Cred \cup {NoCred},
             held : Cred \cup {NoCred}, cap : Nat]

OnTable(q, c) == IF c = NoCred THEN NoAccount ELSE q.table[c]

Others(s, h, a) == {g \in Holder \ {h} : Taken(s, <<g, a>>)}

\* Slip: one person too many.
FullOneLate(s, h, a, cap) ==
  cap > 0 /\ a # NoAccount /\ Cardinality(Others(s, h, a)) > cap

Full(s, h, a, cap) ==
  /\ cap > 0
  /\ a # NoAccount
  /\ Cardinality(Others(s, h, a)) >= cap

HolderOn(s, h, a) == a # NoAccount /\ Taken(s, <<h, a>>)

Room(s, h, a, cap) == ~Full(s, h, a, cap) \/ HolderOn(s, h, a)

\* A seat already there keeps its calls and its hold.
SeatSeen(seat, c) == [seat EXCEPT !.cred = c, !.idle = 0]

Occupy(s, q, c) ==
  LET p == <<q.holder, OnTable(q, c)>>
  IN IF OnTable(q, c) = NoAccount THEN s ELSE [s EXCEPT ![p] = SeatSeen(s[p], c)]

\* Without an account for c, whatever this holder reached through c goes;
\* the account the other session slot is on is never given up.
Drop(s, q, c) ==
  LET a == OnTable(q, c)
      given == IF a # NoAccount THEN {a}
               ELSE {x \in Account : s[<<q.holder, x>>].cred = c}
      lost == given \ {OnTable(q, q.held)}
  IN [p \in Pair |-> IF p[1] = q.holder /\ p[2] \in lost THEN Blank ELSE s[p]]

Released(q) == IF q.release THEN q.current ELSE NoCred

\* The seats once the held slot is refreshed and the released one given up.
Settled(s, q) ==
  LET s1 == Occupy(s, q, q.held)
  IN IF ~q.pinned /\ Released(q) # NoCred THEN Drop(s1, q, q.current) ELSE s1

\* Slip: the credential being left may be picked again.
EligibleOrLeft(s, q) ==
  {i \in DOMAIN q.ranked : Room(s, q.holder, q.table[q.ranked[i]], q.cap)}

Eligible(s, q) ==
  {i \in DOMAIN q.ranked :
     /\ q.ranked[i] # Released(q)
     /\ Room(s, q.holder, q.table[q.ranked[i]], q.cap)}

FirstEligible(s, q) ==
  IF Eligible(s, q) = {} THEN NoCred
  ELSE q.ranked[Min(Eligible(s, q))]

KeepsCurrent(s, q) ==
  /\ ~q.release
  /\ OnTable(q, q.current) # NoAccount
  /\ Room(s, q.holder, OnTable(q, q.current), q.cap)

\* The assigned credential: a pinned caller stays where it is pinned, even
\* over the cap; anyone else keeps the current one or takes the first with
\* room, never the one being left.
Assigned(s, q) ==
  IF q.pinned THEN IF q.pin # NoCred THEN q.pin ELSE q.current
  ELSE LET t == Settled(s, q)
       IN IF KeepsCurrent(t, q) THEN q.current ELSE FirstEligible(t, q)

SeatsAfter(s, q) == Occupy(Settled(s, q), q, Assigned(s, q))

\* Asked of: the credentials this call knows an account for.
Known(q) ==
  {c \in Cred : /\ q.table[c] # NoAccount
                /\ \/ c \in {q.current, q.held, q.pin}
                   \/ \E i \in DOMAIN q.ranked : q.ranked[i] = c}

BlockedAfter(s, q) ==
  LET t == SeatsAfter(s, q)
  IN {c \in Known(q) : ~Room(t, q.holder, q.table[c], q.cap)}

-----------------------------------------------------------------------------
(* The calls of the Coding Plan gateway. *)

SeatBegun(seat, c, x, keep) ==
  [seat EXCEPT !.cred = c, !.idle = 0, !.keep = Larger(seat.keep, keep),
               !.inflight = [seat.inflight EXCEPT ![x] = @ + 1]]

Began(s, h, c, x, keep) ==
  LET p == <<h, AccountOf[c]>>
  IN IF AccountOf[c] = NoAccount THEN s ELSE [s EXCEPT ![p] = SeatBegun(s[p], c, x, keep)]

\* Slip: an end the seat knows no call of takes one off all the same.
SeatEndedBelowZero(seat, c, x, keep) ==
  [seat EXCEPT !.cred = IF seat.cred # NoCred THEN @ ELSE c, !.idle = 0,
               !.hold = Larger(seat.hold, keep), !.inflight[x] = @ - 1]

\* A call the seat does not know of ends nothing.
SeatEnded(seat, c, x, keep) ==
  [seat EXCEPT !.cred = IF seat.cred # NoCred THEN seat.cred ELSE c, !.idle = 0,
               !.hold = Larger(seat.hold, keep),
               !.inflight = [seat.inflight EXCEPT ![x] = IF @ > 0 THEN @ - 1 ELSE 0]]

\* A seat that is gone is rebuilt only when asked for.
Ended(s, h, c, x, keep, recreate) ==
  LET p == <<h, AccountOf[c]>>
  IN IF AccountOf[c] = NoAccount \/ (~Taken(s, p) /\ ~recreate) THEN s
     ELSE [s EXCEPT ![p] = SeatEnded(s[p], c, x, keep)]

\* Slip: the calls in flight on the account just left are not looked at.
ReleasedAnyway(s, h, a) == [s EXCEPT ![<<h, a>>] = Blank]

\* release_idle: a seat with a call in flight is left to that call's end.
IdleReleased(s, h, a) ==
  IF Busy(s[<<h, a>>]) THEN s ELSE [s EXCEPT ![<<h, a>>] = Blank]

\* hold: put back a seat that has left units of its hold to run.
SeatHeld(seat, c, left) ==
  [seat EXCEPT !.cred = IF seat.cred # NoCred THEN seat.cred ELSE c,
               !.hold = Larger(seat.hold, left)]

HeldUntil(s, h, c, left) ==
  LET p == <<h, AccountOf[c]>>
  IN IF AccountOf[c] = NoAccount \/ left <= 0 THEN s
     ELSE [s EXCEPT ![p] = SeatHeld(s[p], c, left)]

\* note_boot, and the head of begin_call and end_call.  Older proxies send no
\* boot id: their calls are counted under "", which is never watched.
Noted(b, x) == IF x = NoBoot THEN b ELSE [b EXCEPT ![x] = 0]

\* One unit of time passes.  Blank pairs have no clock.
AgedSeat(seat) ==
  IF seat.cred = NoCred THEN seat
  ELSE [seat EXCEPT !.idle = OneOlder(@, IdleBound), !.hold = IF @ > 0 THEN @ - 1 ELSE 0]

Aged(s) == [p \in Pair |-> AgedSeat(s[p])]

AgedBoots(b) ==
  [x \in Boot |-> IF b[x] = Unknown THEN Unknown ELSE OneOlder(b[x], SilenceBound)]

EmptySeats == [p \in Pair |-> Blank]
NoBoots == [x \in Boot |-> Unknown]
=============================================================================
