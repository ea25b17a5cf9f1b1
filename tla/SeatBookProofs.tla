--------------------------- MODULE SeatBookProofs ---------------------------
(***************************************************************************)
(* What each operator of SeatBook makes of a well-formed book: another one, *)
(* and which calls and which people's seats it leaves alone.               *)
(***************************************************************************)
EXTENDS SeatBook, FiniteSetTheorems, TLAPS

Book == [Pair -> Seat]
Watch == [Boot -> 0..SilenceBound \cup {Unknown}]

\* Every set of naturals with an element has a smallest one.
LEMMA LeastElement ==
  ASSUME NEW T \in SUBSET Nat, NEW n \in T
  PROVE  \E x \in T : \A y \in T : x <= y
<1> DEFINE Less == {s \in Nat \X Nat : s[1] < s[2]}
<1>1. IsWellFoundedOn(Less, Nat)
  BY NatLessThanWellFounded DEF OpToRel
<1>2. \A x, y \in Nat : y < x => <<y, x>> \in Less
  OBVIOUS
<1> HIDE DEF Less
<1>3. PICK x \in T : \A y \in T : ~(<<y, x>> \in Less)
  BY <1>1, WFMin
<1>4. \A y \in T : ~(y < x)
  BY <1>2, <1>3, Zenon
<1> QED BY <1>4

\* Min of a set of naturals is its smallest element.
LEMMA MinIsLeast ==
  ASSUME NEW T \in SUBSET Nat, T # {}
  PROVE  Min(T) \in T /\ \A y \in T : Min(T) <= y
<1>1. PICK n \in T : TRUE
  OBVIOUS
<1>2. \E x \in T : \A y \in T : x <= y
  BY <1>1, LeastElement
<1> QED BY <1>2 DEF Min

\* Max of a set of integers with an upper bound is its largest element.
LEMMA MaxIsGreatest ==
  ASSUME NEW T \in SUBSET Int, T # {}, NEW m \in Int, \A x \in T : x <= m
  PROVE  Max(T) \in T /\ \A y \in T : Max(T) >= y
<1> DEFINE Gap == {m - x : x \in T}
<1>1. Gap \in SUBSET Nat
  OBVIOUS
<1>2. PICK n \in Gap : TRUE
  OBVIOUS
<1>3. PICK g \in Gap : \A h \in Gap : g <= h
  BY <1>1, <1>2, LeastElement
<1>4. PICK x \in T : g = m - x
  OBVIOUS
<1>5. \A y \in T : x >= y
  <2> SUFFICES ASSUME NEW y \in T PROVE x >= y
    OBVIOUS
  <2>1. m - x <= m - y
    BY <1>3, <1>4
  <2> QED BY <2>1
<1> QED BY <1>5 DEF Max

USE BookAssumption

\* The two ages are natural bounds.
LEMMA BoundTypes == IdleBound \in Nat \ {0} /\ SilenceBound \in Nat \ {0}
BY DEF IdleBound, SilenceBound, Larger

LEMMA BlankType == Blank \in Seat
BY BoundTypes DEF Blank, Seat

\* Every change of a single seat leaves a seat, and touches the calls of at
\* most the boot it is made for.
LEMMA SeatTypes ==
  ASSUME NEW seat \in Seat, NEW c \in Cred
  PROVE  /\ /\ SeatSeen(seat, c) \in Seat
            /\ SeatSeen(seat, c).cred = c
            /\ SeatSeen(seat, c).inflight = seat.inflight
         /\ \A left \in 0..MaxHold : /\ SeatHeld(seat, c, left) \in Seat
                                     /\ SeatHeld(seat, c, left).inflight = seat.inflight
         /\ \A x \in Boot, keep \in 0..MaxHold :
              /\ SeatEnded(seat, c, x, keep) \in Seat
              /\ \A y \in Boot : y # x => SeatEnded(seat, c, x, keep).inflight[y] = seat.inflight[y]
              /\ seat.inflight[x] < CallBound =>
                   /\ SeatBegun(seat, c, x, keep) \in Seat
                   /\ \A y \in Boot : y # x => SeatBegun(seat, c, x, keep).inflight[y] = seat.inflight[y]
<1>1. /\ seat.cred \in Cred \cup {NoCred} /\ seat.idle \in 0..IdleBound
      /\ seat.inflight \in [Boot -> 0..CallBound]
      /\ seat.hold \in 0..MaxHold /\ seat.keep \in 0..MaxHold
  BY DEF Seat
<1>2. 0 \in 0..IdleBound
  BY BoundTypes
<1>3. \A m, n \in 0..MaxHold : Larger(m, n) \in 0..MaxHold
  BY DEF Larger
<1>4. /\ SeatSeen(seat, c) \in Seat
      /\ SeatSeen(seat, c).cred = c
      /\ SeatSeen(seat, c).inflight = seat.inflight
  BY <1>2 DEF SeatSeen, Seat
<1>5. ASSUME NEW left \in 0..MaxHold
      PROVE  /\ SeatHeld(seat, c, left) \in Seat
             /\ SeatHeld(seat, c, left).inflight = seat.inflight
  <2> DEFINE m == Larger(seat.hold, left)
  <2>1. m \in 0..MaxHold
    BY <1>1, <1>3
  <2>2. SeatHeld(seat, c, left) =
          [seat EXCEPT !.cred = IF seat.cred # NoCred THEN seat.cred ELSE c, !.hold = m]
    BY DEF SeatHeld
  <2> HIDE DEF m
  <2> QED BY <2>1, <2>2 DEF Seat
<1>6. ASSUME NEW x \in Boot, NEW keep \in 0..MaxHold
      PROVE  /\ SeatEnded(seat, c, x, keep) \in Seat
             /\ \A y \in Boot : y # x => SeatEnded(seat, c, x, keep).inflight[y] = seat.inflight[y]
  <2> DEFINE m == Larger(seat.hold, keep)
             f == [seat.inflight EXCEPT ![x] = IF @ > 0 THEN @ - 1 ELSE 0]
  <2>1. m \in 0..MaxHold
    BY <1>1, <1>3
  <2>2. f \in [Boot -> 0..CallBound] /\ \A y \in Boot : y # x => f[y] = seat.inflight[y]
    BY <1>1
  <2>3. SeatEnded(seat, c, x, keep) =
          [seat EXCEPT !.cred = IF seat.cred # NoCred THEN seat.cred ELSE c, !.idle = 0,
                       !.hold = m, !.inflight = f]
    BY DEF SeatEnded
  <2> HIDE DEF m, f
  <2> QED BY <1>2, <2>1, <2>2, <2>3 DEF Seat
<1>7. ASSUME NEW x \in Boot, NEW keep \in 0..MaxHold, seat.inflight[x] < CallBound
      PROVE  /\ SeatBegun(seat, c, x, keep) \in Seat
             /\ \A y \in Boot : y # x => SeatBegun(seat, c, x, keep).inflight[y] = seat.inflight[y]
  <2> DEFINE m == Larger(seat.keep, keep)
             f == [seat.inflight EXCEPT ![x] = @ + 1]
  <2>1. m \in 0..MaxHold
    BY <1>1, <1>3
  <2>2. f \in [Boot -> 0..CallBound] /\ \A y \in Boot : y # x => f[y] = seat.inflight[y]
    BY <1>1, <1>7
  <2>3. SeatBegun(seat, c, x, keep) =
          [seat EXCEPT !.cred = c, !.idle = 0, !.keep = m, !.inflight = f]
    BY DEF SeatBegun
  <2> HIDE DEF m, f
  <2> QED BY <1>2, <2>1, <2>2, <2>3 DEF Seat
<1> QED BY <1>4, <1>5, <1>6, <1>7

\* Reaping dead boots keeps a seat a seat of the same person, ends the dead
\* boots' calls and no others.
LEMMA ReapSeatType ==
  ASSUME NEW seat \in Seat, NEW b \in Watch
  PROVE  /\ ReapSeat(seat, b) \in Seat
         /\ ReapSeat(seat, b).cred = seat.cred
         /\ \A x \in Boot : /\ ReapSeat(seat, b).inflight[x] \in {0, seat.inflight[x]}
                            /\ x \in DeadBoots(b) => ReapSeat(seat, b).inflight[x] = 0
<1> DEFINE gone == {x \in DeadBoots(b) : seat.inflight[x] > 0}
           claims == {seat.keep - b[x] : x \in gone} \cup {seat.hold}
           calls == [x \in Boot |-> IF x \in gone THEN 0 ELSE seat.inflight[x]]
<1>1. ReapSeat(seat, b) = [seat EXCEPT !.inflight = calls, !.hold = Max(claims)]
  BY DEF ReapSeat
<1>2. /\ seat.keep \in 0..MaxHold /\ seat.hold \in 0..MaxHold
      /\ seat.inflight \in [Boot -> 0..CallBound]
      /\ gone \subseteq Boot
  BY DEF Seat, DeadBoots
<1>3. \A x \in gone : b[x] \in Nat /\ seat.keep - b[x] \in Int /\ seat.keep - b[x] <= MaxHold
  <2> SUFFICES ASSUME NEW x \in gone
               PROVE  b[x] \in Nat /\ seat.keep - b[x] \in Int /\ seat.keep - b[x] <= MaxHold
    OBVIOUS
  <2>1. x \in Boot /\ b[x] \in 0..SilenceBound \cup {Unknown} /\ b[x] >= BootStale
    BY <1>2 DEF Watch, DeadBoots
  <2>2. b[x] \in Nat
    BY <2>1, BoundTypes DEF Unknown
  <2> QED BY <2>2, <1>2
<1> HIDE DEF gone
<1>4. claims \in SUBSET Int /\ seat.hold \in claims /\ \A m \in claims : m <= MaxHold
  BY <1>2, <1>3
<1>5. Max(claims) \in claims /\ Max(claims) >= seat.hold
  <2>1. claims # {} /\ MaxHold \in Int
    BY <1>4
  <2> HIDE DEF claims
  <2> QED BY <1>4, <2>1, MaxIsGreatest
<1>6. Max(claims) \in 0..MaxHold
  <2>1. Max(claims) \in Int /\ Max(claims) <= MaxHold
    BY <1>4, <1>5
  <2> HIDE DEF claims
  <2> QED BY <2>1, <1>5, <1>2
<1>7. calls \in [Boot -> 0..CallBound]
  BY <1>2
<1>8. /\ ReapSeat(seat, b) \in Seat
      /\ ReapSeat(seat, b).cred = seat.cred
      /\ ReapSeat(seat, b).inflight = calls
  <2> HIDE DEF claims, calls
  <2> QED BY <1>1, <1>6, <1>7 DEF Seat
<1>9. \A x \in Boot : /\ calls[x] \in {0, seat.inflight[x]}
                      /\ x \in DeadBoots(b) => calls[x] = 0
  <2> SUFFICES ASSUME NEW x \in Boot
               PROVE  /\ calls[x] \in {0, seat.inflight[x]}
                      /\ x \in DeadBoots(b) => calls[x] = 0
    OBVIOUS
  <2>1. seat.inflight[x] \in 0..CallBound
    BY <1>2
  <2> QED BY <2>1 DEF gone
<1> HIDE DEF calls
<1> QED BY <1>8, <1>9

\* Expiry keeps seats seats of the same person or frees them.
LEMMA ExpiredType ==
  ASSUME NEW s \in Book, NEW b \in Watch, NEW ttl
  PROVE  /\ Expired(s, b, ttl) \in Book
         /\ BootsAfterReap(b) \in Watch
         /\ \A p \in Pair : /\ Taken(Expired(s, b, ttl), p) => Taken(s, p)
                            /\ Expired(s, b, ttl)[p] \in {Blank, ReapSeat(s[p], b)}
<1>1. \A p \in Pair : s[p] \in Seat
  BY DEF Book
<1>2. \A p \in Pair : /\ ReapSeat(s[p], b) \in Seat
                      /\ ReapSeat(s[p], b).cred = s[p].cred
  BY <1>1, ReapSeatType
<1>3. \A p \in Pair : Expired(s, b, ttl)[p] \in {Blank, ReapSeat(s[p], b)}
  BY DEF Expired, Reaped
<1>4. Expired(s, b, ttl) \in Book
  <2>1. Expired(s, b, ttl) = [p \in Pair |-> Expired(s, b, ttl)[p]]
    BY DEF Expired
  <2> QED BY <2>1, <1>2, <1>3, BlankType DEF Book
<1>5. BootsAfterReap(b) \in Watch
  BY DEF BootsAfterReap, Watch
<1>6. ASSUME NEW p \in Pair, Taken(Expired(s, b, ttl), p)
      PROVE  Taken(s, p)
  BY <1>2, <1>3, <1>6 DEF Taken, Blank
<1> QED BY <1>3, <1>4, <1>5, <1>6

\* Occupying seats at most the asker, on the account of the credential, and
\* leaves the calls of every seat alone.
LEMMA OccupyType ==
  ASSUME NEW s \in Book, NEW q \in Question, NEW c \in Cred \cup {NoCred}
  PROVE  /\ Occupy(s, q, c) \in Book
         /\ \A p \in Pair : /\ Taken(s, p) => Taken(Occupy(s, q, c), p)
                            /\ Taken(Occupy(s, q, c), p) =>
                                 Taken(s, p) \/ p = <<q.holder, OnTable(q, c)>>
                            /\ Occupy(s, q, c)[p].inflight = s[p].inflight
<1> DEFINE a == OnTable(q, c)
<1>1. CASE a = NoAccount
  BY <1>1 DEF Occupy
<1>2. CASE a # NoAccount
  <2>1. c \in Cred /\ a \in Account /\ q.holder \in Holder
    BY <1>2 DEF OnTable, Question
  <2>2. <<q.holder, a>> \in Pair
    BY <2>1 DEF Pair
  <2> DEFINE p0 == <<q.holder, a>>
             n == SeatSeen(s[p0], c)
  <2>3. Occupy(s, q, c) = [s EXCEPT ![p0] = n]
    BY <1>2 DEF Occupy
  <2>4. s[p0] \in Seat
    BY <2>2 DEF Book
  <2>5. n \in Seat /\ n.cred = c /\ n.inflight = s[p0].inflight
    BY <2>1, <2>4, SeatTypes
  <2> HIDE DEF n
  <2>6. Occupy(s, q, c) \in Book
    BY <2>2, <2>3, <2>5 DEF Book
  <2>7. \A p \in Pair : Occupy(s, q, c)[p] = IF p = p0 THEN n ELSE s[p]
    BY <2>3 DEF Book
  <2> QED BY <2>1, <2>5, <2>6, <2>7 DEF Taken
<1> QED BY <1>1, <1>2

LEMMA DropType ==
  ASSUME NEW s \in Book, NEW q, NEW c
  PROVE  /\ Drop(s, q, c) \in Book
         /\ \A p \in Pair : Drop(s, q, c)[p] \in {Blank, s[p]}
<1>1. \A p \in Pair : Drop(s, q, c)[p] \in {Blank, s[p]}
  BY DEF Drop
<1>2. Drop(s, q, c) = [p \in Pair |-> Drop(s, q, c)[p]]
  BY DEF Drop
<1> QED BY <1>1, <1>2, BlankType DEF Book

\* The assigned credential is one of the caller's or none.
LEMMA AssignedType ==
  ASSUME NEW s, NEW q \in Question
  PROVE  Assigned(s, q) \in Cred \cup {NoCred}
<1>1. q.pin \in Cred \cup {NoCred} /\ q.current \in Cred \cup {NoCred} /\ q.ranked \in Seq(Cred)
  BY DEF Question
<1>2. ASSUME NEW t
      PROVE  FirstEligible(t, q) \in Cred \cup {NoCred}
  <2>1. CASE Eligible(t, q) = {}
    BY <2>1 DEF FirstEligible
  <2>2. CASE Eligible(t, q) # {}
    <3>1. Eligible(t, q) \in SUBSET (1..Len(q.ranked)) /\ Eligible(t, q) \in SUBSET Nat
      BY <1>1 DEF Eligible
    <3>2. Min(Eligible(t, q)) \in 1..Len(q.ranked)
      BY <3>1, <2>2, MinIsLeast
    <3> QED BY <3>2, <2>2, <1>1 DEF FirstEligible
  <2> QED BY <2>1, <2>2
<1> QED BY <1>1, <1>2 DEF Assigned

\* What choose leaves behind: seats, with the calls they had, taken before or
\* the asker's on the account of the held or of the assigned credential.
LEMMA SeatsAfterType ==
  ASSUME NEW s \in Book, NEW q \in Question
  PROVE  /\ Settled(s, q) \in Book
         /\ SeatsAfter(s, q) \in Book
         /\ \A p \in Pair, x \in Boot : SeatsAfter(s, q)[p].inflight[x] \in {0, s[p].inflight[x]}
<1> DEFINE t == Occupy(s, q, q.held)
           u == Settled(s, q)
<1>1. q.held \in Cred \cup {NoCred}
  BY DEF Question
<1>2. t \in Book /\ \A p \in Pair : t[p].inflight = s[p].inflight
  BY <1>1, OccupyType
<1>3. u \in Book /\ \A p \in Pair : u[p] \in {Blank, t[p]}
  <2> HIDE DEF t
  <2>1. Drop(t, q, q.current) \in Book /\ \A p \in Pair : Drop(t, q, q.current)[p] \in {Blank, t[p]}
    BY <1>2, DropType
  <2> QED BY <1>2, <2>1 DEF Settled, t
<1>4. SeatsAfter(s, q) \in Book
      /\ \A p \in Pair : SeatsAfter(s, q)[p].inflight = u[p].inflight
  <2> HIDE DEF u
  <2> QED BY <1>3, AssignedType, OccupyType DEF SeatsAfter, u
<1>5. ASSUME NEW p \in Pair, NEW x \in Boot
      PROVE  SeatsAfter(s, q)[p].inflight[x] \in {0, s[p].inflight[x]}
  <2>1. Blank.inflight[x] = 0
    BY DEF Blank
  <2> HIDE DEF t, u
  <2> QED BY <1>2, <1>3, <1>4, <2>1
<1> QED BY <1>3, <1>4, <1>5

LEMMA BeganType ==
  ASSUME NEW s \in Book, NEW h \in Holder, NEW c \in Cred, NEW x \in Boot,
         NEW keep \in 0..MaxHold,
         AccountOf[c] # NoAccount, s[<<h, AccountOf[c]>>].inflight[x] < CallBound
  PROVE  /\ Began(s, h, c, x, keep) \in Book
         /\ \A p \in Pair, y \in Boot : y # x => Began(s, h, c, x, keep)[p].inflight[y] = s[p].inflight[y]
<1> DEFINE p0 == <<h, AccountOf[c]>>
           n == SeatBegun(s[p0], c, x, keep)
<1>1. p0 \in Pair
  BY DEF Pair
<1>2. s[p0] \in Seat
  BY <1>1 DEF Book
<1>3. n \in Seat /\ \A y \in Boot : y # x => n.inflight[y] = s[p0].inflight[y]
  <2>1. \A o \in Seat : o.inflight[x] < CallBound =>
          /\ SeatBegun(o, c, x, keep) \in Seat
          /\ \A y \in Boot : y # x => SeatBegun(o, c, x, keep).inflight[y] = o.inflight[y]
    BY SeatTypes
  <2> QED BY <1>2, <2>1
<1>4. Began(s, h, c, x, keep) = [s EXCEPT ![p0] = n]
  BY DEF Began
<1> HIDE DEF n
<1> QED BY <1>1, <1>3, <1>4 DEF Book

LEMMA EndedType ==
  ASSUME NEW s \in Book, NEW h \in Holder, NEW c \in Cred, NEW x \in Boot,
         NEW keep \in 0..MaxHold, NEW recreate \in BOOLEAN
  PROVE  /\ Ended(s, h, c, x, keep, recreate) \in Book
         /\ \A p \in Pair, y \in Boot :
              y # x => Ended(s, h, c, x, keep, recreate)[p].inflight[y] = s[p].inflight[y]
<1> DEFINE p0 == <<h, AccountOf[c]>>
           n == SeatEnded(s[p0], c, x, keep)
<1>1. CASE AccountOf[c] = NoAccount \/ (~Taken(s, p0) /\ ~recreate)
  BY <1>1 DEF Ended
<1>2. CASE ~(AccountOf[c] = NoAccount \/ (~Taken(s, p0) /\ ~recreate))
  <2>1. p0 \in Pair
    BY <1>2 DEF Pair
  <2>2. s[p0] \in Seat
    BY <2>1 DEF Book
  <2>3. n \in Seat /\ \A y \in Boot : y # x => n.inflight[y] = s[p0].inflight[y]
    <3>1. \A o \in Seat :
            /\ SeatEnded(o, c, x, keep) \in Seat
            /\ \A y \in Boot : y # x => SeatEnded(o, c, x, keep).inflight[y] = o.inflight[y]
      BY SeatTypes
    <3> QED BY <2>2, <3>1
  <2>4. Ended(s, h, c, x, keep, recreate) = [s EXCEPT ![p0] = n]
    BY <1>2 DEF Ended
  <2> HIDE DEF n
  <2> QED BY <2>1, <2>3, <2>4 DEF Book
<1> QED BY <1>1, <1>2

LEMMA HeldUntilType ==
  ASSUME NEW s \in Book, NEW h \in Holder, NEW c \in Cred, NEW left \in 0..MaxHold
  PROVE  /\ HeldUntil(s, h, c, left) \in Book
         /\ \A p \in Pair : HeldUntil(s, h, c, left)[p].inflight = s[p].inflight
<1> DEFINE p0 == <<h, AccountOf[c]>>
           n == SeatHeld(s[p0], c, left)
<1>1. CASE AccountOf[c] = NoAccount \/ left <= 0
  BY <1>1 DEF HeldUntil
<1>2. CASE ~(AccountOf[c] = NoAccount \/ left <= 0)
  <2>1. p0 \in Pair
    BY <1>2 DEF Pair
  <2>2. s[p0] \in Seat
    BY <2>1 DEF Book
  <2>3. n \in Seat /\ n.inflight = s[p0].inflight
    BY <2>2, SeatTypes
  <2>4. HeldUntil(s, h, c, left) = [s EXCEPT ![p0] = n]
    BY <1>2 DEF HeldUntil
  <2> HIDE DEF n
  <2> QED BY <2>1, <2>3, <2>4 DEF Book
<1> QED BY <1>1, <1>2

LEMMA IdleReleasedType ==
  ASSUME NEW s \in Book, NEW h, NEW a
  PROVE  /\ IdleReleased(s, h, a) \in Book
         /\ \A p \in Pair : IdleReleased(s, h, a)[p] \in {Blank, s[p]}
BY BlankType DEF IdleReleased, Book

\* The passing of time touches no call and no person.
LEMMA AgedType ==
  ASSUME NEW s \in Book
  PROVE  /\ Aged(s) \in Book
         /\ \A p \in Pair : /\ Aged(s)[p].cred = s[p].cred
                            /\ Aged(s)[p].inflight = s[p].inflight
<1>1. ASSUME NEW seat \in Seat
      PROVE  /\ AgedSeat(seat) \in Seat
             /\ AgedSeat(seat).cred = seat.cred
             /\ AgedSeat(seat).inflight = seat.inflight
  <2>1. OneOlder(seat.idle, IdleBound) \in 0..IdleBound
    BY BoundTypes DEF OneOlder, Seat
  <2>2. (IF seat.hold > 0 THEN seat.hold - 1 ELSE 0) \in 0..MaxHold
    BY DEF Seat
  <2> QED BY <2>1, <2>2 DEF AgedSeat, Seat
<1>2. \A p \in Pair : s[p] \in Seat
  BY DEF Book
<1> QED BY <1>1, <1>2 DEF Aged, Book

LEMMA WatchTypes ==
  ASSUME NEW b \in Watch
  PROVE  /\ AgedBoots(b) \in Watch
         /\ \A x \in Boot : AgedBoots(b)[x] = Unknown => b[x] = Unknown
         /\ \A x \in Boot : /\ Noted(b, x) \in Watch
                            /\ x # NoBoot => Noted(b, x)[x] # Unknown
                            /\ \A y \in Boot : Noted(b, x)[y] = Unknown => b[y] = Unknown
<1>1. \A x \in Boot : b[x] # Unknown => OneOlder(b[x], SilenceBound) \in 0..SilenceBound
  BY BoundTypes DEF Watch, OneOlder
<1>2. AgedBoots(b) \in Watch
  BY <1>1 DEF AgedBoots, Watch
<1>3. \A x \in Boot : AgedBoots(b)[x] = Unknown => b[x] = Unknown
  BY <1>1, BoundTypes DEF AgedBoots, Unknown
<1>4. 0 \in 0..SilenceBound /\ 0 # Unknown
  BY BoundTypes DEF Unknown
<1> QED BY <1>2, <1>3, <1>4 DEF Noted, Watch
=============================================================================
