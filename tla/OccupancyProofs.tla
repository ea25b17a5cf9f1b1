-------------------------- MODULE OccupancyProofs --------------------------
(***************************************************************************)
(* What holds of the book for every set of people, accounts, teams and     *)
(* clock settings: its types, that the calls on its seats are watched,     *)
(* that assignment keeps within the cap and answers soundly, and that      *)
(* nobody loses a seat through someone else.                               *)
(***************************************************************************)
EXTENDS Occupancy, SeatBookProofs

USE BookAssumption

\* The book only ever holds well-formed seats, boots and advice, whatever the
\* callers ask, in whatever order.
THEOREM TypeCorrect == Spec => []TypeOK
<1> USE OccupancyAssumption
<1>0. EmptySeats \in Book /\ NoBoots \in Watch /\ NoAdvice \in Advice
  BY BlankType DEF EmptySeats, NoBoots, Book, Watch, NoAdvice, Advice
<1>1. Init => TypeOK
  BY <1>0 DEF Init, TypeOK, Book, Watch
<1>2. TypeOK /\ [Next]_vars => TypeOK'
  <2> SUFFICES ASSUME TypeOK, [Next]_vars PROVE TypeOK'
    OBVIOUS
  <2>1. seats \in Book /\ boots \in Watch
    BY DEF TypeOK, Book, Watch
  <2>2. NoAdvice \in Advice
    BY DEF NoAdvice, Advice
  <2>3. ASSUME seats' \in Book, boots' \in Watch, advice' \in Advice, waived' \subseteq Pair
        PROVE  TypeOK'
    BY <2>3 DEF TypeOK, Book, Watch
  <2>4. ASSUME NEW t, NEW fresh, fresh \subseteq Pair, Waive(t, fresh) PROVE waived' \subseteq Pair
    BY <2>4 DEF Waive, TypeOK
  <2>5. ASSUME NEW t \in Book, NEW b \in Watch, Call(t, b) PROVE TypeOK'
    <3>1. Fresh(seats, t) \subseteq Pair
      BY DEF Fresh
    <3> QED BY <2>2, <2>3, <2>4, <2>5, <3>1 DEF Call
  <2>6. ASSUME NEW q \in Questions, NEW ttl \in Ttls, Choose(q, ttl) PROVE TypeOK'
    <3> DEFINE s == Expired(seats, boots, ttl)
    <3>1. q \in Question
      OBVIOUS
    <3>2. s \in Book /\ boots' \in Watch
      BY <2>1, <2>6, ExpiredType DEF Choose
    <3>3. seats' \in Book
      BY <2>6, <3>1, <3>2, SeatsAfterType DEF Choose
    <3>4. advice' \in Advice
      <4>1. /\ q.holder \in Holder /\ q.current \in Cred \cup {NoCred} /\ q.ranked \in Seq(Cred)
        BY <3>1 DEF Question
      <4>2. Released(q) \in Cred \cup {NoCred}
        BY <4>1 DEF Released
      <4>3. BlockedAfter(s, q) \subseteq Cred
        BY DEF BlockedAfter, Known
      <4>4. {q.ranked[i] : i \in DOMAIN q.ranked} \subseteq Cred
        BY <4>1
      <4> HIDE DEF s
      <4>5. Assigned(s, q) \in Cred \cup {NoCred}
        BY <3>1, AssignedType
      <4> QED BY <2>6, <4>1, <4>2, <4>3, <4>4, <4>5 DEF Choose, Advice, s
    <3>5. waived' \subseteq Pair
      <4>1. WaivedBy(s, q) \subseteq Pair
        BY DEF WaivedBy, Fresh
      <4> QED BY <2>4, <2>6, <4>1 DEF Choose
    <3> QED BY <2>3, <3>2, <3>3, <3>4, <3>5
  <2>7. ASSUME NEW ttl \in Ttls, CountByAccount(ttl) PROVE TypeOK'
    BY <2>1, <2>2, <2>3, <2>4, <2>7, ExpiredType DEF CountByAccount
  <2>8. ASSUME NEW h \in Holder, NEW c \in Cred, NEW x \in Boot, NEW keep \in Holds,
               BeginCall(h, c, x, keep)
        PROVE  TypeOK'
    BY <2>1, <2>5, <2>8, BeganType, WatchTypes DEF BeginCall
  <2>9. ASSUME NEW h \in Holder, NEW c \in Cred, NEW x \in Boot, NEW keep \in Holds,
               NEW recreate \in BOOLEAN, EndCall(h, c, x, keep, recreate)
        PROVE  TypeOK'
    BY <2>1, <2>5, <2>9, EndedType, WatchTypes DEF EndCall
  <2>10. ASSUME NEW h \in Holder, NEW a \in Account, ReleaseIdle(h, a) PROVE TypeOK'
    BY <2>1, <2>5, <2>10, IdleReleasedType DEF ReleaseIdle
  <2>11. ASSUME NEW h \in Holder, NEW c \in Cred, NEW left \in Holds, Hold(h, c, left) PROVE TypeOK'
    BY <2>1, <2>5, <2>11, HeldUntilType DEF Hold
  <2>12. ASSUME NEW x \in Boot, NoteBoot(x) PROVE TypeOK'
    BY <2>1, <2>5, <2>12, WatchTypes DEF NoteBoot
  <2>13. CASE Reset
    BY <2>13, <2>3, <1>0 DEF Reset
  <2>14. CASE Tick
    BY <2>1, <2>2, <2>3, <2>14, AgedType, WatchTypes DEF Tick, TypeOK
  <2>15. CASE UNCHANGED vars
    BY <2>15 DEF vars, TypeOK
  <2> QED BY <2>6, <2>7, <2>8, <2>9, <2>10, <2>11, <2>12, <2>13, <2>14, <2>15 DEF Next
<1> QED BY <1>1, <1>2, PTL DEF Spec

-----------------------------------------------------------------------------

\* A call in progress at a data plane that sends its boot id can always be
\* ended by that data plane's death: no order of expiries, restarts and
\* reports leaves a seat in flight for a boot nobody watches.
THEOREM Watched == Spec => []CallsAreWatched
<1> USE OccupancyAssumption
<1>1. Init => CallsAreWatched
  BY DEF Init, CallsAreWatched, EmptySeats, Blank
<1>2. TypeOK /\ CallsAreWatched /\ [Next]_vars => CallsAreWatched'
  <2> SUFFICES ASSUME TypeOK, CallsAreWatched, [Next]_vars,
                      NEW p \in Pair, NEW y \in Boot \ {NoBoot},
                      seats'[p].inflight[y] > 0
               PROVE  boots'[y] # Unknown
    BY DEF CallsAreWatched
  <2>1. seats \in Book /\ boots \in Watch /\ seats[p] \in Seat
    BY DEF TypeOK, Book, Watch
  <2>2. seats[p].inflight[y] > 0 => boots[y] # Unknown
    BY DEF CallsAreWatched
  <2>3. Blank.inflight[y] = 0
    BY DEF Blank
  <2>4. ASSUME NEW ttl, boots' = BootsAfterReap(boots),
               seats'[p].inflight[y] \in {0, Expired(seats, boots, ttl)[p].inflight[y]}
        PROVE  boots'[y] # Unknown
    <3>1. seats'[p].inflight[y] = ReapSeat(seats[p], boots).inflight[y]
      BY <2>1, <2>3, <2>4, ExpiredType
    <3>2. y \notin DeadBoots(boots) /\ seats'[p].inflight[y] = seats[p].inflight[y]
      BY <2>1, <3>1, ReapSeatType
    <3>3. BootsAfterReap(boots)[y] = boots[y]
      BY <3>2 DEF BootsAfterReap
    <3> QED BY <2>2, <2>4, <3>2, <3>3
  <2>5. ASSUME NEW q \in Questions, NEW ttl \in Ttls, Choose(q, ttl)
        PROVE  boots'[y] # Unknown
    <3>1. q \in Question
      OBVIOUS
    <3>2. Expired(seats, boots, ttl) \in Book
      BY <2>1, ExpiredType
    <3>3. seats'[p].inflight[y] \in {0, Expired(seats, boots, ttl)[p].inflight[y]}
      BY <2>5, <3>1, <3>2, SeatsAfterType DEF Choose
    <3> QED BY <2>4, <2>5, <3>3 DEF Choose
  <2>6. ASSUME NEW ttl \in Ttls, CountByAccount(ttl)
        PROVE  boots'[y] # Unknown
    BY <2>4, <2>6 DEF CountByAccount
  <2>7. ASSUME NEW x \in Boot, NEW t,
               boots' = Noted(boots, x), seats' = t,
               y # x => t[p].inflight[y] = seats[p].inflight[y]
        PROVE  boots'[y] # Unknown
    <3>1. CASE y = x
      BY <3>1, <2>1, <2>7, WatchTypes
    <3>2. CASE y # x
      BY <3>2, <2>1, <2>2, <2>7, WatchTypes
    <3> QED BY <3>1, <3>2
  <2>8. ASSUME NEW h \in Holder, NEW c \in Cred, NEW x \in Boot, NEW keep \in Holds,
               BeginCall(h, c, x, keep)
        PROVE  boots'[y] # Unknown
    <3> DEFINE t == Began(seats, h, c, x, keep)
    <3>1. /\ keep \in 0..MaxHold /\ AccountOf[c] # NoAccount
          /\ seats[<<h, AccountOf[c]>>].inflight[x] < CallBound
      BY <2>8 DEF BeginCall
    <3>2. y # x => t[p].inflight[y] = seats[p].inflight[y]
      BY <2>1, <3>1, BeganType
    <3> HIDE DEF t
    <3> QED BY <2>7, <2>8, <3>2 DEF BeginCall, Call, t
  <2>9. ASSUME NEW h \in Holder, NEW c \in Cred, NEW x \in Boot, NEW keep \in Holds,
               NEW recreate \in BOOLEAN, EndCall(h, c, x, keep, recreate)
        PROVE  boots'[y] # Unknown
    <3> DEFINE t == Ended(seats, h, c, x, keep, recreate)
    <3>1. keep \in 0..MaxHold
      OBVIOUS
    <3>2. y # x => t[p].inflight[y] = seats[p].inflight[y]
      BY <2>1, <3>1, EndedType
    <3> HIDE DEF t
    <3> QED BY <2>7, <2>9, <3>2 DEF EndCall, Call, t
  <2>10. ASSUME NEW h \in Holder, NEW a \in Account, ReleaseIdle(h, a)
         PROVE  boots'[y] # Unknown
    BY <2>1, <2>2, <2>3, <2>10, IdleReleasedType DEF ReleaseIdle, Call
  <2>11. ASSUME NEW h \in Holder, NEW c \in Cred, NEW left \in Holds, Hold(h, c, left)
         PROVE  boots'[y] # Unknown
    BY <2>1, <2>2, <2>11, HeldUntilType DEF Hold, Call
  <2>12. ASSUME NEW x \in Boot, NoteBoot(x)
         PROVE  boots'[y] # Unknown
    BY <2>7, <2>12 DEF NoteBoot, Call
  <2>13. CASE Reset
    BY <2>3, <2>13 DEF Reset, EmptySeats
  <2>14. CASE Tick
    BY <2>1, <2>2, <2>14, AgedType, WatchTypes DEF Tick
  <2>15. CASE UNCHANGED vars
    BY <2>2, <2>15 DEF vars
  <2> QED BY <2>5, <2>6, <2>8, <2>9, <2>10, <2>11, <2>12, <2>13, <2>14, <2>15 DEF Next
<1> QED BY <1>1, <1>2, TypeCorrect, PTL DEF Spec

-----------------------------------------------------------------------------

\* Whoever has to find room and was not seated before the question is the
\* asker, on an account that had room for one more.
LEMMA NewcomerHasRoom ==
  ASSUME NEW s \in Book, NEW q \in Question, NEW p \in Pair,
         ~q.pinned, q.cap > 0,
         Taken(SeatsAfter(s, q), p), ~Taken(s, p), ~Taken(Occupy(s, q, q.held), p)
  PROVE  /\ p = <<q.holder, p[2]>>
         /\ Cardinality(Others(Settled(s, q), q.holder, p[2])) < q.cap
<1> DEFINE u == Settled(s, q)
           c == Assigned(s, q)
           a == OnTable(q, c)
<1>1. u \in Book /\ c \in Cred \cup {NoCred} /\ q.held \in Cred \cup {NoCred}
  BY SeatsAfterType, AssignedType DEF Question
<1>2. ~Taken(u, p)
  <2>1. Occupy(s, q, q.held) \in Book
    BY <1>1, OccupyType
  <2>2. u[p] \in {Blank, Occupy(s, q, q.held)[p]}
    BY <2>1, DropType DEF Settled
  <2> QED BY <2>2 DEF Taken, Blank
<1>3. SeatsAfter(s, q) = Occupy(u, q, c)
  BY DEF SeatsAfter
<1>4. p = <<q.holder, a>> /\ Occupy(u, q, c) # u
  <2> HIDE DEF u, c
  <2> QED BY <1>1, <1>2, <1>3, OccupyType
<1>5. a # NoAccount /\ c \in Cred /\ a = q.table[c]
  BY <1>1, <1>4 DEF Occupy, OnTable
<1>6. Room(u, q.holder, a, q.cap)
  <2>1. CASE KeepsCurrent(u, q)
    BY <2>1 DEF KeepsCurrent, Assigned
  <2>2. CASE ~KeepsCurrent(u, q)
    <3>1. c = FirstEligible(u, q)
      BY <2>2 DEF Assigned
    <3>2. Eligible(u, q) # {} /\ c = q.ranked[Min(Eligible(u, q))]
      BY <3>1, <1>5 DEF FirstEligible
    <3>3. Eligible(u, q) \in SUBSET Nat
      BY DEF Eligible, Question
    <3>4. Min(Eligible(u, q)) \in Eligible(u, q)
      BY <3>2, <3>3, MinIsLeast
    <3> QED BY <3>2, <3>4, <1>5 DEF Eligible
  <2> QED BY <2>1, <2>2
<1>7. ~HolderOn(u, q.holder, a)
  BY <1>2, <1>4 DEF HolderOn
<1>8. IsFiniteSet(Others(u, q.holder, a))
  BY FS_Subset DEF Others
<1>9. Cardinality(Others(u, q.holder, a)) \in Nat /\ q.cap \in Nat
  BY <1>8, FS_CardinalityType DEF Question
<1> QED BY <1>4, <1>5, <1>6, <1>7, <1>9 DEF Room, Full

\* Nobody but the asker gains or loses a seat by an answer.
LEMMA OthersUntouched ==
  ASSUME NEW s \in Book, NEW q \in Question, NEW p \in Pair, p[1] # q.holder
  PROVE  /\ Taken(SeatsAfter(s, q), p) = Taken(Settled(s, q), p)
         /\ Taken(SeatsAfter(s, q), p) = Taken(s, p)
<1>1. \A t \in Book : \A c : Occupy(t, q, c)[p] = t[p]
  BY DEF Occupy, Book
<1>2. \A t, c : Drop(t, q, c)[p] = t[p]
  BY DEF Drop
<1>3. q.held \in Cred \cup {NoCred} /\ Assigned(s, q) \in Cred \cup {NoCred}
  BY AssignedType DEF Question
<1>4. Settled(s, q)[p] = s[p]
  BY <1>1, <1>2 DEF Settled
<1>5. SeatsAfter(s, q)[p] = s[p]
  BY <1>1, <1>4, SeatsAfterType DEF SeatsAfter
<1> QED BY <1>4, <1>5 DEF Taken

\* Assignment never steers more than max_concurrent_users people onto one
\* account, for any number of people, accounts and teams, in any order of
\* questions, calls, ends, expiries, restarts and restored seats.
THEOREM CapRespected == Spec => []SteeredWithinCap
<1> USE OccupancyAssumption
<1>0. \A s, w, a : IsFiniteSet(Steered(s, w, a))
  BY FS_Subset DEF Steered
<1>1. Init => SteeredWithinCap
  <2> SUFFICES ASSUME Init, NEW a \in Account PROVE Cardinality(Steered(seats, waived, a)) <= MaxCap
    BY DEF SteeredWithinCap
  <2>1. Steered(seats, waived, a) = {}
    BY DEF Init, Steered, EmptySeats, Taken, Blank, Pair
  <2> QED BY <2>1, FS_EmptySet
<1>2. TypeOK /\ SteeredWithinCap /\ [Next]_vars => SteeredWithinCap'
  <2> SUFFICES ASSUME TypeOK, SteeredWithinCap, [Next]_vars, MaxCap > 0, NEW a \in Account
               PROVE  Cardinality(Steered(seats', waived', a)) <= MaxCap
    BY DEF SteeredWithinCap
  <2>1. seats \in Book /\ boots \in Watch
    BY DEF TypeOK, Book, Watch
  <2>2. \A h \in Holder : <<h, a>> \in Pair
    BY DEF Pair
  <2>3. ASSUME Steered(seats', waived', a) \subseteq Steered(seats, waived, a)
        PROVE  Cardinality(Steered(seats', waived', a)) <= MaxCap
    <3>1. Cardinality(Steered(seats', waived', a)) <= Cardinality(Steered(seats, waived, a))
      BY <1>0, <2>3, FS_Subset
    <3>2. Cardinality(Steered(seats, waived, a)) <= MaxCap
      BY DEF SteeredWithinCap
    <3>3. /\ Cardinality(Steered(seats', waived', a)) \in Nat
          /\ Cardinality(Steered(seats, waived, a)) \in Nat
      BY <1>0, FS_CardinalityType
    <3> QED BY <3>1, <3>2, <3>3
  <2>4. ASSUME NEW t, NEW s, seats' = t, Waive(t, Fresh(s, t)),
               \A p \in Pair : Taken(s, p) => Taken(seats, p)
        PROVE  Cardinality(Steered(seats', waived', a)) <= MaxCap
    BY <2>2, <2>3, <2>4 DEF Steered, Waive, Fresh
  <2>5. ASSUME NEW t, NEW b, Call(t, b)
        PROVE  Cardinality(Steered(seats', waived', a)) <= MaxCap
    BY <2>4, <2>5 DEF Call
  <2>6. ASSUME NEW q \in Questions, NEW ttl \in Ttls, Choose(q, ttl)
        PROVE  Cardinality(Steered(seats', waived', a)) <= MaxCap
    <3> DEFINE s == Expired(seats, boots, ttl)
               t == SeatsAfter(s, q)
    <3>1. q \in Question /\ q.cap \in Nat /\ q.cap <= MaxCap
      BY DEF Question
    <3>2. s \in Book /\ \A p \in Pair : Taken(s, p) => Taken(seats, p)
      BY <2>1, ExpiredType
    <3>3. seats' = t /\ Waive(t, WaivedBy(s, q))
      BY <2>6 DEF Choose
    <3> HIDE DEF s, t
    <3>4. CASE q.pinned \/ q.cap = 0
      BY <2>4, <3>2, <3>3, <3>4 DEF WaivedBy, t
    <3>5. CASE ~(q.pinned \/ q.cap = 0)
      <4>1. waived' = {p \in waived \cup Fresh(s, Occupy(s, q, q.held)) : Taken(t, p)}
        BY <3>3, <3>5 DEF Waive, WaivedBy
      <4>2. ASSUME NEW h \in Steered(seats', waived', a), h \notin Steered(seats, waived, a)
            PROVE  Cardinality(Steered(seats', waived', a)) <= MaxCap
        <5> DEFINE p == <<h, a>>
                   O == Others(Settled(s, q), q.holder, a)
        <5>1. p \in Pair /\ Taken(t, p) /\ p \notin waived /\ ~Taken(s, p)
              /\ ~Taken(Occupy(s, q, q.held), p)
          BY <2>2, <3>2, <3>3, <4>1, <4>2 DEF Steered, Fresh
        <5>2. h = q.holder /\ Cardinality(O) < q.cap
          BY <3>1, <3>2, <3>5, <5>1, NewcomerHasRoom DEF t
        <5>3. Steered(seats', waived', a) \subseteq O \cup {q.holder}
          BY <2>2, <3>1, <3>2, <3>3, OthersUntouched DEF Steered, Others, t
        <5>4. IsFiniteSet(O) /\ q.holder \notin O
          BY FS_Subset DEF Others
        <5> HIDE DEF O
        <5>5. /\ IsFiniteSet(O \cup {q.holder})
              /\ Cardinality(O \cup {q.holder}) = Cardinality(O) + 1
          BY <5>4, FS_AddElement
        <5>6. Cardinality(Steered(seats', waived', a)) <= Cardinality(O \cup {q.holder})
          BY <5>3, <5>5, FS_Subset
        <5>7. Cardinality(O) \in Nat /\ Cardinality(Steered(seats', waived', a)) \in Nat
          BY <1>0, <5>4, FS_CardinalityType
        <5> QED BY <3>1, <5>2, <5>5, <5>6, <5>7
      <4> QED BY <2>3, <4>2
    <3> QED BY <3>4, <3>5
  <2>7. ASSUME NEW ttl \in Ttls, CountByAccount(ttl)
        PROVE  Cardinality(Steered(seats', waived', a)) <= MaxCap
    <3>1. \A p \in Pair : Taken(seats', p) => Taken(seats, p)
      BY <2>1, <2>7, ExpiredType DEF CountByAccount
    <3> QED BY <2>2, <2>3, <2>7, <3>1 DEF CountByAccount, Steered, Waive
  <2>8. CASE Reset
    <3>1. Steered(seats', waived', a) = {}
      BY <2>2, <2>8 DEF Reset, Steered, EmptySeats, Taken, Blank
    <3> QED BY <3>1, FS_EmptySet
  <2>9. CASE Tick
    <3>1. \A p \in Pair : Taken(seats', p) = Taken(seats, p)
      BY <2>1, <2>9, AgedType DEF Tick, Taken
    <3> QED BY <2>2, <2>3, <2>9, <3>1 DEF Tick, Steered
  <2>10. CASE UNCHANGED vars
    BY <2>3, <2>10 DEF vars, Steered
  <2> QED BY <2>5, <2>6, <2>7, <2>8, <2>9, <2>10
          DEF Next, BeginCall, EndCall, ReleaseIdle, Hold, NoteBoot
<1> QED BY <1>1, <1>2, TypeCorrect, PTL DEF Spec

-----------------------------------------------------------------------------

\* Whoever is sent somewhere by an unpinned answer is sent to a credential
\* other than the one left, and if it is one of the ranked, to one whose
\* account had room.
LEMMA AssignedUnpinned ==
  ASSUME NEW s, NEW q \in Question, ~q.pinned
  PROVE  LET c == Assigned(s, q) IN
         /\ c # NoCred => c # Released(q)
         /\ c = NoCred => Eligible(Settled(s, q), q) = {}
<1> DEFINE u == Settled(s, q)
           c == Assigned(s, q)
<1>1. q.current \in Cred \cup {NoCred} /\ q.ranked \in Seq(Cred)
  BY DEF Question
<1>2. CASE KeepsCurrent(u, q)
  <2>1. c = q.current /\ ~q.release /\ q.current # NoCred
    BY <1>2 DEF Assigned, KeepsCurrent, OnTable
  <2> QED BY <2>1 DEF Released
<1>3. CASE ~KeepsCurrent(u, q)
  <2>1. c = FirstEligible(u, q)
    BY <1>3 DEF Assigned
  <2>2. CASE Eligible(u, q) = {}
    BY <2>1, <2>2 DEF FirstEligible
  <2>3. CASE Eligible(u, q) # {}
    <3>1. Eligible(u, q) \in SUBSET Nat
      BY DEF Eligible, Question
    <3> DEFINE i == Min(Eligible(u, q))
    <3>2. i \in Eligible(u, q)
      BY <3>1, <2>3, MinIsLeast
    <3>3. c = q.ranked[i]
      BY <2>1, <2>3 DEF FirstEligible
    <3> HIDE DEF i
    <3>4. c # Released(q) /\ c \in Cred
      BY <1>1, <3>2, <3>3 DEF Eligible
    <3> QED BY <3>4, BookAssumption
  <2> QED BY <2>2, <2>3
<1> QED BY <1>2, <1>3

\* Every answer is sound: whoever is assigned a credential holds a seat on its
\* account, is never sent back to what was just left nor to what is reported
\* full, and is refused only when every other choice is full.
THEOREM AnswersAreSound == Spec => []AdviceSound
<1> USE OccupancyAssumption, RankedFromTheTable
<1>1. Init => AdviceSound
  BY DEF Init, AdviceSound
<1>2. TypeOK /\ AdviceSound /\ [Next]_vars => AdviceSound'
  <2> SUFFICES ASSUME TypeOK, AdviceSound, [Next]_vars PROVE AdviceSound'
    OBVIOUS
  <2>1. seats \in Book /\ boots \in Watch
    BY DEF TypeOK, Book, Watch
  <2>2. advice' = NoAdvice => AdviceSound'
    BY DEF AdviceSound
  <2>3. ASSUME NEW q \in Questions, NEW ttl \in Ttls, Choose(q, ttl)
        PROVE  AdviceSound'
    <3> DEFINE s == Expired(seats, boots, ttl)
               u == Settled(s, q)
               t == SeatsAfter(s, q)
               c == Assigned(s, q)
               sought == IF q.pinned THEN {} ELSE {q.ranked[i] : i \in DOMAIN q.ranked}
               left == IF q.pinned THEN NoCred ELSE Released(q)
               blocked == BlockedAfter(s, q)
    <3>1. q \in Question /\ q.ranked \in Seq(Cred)
      BY DEF Question
    <3>2. s \in Book
      BY <2>1, ExpiredType
    <3>3. u \in Book /\ t \in Book /\ c \in Cred \cup {NoCred} /\ t = Occupy(u, q, c)
      <4> HIDE DEF s
      <4> QED BY <3>1, <3>2, SeatsAfterType, AssignedType DEF SeatsAfter
    <3>4. /\ advice' = [holder |-> {q.holder}, cred |-> c, left |-> left,
                        blocked |-> blocked, sought |-> sought]
          /\ seats' = t
      BY <2>3 DEF Choose
    <3>5. blocked = {d \in Known(q) : ~Room(t, q.holder, q.table[d], q.cap)}
      BY DEF BlockedAfter
    <3>6. ~q.pinned => /\ c # NoCred => c # Released(q)
                       /\ c = NoCred => Eligible(u, q) = {}
      <4> HIDE DEF s
      <4> QED BY <3>1, AssignedUnpinned
    <3> HIDE DEF s, u, t, c, blocked
    \* Whoever is sent to an account sits there.
    <3>7. c # NoCred /\ q.table[c] # NoAccount =>
            Taken(t, <<q.holder, q.table[c]>>)
      <4> SUFFICES ASSUME c # NoCred, q.table[c] # NoAccount
                   PROVE  Taken(t, <<q.holder, q.table[c]>>)
        OBVIOUS
      <4>1. c \in Cred /\ q.table[c] \in Account /\ q.holder \in Holder
        BY <3>1, <3>3 DEF Question
      <4> DEFINE p == <<q.holder, q.table[c]>>
      <4>2. p \in Pair
        BY <4>1 DEF Pair
      <4>3. t = [u EXCEPT ![p] = SeatSeen(u[p], c)]
        BY <3>3 DEF Occupy, OnTable
      <4>4. u[p] \in Seat
        BY <3>3, <4>2 DEF Book
      <4>5. SeatSeen(u[p], c).cred = c
        BY <4>1, <4>4, SeatTypes
      <4>6. t[p] = SeatSeen(u[p], c)
        BY <3>3, <4>2, <4>3 DEF Book
      <4> QED BY <4>5, <4>6 DEF Taken
    <3>8. c \notin blocked
      <4> SUFFICES ASSUME c \in blocked PROVE FALSE
        OBVIOUS
      <4>1. c \in Cred /\ q.table[c] # NoAccount /\ ~Room(t, q.holder, q.table[c], q.cap)
        BY <3>5 DEF Known
      <4>2. c # NoCred
        BY <4>1
      <4> QED BY <3>7, <4>1, <4>2 DEF Room, HolderOn
    <3>9. c # NoCred => c # left
      BY <3>6
    <3>10. c \in sought /\ AccountOf[c] # NoAccount => Taken(t, <<q.holder, AccountOf[c]>>)
      <4> SUFFICES ASSUME c \in sought, AccountOf[c] # NoAccount
                   PROVE  Taken(t, <<q.holder, AccountOf[c]>>)
        OBVIOUS
      <4>1. PICK i \in DOMAIN q.ranked : c = q.ranked[i] /\ ~q.pinned
        OBVIOUS
      <4>2. c \in Cred /\ c # NoCred
        BY <3>1, <4>1
      <4>3. q.table[c] = AccountOf[c]
        BY <3>6, <4>1, <4>2
      <4> QED BY <3>7, <4>2, <4>3
    <3>11. c = NoCred => sought \subseteq blocked \cup {left}
      <4> SUFFICES ASSUME c = NoCred, NEW d \in sought, d # left PROVE d \in blocked
        OBVIOUS
      <4>1. PICK i \in DOMAIN q.ranked : d = q.ranked[i] /\ ~q.pinned
        OBVIOUS
      <4>2. d \in Cred /\ d # Released(q)
        BY <3>1, <4>1
      <4>3. ~Room(u, q.holder, q.table[d], q.cap)
        BY <3>6, <4>1, <4>2 DEF Eligible
      <4>4. t = u
        BY <3>3 DEF Occupy, OnTable
      <4>5. d \in Known(q)
        <5>1. q.table[d] # NoAccount
          BY <4>3 DEF Room, Full
        <5> QED BY <4>1, <4>2, <5>1 DEF Known
      <4> QED BY <3>5, <4>3, <4>4, <4>5
    <3> HIDE DEF sought, left
    <3> QED BY <3>4, <3>8, <3>9, <3>10, <3>11 DEF AdviceSound
  <2>4. CASE UNCHANGED vars
    BY <2>4 DEF vars, AdviceSound
  <2> QED BY <2>2, <2>3, <2>4
          DEF Next, CountByAccount, Call, BeginCall, EndCall, ReleaseIdle, Hold, NoteBoot,
              Reset, Tick
<1> QED BY <1>1, <1>2, TypeCorrect, PTL DEF Spec

-----------------------------------------------------------------------------

\* A call that begins or ends unseats nobody, nor does a hold put back.
LEMMA CallsUnseatNobody ==
  ASSUME NEW s \in Book, NEW h \in Holder, NEW c \in Cred, NEW x \in Boot,
         NEW p \in Pair, Taken(s, p)
  PROVE  /\ \A keep : Taken(Began(s, h, c, x, keep), p)
         /\ \A keep, recreate : Taken(Ended(s, h, c, x, keep, recreate), p)
<1>1. s[p] \in Seat /\ s[p].cred # NoCred /\ c # NoCred
  BY DEF Book, Taken
<1>2. \A keep : /\ SeatBegun(s[p], c, x, keep).cred = c
                /\ SeatEnded(s[p], c, x, keep).cred = s[p].cred
  BY <1>1 DEF Seat, SeatBegun, SeatEnded
<1>3. \A keep : Began(s, h, c, x, keep)[p] \in {s[p], SeatBegun(s[p], c, x, keep)}
  BY DEF Began, Book
<1>4. \A keep, recreate : Ended(s, h, c, x, keep, recreate)[p] \in {s[p], SeatEnded(s[p], c, x, keep)}
  BY DEF Ended, Book
<1> QED BY <1>1, <1>2, <1>3, <1>4 DEF Taken

LEMMA HoldUnseatsNobody ==
  ASSUME NEW s \in Book, NEW h \in Holder, NEW c \in Cred, NEW left,
         NEW p \in Pair, Taken(s, p)
  PROVE  Taken(HeldUntil(s, h, c, left), p)
<1>1. s[p] \in Seat /\ s[p].cred # NoCred
  BY DEF Book, Taken
<1>2. SeatHeld(s[p], c, left).cred = s[p].cred
  BY <1>1 DEF Seat, SeatHeld
<1>3. HeldUntil(s, h, c, left)[p] \in {s[p], SeatHeld(s[p], c, left)}
  BY DEF HeldUntil, Book
<1> QED BY <1>1, <1>2, <1>3 DEF Taken

\* Expiry spares a seat that is alive for every team.
LEMMA ExpirySpares ==
  ASSUME TypeOK, NEW ttl \in Ttls, NEW p \in Pair, Taken(seats, p), OutlivesEveryTtl(p)
  PROVE  Taken(Expired(seats, boots, ttl), p)
<1>1. seats[p] \in Seat /\ boots \in Watch
  BY DEF TypeOK, Watch
<1>2. ReapSeat(seats[p], boots).cred = seats[p].cred
  BY <1>1, ReapSeatType
<1>3. ttl = 0 \/ Alive(ReapSeat(seats[p], boots), ttl)
  BY DEF OutlivesEveryTtl, Reaped
<1>4. Expired(seats, boots, ttl)[p] = ReapSeat(seats[p], boots)
  BY <1>3 DEF Expired, Reaped
<1> QED BY <1>2, <1>4 DEF Taken

\* Only a release takes a seat from the asker, and nothing from anyone else.
LEMMA AnswersSpare ==
  ASSUME NEW s \in Book, NEW q \in Question, NEW p \in Pair,
         Taken(s, p), ~Taken(SeatsAfter(s, q), p)
  PROVE  p[1] = q.holder /\ ~q.pinned /\ Released(q) # NoCred
<1> DEFINE u == Settled(s, q)
<1>1. p[1] = q.holder
  BY OthersUntouched
<1>2. q.held \in Cred \cup {NoCred} /\ Assigned(s, q) \in Cred \cup {NoCred} /\ u \in Book
  BY AssignedType, SeatsAfterType DEF Question
<1>3. ~Taken(u, p)
  <2> HIDE DEF u
  <2> QED BY <1>2, OccupyType DEF SeatsAfter, u
<1>4. Taken(Occupy(s, q, q.held), p)
  BY <1>2, OccupyType
<1> QED BY <1>1, <1>3, <1>4 DEF Settled

\* Nobody's seat goes through someone else's call: a seat that is alive for
\* every team goes only by its own holder's release, or with the whole book.
THEOREM SeatsAreKept == Spec => OnlyTheHolderGivesUp
<1> USE OccupancyAssumption
<1> DEFINE Given(p) ==
      \/ seats' = EmptySeats /\ boots' = NoBoots
      \/ advice'.holder = {p[1]} /\ advice'.left # NoCred
      \/ advice' = NoAdvice /\ ~Busy(seats[p]) /\ \A r \in Pair \ {p} : seats'[r] = seats[r]
<1>1. TypeOK /\ [Next]_vars =>
        [\A p \in Pair :
           Taken(seats, p) /\ seats'[p].cred = NoCred /\ OutlivesEveryTtl(p) => Given(p)]_vars
  <2> SUFFICES ASSUME TypeOK, Next, NEW p \in Pair,
                      Taken(seats, p), seats'[p].cred = NoCred, OutlivesEveryTtl(p)
               PROVE  Given(p)
    OBVIOUS
  <2>1. seats \in Book /\ boots \in Watch /\ ~Taken(seats', p)
    BY DEF TypeOK, Book, Watch, Taken
  <2>2. ASSUME NEW q \in Questions, NEW ttl \in Ttls, Choose(q, ttl)
        PROVE  Given(p)
    <3> DEFINE s == Expired(seats, boots, ttl)
    <3>1. s \in Book /\ Taken(s, p) /\ q \in Question
      BY <2>1, ExpiredType, ExpirySpares
    <3>2. seats' = SeatsAfter(s, q)
      BY <2>2 DEF Choose
    <3> HIDE DEF s
    <3>3. p[1] = q.holder /\ ~q.pinned /\ Released(q) # NoCred
      BY <2>1, <3>1, <3>2, AnswersSpare
    <3>4. advice'.holder = {q.holder} /\ advice'.left = IF q.pinned THEN NoCred ELSE Released(q)
      BY <2>2 DEF Choose
    <3> QED BY <3>3, <3>4
  <2>3. ASSUME NEW ttl \in Ttls, CountByAccount(ttl)
        PROVE  FALSE
    BY <2>1, <2>3, ExpirySpares DEF CountByAccount
  <2>4. ASSUME NEW h \in Holder, NEW c \in Cred, NEW x \in Boot, NEW keep \in Holds,
               BeginCall(h, c, x, keep)
        PROVE  FALSE
    BY <2>1, <2>4, CallsUnseatNobody DEF BeginCall, Call
  <2>5. ASSUME NEW h \in Holder, NEW c \in Cred, NEW x \in Boot, NEW keep \in Holds,
               NEW recreate \in BOOLEAN, EndCall(h, c, x, keep, recreate)
        PROVE  FALSE
    BY <2>1, <2>5, CallsUnseatNobody DEF EndCall, Call
  <2>6. ASSUME NEW h \in Holder, NEW a \in Account, ReleaseIdle(h, a)
        PROVE  Given(p)
    <3>1. advice' = NoAdvice /\ seats' = IdleReleased(seats, h, a)
      BY <2>6 DEF ReleaseIdle, Call
    <3>2. ~Busy(seats[<<h, a>>]) /\ seats' = [seats EXCEPT ![<<h, a>>] = Blank]
      BY <2>1, <3>1 DEF IdleReleased
    <3>3. p = <<h, a>>
      BY <2>1, <3>2 DEF Book, Taken
    <3>4. \A r \in Pair \ {p} : seats'[r] = seats[r]
      BY <2>1, <3>2, <3>3 DEF Book
    <3> QED BY <3>1, <3>2, <3>3, <3>4
  <2>7. ASSUME NEW h \in Holder, NEW c \in Cred, NEW left \in Holds, Hold(h, c, left)
        PROVE  FALSE
    BY <2>1, <2>7, HoldUnseatsNobody DEF Hold, Call
  <2>8. ASSUME NEW x \in Boot, NoteBoot(x)
        PROVE  FALSE
    BY <2>1, <2>8 DEF NoteBoot, Call
  <2>9. CASE Reset
    BY <2>9 DEF Reset
  <2>10. CASE Tick
    BY <2>1, <2>10, AgedType DEF Tick, Taken
  <2> HIDE DEF Given
  <2> QED BY <2>2, <2>3, <2>4, <2>5, <2>6, <2>7, <2>8, <2>9, <2>10 DEF Next
<1> QED BY <1>1, TypeCorrect, PTL DEF Spec, OnlyTheHolderGivesUp
=============================================================================
