--------------------------- MODULE GatewayProofs ---------------------------
(***************************************************************************)
(* What holds of the Coding Plan gateway for every number of handlers,     *)
(* keys, accounts and credentials and every limit: its types whatever      *)
(* happens, and, in the calm, that every call is counted and that a key    *)
(* stays on its account within the dwell.                                  *)
(***************************************************************************)
EXTENDS CpScenes, SeatBookProofs

\* A call that is being made has a key, and one that has been answered a credential.
Formed(c) ==
  /\ c.phase # "idle" => c.key \in Holder
  /\ c.phase \in {"serving", "streaming", "ending"} => c.cred \in Cred
  /\ c.stick => c.view \in Cred
  /\ c.release => c.current \in Cred

Types ==
  /\ seats \in Book /\ boots \in Watch /\ restored \in BOOLEAN
  /\ binding \in [Holder -> Row] /\ last \in [Holder -> Row]
  /\ calls \in [Call -> CallState] /\ \A k \in Call : Formed(calls[k])
  /\ remembered \in [Holder -> Cred \cup {NoCred}] /\ proc \in Boot
  /\ used \in [Rare -> Nat] /\ \A f \in Rare : used[f] <= Limit[f]

USE BookAssumption, GatewayAssumption
-----------------------------------------------------------------------------
(* Rows and calls *)

LEMMA KeepType == Keep \in 0..MaxHold /\ Dwell <= Keep /\ Ttl \in Nat
BY DEF Keep, Larger

LEMMA RowTypes ==
  /\ NoRow \in Row /\ NoRow.cred = NoCred
  /\ \A c \in Cred \cup {NoCred} : [cred |-> c, age |-> 0] \in Row
  /\ \A r \in Row : OneOlder(r.age, Keep) \in 0..Keep /\ OneOlder(r.age, Keep) >= r.age
BY KeepType DEF NoRow, Row, OneOlder

LEMMA IdleType ==
  /\ IdleCall \in CallState /\ Formed(IdleCall) /\ IdleCall.phase = "idle" /\ ~IdleCall.stick
  /\ ~IdleCall.release /\ ~IdleCall.dropped /\ IdleCall.excluded = {}
  /\ IdleCall.cred = NoCred /\ IdleCall.due = NoCred
BY DEF IdleCall, CallState, Formed

LEMMA GivenUp ==
  ASSUME NEW c \in CallState, Formed(c), c.phase # "idle"
  PROVE  GiveUp(c) \in CallState /\ Formed(GiveUp(c))
<1>1. CASE c.cred = NoCred
  BY <1>1, IdleType DEF GiveUp
<1>2. CASE c.cred # NoCred
  <2>1. c.cred \in Cred /\ c.key \in Holder
    BY <1>2 DEF CallState, Formed
  <2>2. GiveUp(c) = [IdleCall EXCEPT !.phase = "ending", !.key = c.key, !.cred = c.cred,
                                     !.tries = EndAttempts]
    BY <1>2 DEF GiveUp
  <2>3. EndAttempts \in 0..EndAttempts
    OBVIOUS
  <2> QED BY <2>1, <2>2, <2>3, IdleType, ZenonT(60) DEF CallState, Formed
<1> QED BY <1>1, <1>2

LEMMA NextTried ==
  ASSUME NEW c \in CallState, Formed(c)
  PROVE  NextTry(c) \in CallState /\ Formed(NextTry(c))
<1>1. CASE c.tries > 1
  <2>1. c.tries - 1 \in 0..EndAttempts
    BY <1>1 DEF CallState
  <2>2. NextTry(c) = [c EXCEPT !.tries = c.tries - 1]
    BY <1>1 DEF NextTry
  <2> QED BY <2>1, <2>2 DEF CallState, Formed
<1>2. CASE ~(c.tries > 1)
  BY <1>2, IdleType DEF NextTry
<1> QED BY <1>1, <1>2

LEMMA LookedType ==
  ASSUME Types, NEW c \in CallState, Formed(c), c.phase = "asking", NEW row \in Row,
         NEW alone \in BOOLEAN
  PROVE  Looked(c, row, alone) \in CallState /\ Formed(Looked(c, row, alone))
<1> DEFINE forget == c.release /\ row.cred = c.current
           sticks == ~forget /\ row.cred \in Pool(c) /\ row.age < Dwell
           due == Promised(c)
<1>1. row.cred \in Cred \cup {NoCred} /\ c.key \in Holder
  BY DEF Row, Formed
<1>2. forget \in BOOLEAN /\ sticks \in BOOLEAN
  OBVIOUS
<1>3. due \in Cred \cup {NoCred}
  BY <1>1 DEF Promised, Types, Row
<1>4. sticks => row.cred \in Cred
  BY DEF Pool
<1>5. Looked(c, row, alone) =
        [c EXCEPT !.phase = "picking", !.view = row.cred, !.dropped = forget, !.stick = sticks,
                  !.due = due, !.alone = alone]
  BY DEF Looked
<1> HIDE DEF forget, sticks, due
<1> QED BY <1>1, <1>2, <1>3, <1>4, <1>5, ZenonT(60) DEF CallState, Formed

LEMMA ServedType ==
  ASSUME NEW c \in CallState, Formed(c), c.phase # "idle", NEW chosen \in Cred
  PROVE  Served(c, chosen) \in CallState /\ Formed(Served(c, chosen))
BY DEF Served, CallState, Formed

LEMMA OvertakenType ==
  ASSUME NEW c \in CallState, Formed(c)
  PROVE  [c EXCEPT !.alone = FALSE] \in CallState /\ Formed([c EXCEPT !.alone = FALSE])
BY DEF CallState, Formed

LEMMA FailsOverType ==
  ASSUME NEW c \in CallState, Formed(c), c.phase = "serving"
  PROVE  FailsOver(c) \in CallState /\ Formed(FailsOver(c))
<1>1. c.cred \in Cred /\ c.key \in Holder
  BY DEF Formed
<1>2. c.excluded \cup {c.cred} \in SUBSET Cred
  BY <1>1 DEF CallState
<1>3. FailsOver(c) = [c EXCEPT !.phase = "asking", !.excluded = c.excluded \cup {c.cred},
                               !.current = c.cred, !.release = TRUE]
  BY DEF FailsOver
<1> QED BY <1>1, <1>2, <1>3 DEF CallState, Formed

LEMMA BeginsType ==
  ASSUME Types, NEW h \in Holder
  PROVE  Begins(h) \in CallState /\ Formed(Begins(h))
<1>1. remembered[h] \in Cred \cup {NoCred}
  BY DEF Types
<1> QED BY <1>1, IdleType DEF Begins, CallState, Formed

LEMMA StreamingType ==
  ASSUME NEW c \in CallState, Formed(c), c.phase = "serving"
  PROVE  [c EXCEPT !.phase = "streaming"] \in CallState
         /\ Formed([c EXCEPT !.phase = "streaming"])
BY DEF CallState, Formed

\* One call changes, to one as well formed.
CallsTyped == calls' \in [Call -> CallState] /\ \A j \in Call : Formed(calls'[j])

LEMMA OneMoves ==
  ASSUME Types, NEW k \in Call, NEW d \in CallState, Formed(d),
         calls' = [calls EXCEPT ![k] = d]
  PROVE  CallsTyped
BY DEF Types, CallsTyped

LEMMA Spending ==
  ASSUME Types, NEW f \in Rare, Spend(f)
  PROVE  used' \in [Rare -> Nat] /\ \A g \in Rare : used'[g] <= Limit[g]
<1>1. used \in [Rare -> Nat] /\ Limit \in [Rare -> Nat]
      /\ \A g \in Rare : used[g] <= Limit[g]
  BY DEF Types
<1>2. used' = [used EXCEPT ![f] = used[f] + 1] /\ used[f] < Limit[f]
  BY DEF Spend
<1>3. used[f] + 1 \in Nat /\ used[f] + 1 <= Limit[f]
  BY <1>1, <1>2
<1> QED BY <1>1, <1>2, <1>3
-----------------------------------------------------------------------------
(* What Pulse Web does to the book *)

LEMMA HoldingSpares ==
  ASSUME NEW s \in Book, NEW h \in Holder, NEW c \in Cred, NEW left \in 0..MaxHold,
         NEW p \in Pair
  PROVE  /\ HeldUntil(s, h, c, left)[p] \in Seat
         /\ HeldUntil(s, h, c, left)[p].inflight = s[p].inflight
         /\ HeldUntil(s, h, c, left)[p].idle = s[p].idle
<1>1. HeldUntil(s, h, c, left) \in Book
      /\ HeldUntil(s, h, c, left)[p].inflight = s[p].inflight
  BY HeldUntilType
<1>2. HeldUntil(s, h, c, left)[p] \in Seat
  BY <1>1 DEF Book
<1>3. ASSUME NEW seat \in Seat PROVE SeatHeld(seat, c, left).idle = seat.idle
  BY DEF SeatHeld, Seat
<1>4. HeldUntil(s, h, c, left)[p] \in {s[p], SeatHeld(s[p], c, left)} /\ s[p] \in Seat
  BY DEF HeldUntil, Book
<1> QED BY <1>1, <1>2, <1>3, <1>4

LEMMA Restoring ==
  ASSUME Types
  PROVE  /\ RestoredSeats \in Book
         /\ \A p \in Pair : /\ RestoredSeats[p].inflight = seats[p].inflight
                           /\ RestoredSeats[p].idle = seats[p].idle
<1>1. CASE restored
  BY <1>1 DEF RestoredSeats, Types
<1>2. CASE ~restored
  <2>1. ASSUME NEW p \in Pair
        PROVE  /\ RestoredSeats[p] \in Seat
               /\ RestoredSeats[p].inflight = seats[p].inflight
               /\ RestoredSeats[p].idle = seats[p].idle
    <3> DEFINE r == binding[p[1]]
    <3>1. RestoredSeats[p] = IF r.cred # NoCred /\ AccountOf[r.cred] = p[2]
                             THEN HeldUntil(seats, p[1], r.cred, Keep - r.age)[p] ELSE seats[p]
      BY <1>2 DEF RestoredSeats
    <3>2. p[1] \in Holder /\ r \in Row /\ seats \in Book /\ seats[p] \in Seat
      BY DEF Pair, Types, Book
    <3> HIDE DEF r
    <3>3. CASE r.cred # NoCred /\ AccountOf[r.cred] = p[2]
      <4>1. r.cred \in Cred /\ Keep - r.age \in 0..MaxHold
        BY <3>2, <3>3, KeepType DEF Row
      <4> QED BY <3>1, <3>2, <3>3, <4>1, HoldingSpares
    <3>4. CASE ~(r.cred # NoCred /\ AccountOf[r.cred] = p[2])
      BY <3>1, <3>2, <3>4
    <3> QED BY <3>3, <3>4
  <2>2. RestoredSeats = [p \in Pair |-> RestoredSeats[p]]
    BY <1>2 DEF RestoredSeats
  <2> QED BY <2>1, <2>2 DEF Book
<1> QED BY <1>1, <1>2

\* The questions of a resolve that gives nothing up, and of one that does.
LEMMA AskedStaying ==
  ASSUME NEW h \in Holder, NEW ranked \in Seq(Cred), NEW current \in Cred \cup {NoCred},
         NEW table \in [Cred -> Account \cup {NoAccount}]
  PROVE  LET q == Ask(h, ranked, table, current, FALSE)
         IN q \in Question /\ q.held = NoCred /\ ~q.pinned /\ ~q.release
BY DEF Ask, Question

LEMMA AskedLeaving ==
  ASSUME NEW h \in Holder, NEW ranked \in Seq(Cred), NEW current \in Cred \cup {NoCred},
         NEW table \in [Cred -> Account \cup {NoAccount}]
  PROVE  Ask(h, ranked, table, current, TRUE) \in Question
BY DEF Ask, Question

LEMMA Leaving ==
  ASSUME NEW s \in Book, NEW c \in CallState, Formed(c), c.phase # "idle"
  PROVE  LeaveSeats(s, c) \in Book /\ (~c.release => LeaveSeats(s, c) = s)
<1>1. CASE c.release
  <2>1. c.key \in Holder /\ c.current \in Cred /\ <<c.current>> \in Seq(Cred)
    BY <1>1 DEF Formed
  <2>2. Nowhere \in [Cred -> Account \cup {NoAccount}]
    BY DEF Nowhere
  <2>3. Ask(c.key, <<c.current>>, Nowhere, c.current, TRUE) \in Question
    BY <2>1, <2>2, AskedLeaving
  <2> QED BY <1>1, <2>3, SeatsAfterType DEF LeaveSeats
<1>2. CASE ~c.release
  BY <1>2 DEF LeaveSeats
<1> QED BY <1>1, <1>2

\* An order of some credentials is a sequence of them.
LEMMA OrderType ==
  ASSUME NEW S \in SUBSET Cred, NEW f \in Orders(S)
  PROVE  f \in Seq(Cred)
<1>1. Cardinality(S) \in Nat
  BY FS_Subset, FS_CardinalityType
<1> QED BY <1>1 DEF Orders

LEMMA Begun ==
  ASSUME Types, NEW s \in Book, NEW k \in Call, calls[k].phase # "idle", NEW c \in Cred,
         CallFits(s, calls[k].key, c)
  PROVE  Begin(s, k, c) \in Book
<1> DEFINE h == calls[k].key
<1>1. h \in Holder /\ proc \in Boot
  BY DEF Types, Formed
<1>2. CASE AccountOf[c] = NoAccount
  BY <1>2 DEF Begin, Began
<1>3. CASE AccountOf[c] # NoAccount
  <2>1. <<h, AccountOf[c]>> \in Pair
    BY <1>1, <1>3 DEF Pair
  <2> QED BY <1>1, <1>3, <2>1, KeepType, BeganType DEF Begin, CallFits
<1> QED BY <1>2, <1>3

LEMMA LeavingBehind ==
  ASSUME NEW s \in Book, NEW c, NEW chosen
  PROVE  /\ LeftBehind(s, c, chosen) \in Book
         /\ \A p \in Pair : LeftBehind(s, c, chosen)[p] # s[p] =>
                              LeftBehind(s, c, chosen)[p] = Blank /\ ~Busy(s[p])
<1>1. ASSUME NEW p \in Pair
      PROVE  /\ LeftBehind(s, c, chosen)[p] \in {s[p], IdleReleased(s, p[1], p[2])[p]}
             /\ s[p] \in Seat /\ p = <<p[1], p[2]>>
  BY DEF LeftBehind, Book, Pair
<1>2. LeftBehind(s, c, chosen) = [p \in Pair |-> LeftBehind(s, c, chosen)[p]]
  BY DEF LeftBehind
<1>3. ASSUME NEW p \in Pair
      PROVE  IdleReleased(s, p[1], p[2])[p] \in {s[p], Blank}
             /\ (Busy(s[p]) => IdleReleased(s, p[1], p[2])[p] = s[p])
  <2>1. s[<<p[1], p[2]>>] = s[p]
    BY <1>1
  <2> QED BY <2>1, IdleReleasedType DEF IdleReleased
<1>4. LeftBehind(s, c, chosen) \in Book
  BY <1>1, <1>2, <1>3, BlankType DEF Book
<1> QED BY <1>1, <1>3, <1>4
-----------------------------------------------------------------------------
(* Types *)

LEMMA Typing ==
  ASSUME Types
  PROVE  /\ \A k \in Call : calls[k] \in CallState /\ Formed(calls[k])
         /\ \A h \in Holder : binding[h] \in Row /\ last[h] \in Row
         /\ seats \in Book /\ boots \in Watch /\ proc \in Boot
         /\ Noted(boots, proc) \in Watch /\ BootsAfterReap(boots) \in Watch
         /\ BootsAfterReap(Noted(boots, proc)) \in Watch
         /\ Noted(BootsAfterReap(boots), proc) \in Watch
<1>1. \A b \in Watch : Noted(b, proc) \in Watch
  BY WatchTypes DEF Types
<1>2. \A b \in Watch : BootsAfterReap(b) \in Watch
  BY DEF BootsAfterReap, Watch
<1> QED BY <1>1, <1>2 DEF Types

LEMMA GivesUp ==
  ASSUME Types, NEW k \in Call, calls[k].phase # "idle",
         calls' = [calls EXCEPT ![k] = GiveUp(@)]
  PROVE  CallsTyped
<1>1. GiveUp(calls[k]) \in CallState /\ Formed(GiveUp(calls[k]))
  BY Typing, GivenUp
<1> QED BY <1>1, OneMoves DEF Types

LEMMA RefusedTyped ==
  ASSUME Types, NEW k \in Call, calls[k].phase # "idle", Refused(k)
  PROVE  CallsTyped /\ UNCHANGED <<last, used>>
BY GivesUp DEF Refused

LEMMA AnsweredTyped ==
  ASSUME Types, NEW k \in Call, calls[k].phase # "idle", NEW c \in Cred, Answered(k, c)
  PROVE  /\ CallsTyped /\ last' \in [Holder -> Row]
         /\ used' \in [Rare -> Nat] /\ \A g \in Rare : used'[g] <= Limit[g]
<1>1. CASE Spend("losses") /\ calls' = [calls EXCEPT ![k] = GiveUp(@)] /\ UNCHANGED last
  <2>1. "losses" \in Rare
    BY DEF Rare
  <2>2. used' \in [Rare -> Nat] /\ \A g \in Rare : used'[g] <= Limit[g]
    BY <1>1, <2>1, Spending
  <2> QED BY <1>1, <2>2, GivesUp DEF Types
<1>2. CASE /\ calls' = [calls EXCEPT ![k] = Served(@, c)]
           /\ last' = [last EXCEPT ![calls[k].key] =
                         IF calls[k].alone THEN [cred |-> c, age |-> 0] ELSE NoRow]
           /\ UNCHANGED used
  <2>1. Served(calls[k], c) \in CallState /\ Formed(Served(calls[k], c))
    BY Typing, ServedType
  <2>2. CallsTyped
    BY <1>2, <2>1, OneMoves DEF Types
  <2> DEFINE r == IF calls[k].alone THEN [cred |-> c, age |-> 0] ELSE NoRow
  <2>3. r \in Row
    BY RowTypes
  <2> HIDE DEF r
  <2>4. last' = [last EXCEPT ![calls[k].key] = r] /\ last \in [Holder -> Row]
    BY <1>2 DEF r, Types
  <2>5. last' \in [Holder -> Row]
    BY <2>3, <2>4
  <2> QED BY <1>2, <2>2, <2>5 DEF Types
<1> QED BY <1>1, <1>2 DEF Answered

LEMMA WrittenType ==
  ASSUME Types, NEW c \in CallState, Formed(c), c.phase # "idle", NEW chosen \in Cred
  PROVE  WrittenRow(c, chosen) \in Row
<1>1. binding[c.key].cred \in Cred \cup {NoCred}
  BY DEF Types, Formed, Row
<1> DEFINE d == IF c.view = chosen THEN binding[c.key].cred ELSE chosen
<1>2. d \in Cred \cup {NoCred}
  BY <1>1
<1>3. WrittenRow(c, chosen) = IF c.dropped THEN NoRow ELSE [cred |-> d, age |-> 0]
  BY DEF WrittenRow
<1> HIDE DEF d
<1> QED BY <1>2, <1>3, RowTypes

LEMMA ReadTyped == ASSUME Types, NEW k \in Call, ResolveRead(k) PROVE Types'
<1> DEFINE c == calls[k]
           s == IF c.release THEN Expired(RestoredSeats, Noted(boots, proc), Ttl)
                ELSE RestoredSeats
<1>1. c \in CallState /\ Formed(c) /\ c.phase = "asking" /\ binding[c.key] \in Row
  BY Typing DEF ResolveRead, Formed
<1>2. s \in Book
  BY Typing, Restoring, ExpiredType
<1>3. seats' = LeaveSeats(s, c)
  BY DEF ResolveRead
<1> DEFINE d == Looked(c, binding[c.key], Rivals(k) = {})
<1>4. d \in CallState /\ Formed(d)
  <2>1. \A alone \in BOOLEAN : Looked(c, binding[c.key], alone) \in CallState
                            /\ Formed(Looked(c, binding[c.key], alone))
    BY <1>1, LookedType
  <2> QED BY <2>1
<1>5. \A j \in Call : [calls[j] EXCEPT !.alone = FALSE] \in CallState
                    /\ Formed([calls[j] EXCEPT !.alone = FALSE])
  BY Typing, OvertakenType
<1>6. calls' = [j \in Call |-> IF j = k THEN d
                              ELSE IF j \in Rivals(k) THEN [calls[j] EXCEPT !.alone = FALSE]
                              ELSE calls[j]]
  BY DEF ResolveRead
<1>7. seats' \in Book
  <2> HIDE DEF s
  <2> QED BY <1>1, <1>2, <1>3, Leaving
<1> HIDE DEF d, s
<1>8. CallsTyped
  BY <1>4, <1>5, <1>6, Typing DEF CallsTyped
<1>9. boots' \in Watch /\ restored' = TRUE
      /\ UNCHANGED <<binding, remembered, proc, last, used>>
  BY Typing DEF ResolveRead
<1> QED BY <1>7, <1>8, <1>9 DEF Types, CallsTyped

LEMMA NoPoolTyped == ASSUME Types, NEW k \in Call, ResolveNoPool(k) PROVE Types'
<1>1. CallsTyped
  BY GivesUp DEF ResolveNoPool
<1> QED BY <1>1, Typing, Restoring DEF ResolveNoPool, Types, CallsTyped

\* The questions a resolve asks the book.
StickBook(k) ==
  LET c == calls[k]
      table == [x \in Cred |-> IF x = c.view THEN AccountOf[x] ELSE NoAccount]
  IN SeatsAfter(Expired(seats, boots, Ttl), Ask(c.key, <<c.view>>, table, c.view, FALSE))

RankBook(k, ranked) ==
  SeatsAfter(Expired(seats, boots, Ttl), Ask(calls[k].key, ranked, AccountOf, NoCred, FALSE))

LEMMA StickQuestion ==
  ASSUME Types, NEW k \in Call, calls[k].phase = "picking", calls[k].stick
  PROVE  LET c == calls[k]
             table == [x \in Cred |-> IF x = c.view THEN AccountOf[x] ELSE NoAccount]
             q == Ask(c.key, <<c.view>>, table, c.view, FALSE)
         IN /\ c.view \in Cred /\ q \in Question /\ q.held = NoCred /\ ~q.pinned /\ ~q.release
<1> DEFINE c == calls[k]
           table == [x \in Cred |-> IF x = c.view THEN AccountOf[x] ELSE NoAccount]
<1>1. c.key \in Holder /\ c.view \in Cred /\ <<c.view>> \in Seq(Cred)
  BY Typing DEF Formed
<1>2. table \in [Cred -> Account \cup {NoAccount}]
  OBVIOUS
<1>3. \A t \in [Cred -> Account \cup {NoAccount}] :
        LET q == Ask(c.key, <<c.view>>, t, c.view, FALSE)
        IN q \in Question /\ q.held = NoCred /\ ~q.pinned /\ ~q.release
  BY <1>1, AskedStaying
<1> QED BY <1>1, <1>2, <1>3

LEMMA RankQuestion ==
  ASSUME Types, NEW k \in Call, calls[k].phase = "picking",
         NEW ranked \in Orders(Pool(calls[k]))
  PROVE  LET q == Ask(calls[k].key, ranked, AccountOf, NoCred, FALSE)
         IN q \in Question /\ q.held = NoCred /\ ~q.pinned /\ ~q.release
<1>1. calls[k].key \in Holder
  BY Typing DEF Formed
<1>2. ranked \in Seq(Cred)
  BY OrderType DEF Pool
<1> QED BY <1>1, <1>2, AskedStaying

LEMMA StickTyped == ASSUME Types, NEW k \in Call, ResolveStick(k) PROVE Types'
<1> DEFINE c == calls[k]
<1>1. c \in CallState /\ Formed(c) /\ c.phase = "picking" /\ c.view \in Cred
  BY Typing, StickQuestion DEF ResolveStick
<1>2. StickBook(k) \in Book /\ CallFits(StickBook(k), c.key, c.view)
  <2>1. StickBook(k) \in Book
    BY <1>1, Typing, ExpiredType, StickQuestion, SeatsAfterType DEF StickBook, ResolveStick
  <2> QED BY <2>1 DEF StickBook, ResolveStick
<1>3. seats' = Begin(StickBook(k), k, c.view) /\ boots' = Noted(BootsAfterReap(boots), proc)
  BY DEF StickBook, ResolveStick
<1>4. seats' \in Book /\ boots' \in Watch
  BY <1>1, <1>2, <1>3, Begun, Typing
<1>5. UNCHANGED <<restored, remembered, proc>>
  BY DEF ResolveStick
<1>6. CASE Refused(k) /\ UNCHANGED binding
  BY <1>1, <1>4, <1>5, <1>6, RefusedTyped DEF Types, CallsTyped
<1>7. CASE binding' = [binding EXCEPT ![c.key] = WrittenRow(c, c.view)] /\ Answered(k, c.view)
  <2>1. WrittenRow(c, c.view) \in Row
    BY <1>1, WrittenType
  <2>2. binding' \in [Holder -> Row]
    BY <1>7, <2>1 DEF Types
  <2>3. /\ CallsTyped /\ last' \in [Holder -> Row]
        /\ used' \in [Rare -> Nat] /\ \A g \in Rare : used'[g] <= Limit[g]
    BY <1>1, <1>7, AnsweredTyped
  <2> QED BY <1>4, <1>5, <2>2, <2>3 DEF Types, CallsTyped
<1> QED BY <1>6, <1>7 DEF ResolveStick

\* What a resolve that ranks afresh comes to.
RanksNone(k, ranked) ==
  /\ seats' = RankBook(k, ranked) /\ UNCHANGED binding /\ Refused(k)

RanksInVain(k, ranked, chosen) ==
  /\ seats' = LeftBehind(RankBook(k, ranked), calls[k], chosen)
  /\ UNCHANGED binding /\ Refused(k)

RanksFirst(k, ranked, chosen) ==
  /\ CallFits(RankBook(k, ranked), calls[k].key, chosen)
  /\ seats' = Begin(LeftBehind(RankBook(k, ranked), calls[k], chosen), k, chosen)
  /\ ~RowConflict(calls[k])
  /\ binding' = [binding EXCEPT ![calls[k].key] = WrittenRow(calls[k], chosen)]
  /\ Answered(k, chosen)

LEMMA Ranking ==
  ASSUME Types, NEW k \in Call, ResolveRank(k)
  PROVE  \E ranked \in Orders(Pool(calls[k])), chosen \in Cred \cup {NoCred} :
           /\ RankBook(k, ranked) \in Book
           /\ \/ RanksNone(k, ranked)
              \/ chosen \in Cred /\ RanksInVain(k, ranked, chosen)
              \/ chosen \in Cred /\ RanksFirst(k, ranked, chosen)
<1>1. calls[k].phase = "picking"
  BY DEF ResolveRank
<1> DEFINE Q(ranked) == Ask(calls[k].key, ranked, AccountOf, NoCred, FALSE)
           Chosen(ranked) == Assigned(Expired(seats, boots, Ttl), Q(ranked))
<1>2. PICK ranked \in Orders(Pool(calls[k])) :
        IF Chosen(ranked) = NoCred THEN RanksNone(k, ranked)
        ELSE IF RowConflict(calls[k]) THEN RanksInVain(k, ranked, Chosen(ranked))
        ELSE RanksFirst(k, ranked, Chosen(ranked))
  BY DEF ResolveRank, RanksNone, RanksInVain, RanksFirst, RankBook
<1>3. Q(ranked) \in Question
  BY <1>1, RankQuestion
<1>4. Chosen(ranked) \in Cred \cup {NoCred} /\ RankBook(k, ranked) \in Book
  BY <1>3, Typing, ExpiredType, AssignedType, SeatsAfterType DEF RankBook
<1> HIDE DEF Chosen, Q
<1> QED BY <1>2, <1>4

LEMMA RankTyped == ASSUME Types, NEW k \in Call, ResolveRank(k) PROVE Types'
<1> DEFINE c == calls[k]
<1>1. c \in CallState /\ Formed(c) /\ c.phase = "picking"
  BY Typing DEF ResolveRank
<1>2. boots' \in Watch /\ UNCHANGED <<restored, remembered, proc>>
  BY Typing DEF ResolveRank
<1>3. PICK ranked \in Orders(Pool(c)), chosen \in Cred \cup {NoCred} :
           /\ RankBook(k, ranked) \in Book
           /\ \/ RanksNone(k, ranked)
              \/ chosen \in Cred /\ RanksInVain(k, ranked, chosen)
              \/ chosen \in Cred /\ RanksFirst(k, ranked, chosen)
  BY Ranking
<1> DEFINE t == RankBook(k, ranked)
<1> HIDE DEF c
<1>4. ASSUME seats' \in Book, UNCHANGED binding, Refused(k)
      PROVE  Types'
  BY <1>1, <1>2, <1>4, RefusedTyped DEF Types, CallsTyped, c
<1>5. LeftBehind(t, c, chosen) \in Book
  BY <1>3, LeavingBehind
<1>6. CASE RanksNone(k, ranked)
  BY <1>3, <1>4, <1>6 DEF RanksNone
<1>7. CASE RanksInVain(k, ranked, chosen)
  BY <1>4, <1>5, <1>7 DEF RanksInVain, c
<1>8. CASE chosen \in Cred /\ RanksFirst(k, ranked, chosen)
  <2> DEFINE u == LeftBehind(t, c, chosen)
  <2>1. CallFits(u, c.key, chosen)
    <3>1. CallFits(t, c.key, chosen)
      BY <1>8 DEF RanksFirst, c
    <3>2. \A p \in Pair : u[p] = t[p] \/ u[p].inflight[proc] = 0
      BY <1>3, Typing, LeavingBehind DEF Blank
    <3>3. \A p \in Pair : t[p].inflight[proc] \in Nat /\ u[p].inflight[proc] \in Nat
      BY <1>3, <1>5, Typing DEF Book, Seat
    <3>4. 0 < CallBound
      OBVIOUS
    <3> HIDE DEF u, t
    <3> QED BY <3>1, <3>2, <3>3, <3>4 DEF CallFits, t
  <2>2. seats' \in Book
    BY <1>1, <1>5, <1>8, <2>1, Begun DEF RanksFirst, c
  <2>3. WrittenRow(c, chosen) \in Row
    BY <1>1, <1>8, WrittenType
  <2>4. binding' \in [Holder -> Row]
    BY <1>8, <2>3 DEF RanksFirst, Types, c
  <2>5. /\ CallsTyped /\ last' \in [Holder -> Row]
        /\ used' \in [Rare -> Nat] /\ \A g \in Rare : used'[g] <= Limit[g]
    BY <1>1, <1>8, AnsweredTyped DEF RanksFirst, c
  <2> QED BY <1>2, <2>2, <2>4, <2>5 DEF Types, CallsTyped
<1> QED BY <1>3, <1>6, <1>7, <1>8

LEMMA EndTyped == ASSUME Types, NEW k \in Call, EndReceived(k) PROVE Types'
<1> DEFINE c == calls[k]
           bound == binding[c.key].cred = c.cred
<1>1. c \in CallState /\ Formed(c) /\ c.phase = "ending" /\ c.key \in Holder /\ c.cred \in Cred
      /\ bound \in BOOLEAN
  BY Typing DEF EndReceived, Formed
<1>2. boots' \in Watch /\ UNCHANGED <<restored, remembered, proc, last>>
  BY Typing DEF EndReceived
<1>3. seats' = Ended(seats, c.key, c.cred, proc, Keep, bound)
  BY DEF EndReceived
<1>4. seats' \in Book
  <2> HIDE DEF c, bound
  <2> QED BY <1>1, <1>3, Typing, KeepType, EndedType
<1>5. binding' \in [Holder -> Row]
  <2>1. binding' = IF bound THEN [binding EXCEPT ![c.key].age = 0] ELSE binding
    BY DEF EndReceived
  <2>2. [binding[c.key] EXCEPT !.age = 0] \in Row
    BY <1>1, Typing, KeepType DEF Row
  <2> QED BY <2>1, <2>2 DEF Types
<1>6. CASE calls' = [calls EXCEPT ![k] = IdleCall] /\ UNCHANGED used
  BY <1>2, <1>4, <1>5, <1>6, IdleType, OneMoves DEF Types, CallsTyped
<1>7. CASE calls' = [calls EXCEPT ![k] = NextTry(c)] /\ Spend("acks")
  <2>1. CallsTyped
    BY <1>1, <1>7, NextTried, OneMoves
  <2>2. "acks" \in Rare
    BY DEF Rare
  <2>3. used' \in [Rare -> Nat] /\ \A g \in Rare : used'[g] <= Limit[g]
    BY <1>7, <2>2, Spending
  <2> QED BY <1>2, <1>4, <1>5, <2>1, <2>3 DEF Types, CallsTyped
<1> QED BY <1>6, <1>7 DEF EndReceived

LEMMA LookingTyped == ASSUME Types, Heartbeat \/ Board PROVE Types'
<1>1. CASE Heartbeat
  BY <1>1, Typing DEF Heartbeat, Types, go
<1>2. CASE Board
  BY <1>2, Typing, Restoring, ExpiredType DEF Board, Types, go
<1> QED BY <1>1, <1>2

LEMMA RestartTyped == ASSUME Types, WebRestart PROVE Types'
<1>1. EmptySeats \in Book /\ NoBoots \in Watch
  BY BlankType DEF EmptySeats, NoBoots, Book, Watch
<1>2. "restarts" \in Rare
  BY DEF Rare
<1>3. used' \in [Rare -> Nat] /\ \A g \in Rare : used'[g] <= Limit[g]
  BY <1>2, Spending DEF WebRestart
<1>4. \A k \in Call : calls[k].phase = "picking" => GiveUp(calls[k]) \in CallState
                                                 /\ Formed(GiveUp(calls[k]))
  BY Typing, GivenUp
<1>5. CallsTyped
  BY <1>4, Typing DEF WebRestart, CallsTyped
<1> QED BY <1>1, <1>3, <1>5 DEF WebRestart, Types, CallsTyped

LEMMA StartTyped == ASSUME Types, NEW k \in Call, NEW h \in Holder, Start(k, h) PROVE Types'
<1>1. "starts" \in Rare
  BY DEF Rare
<1>2. used' \in [Rare -> Nat] /\ \A g \in Rare : used'[g] <= Limit[g]
  BY <1>1, Spending DEF Start
<1>3. CallsTyped
  BY BeginsType, OneMoves DEF Start
<1> QED BY <1>2, <1>3 DEF Start, web, Types, CallsTyped

LEMMA UnreachedTyped == ASSUME Types, NEW k \in Call, Unreached(k) PROVE Types'
<1>1. "losses" \in Rare
  BY DEF Rare
<1>2. used' \in [Rare -> Nat] /\ \A g \in Rare : used'[g] <= Limit[g]
  BY <1>1, Spending DEF Unreached
<1>3. ASSUME calls[k].phase = "asking", calls' = [calls EXCEPT ![k] = GiveUp(@)]
      PROVE  CallsTyped
  BY <1>3, GivesUp
<1>4. ASSUME calls[k].phase = "ending", calls' = [calls EXCEPT ![k] = NextTry(@)]
      PROVE  CallsTyped
  <2>1. NextTry(calls[k]) \in CallState /\ Formed(NextTry(calls[k]))
    BY Typing, NextTried
  <2> QED BY <1>4, <2>1, OneMoves DEF Types
<1>5. CallsTyped
  BY <1>3, <1>4 DEF Unreached
<1> QED BY <1>2, <1>5 DEF Unreached, web, Types, CallsTyped

LEMMA UpstreamTyped ==
  ASSUME Types, NEW k \in Call, UpstreamRefuses(k) \/ UpstreamAccepts(k) \/ UpstreamDone(k)
  PROVE  Types'
<1>1. CASE UpstreamRefuses(k)
  <2>1. FailsOver(calls[k]) \in CallState /\ Formed(FailsOver(calls[k]))
    BY <1>1, Typing, FailsOverType DEF UpstreamRefuses
  <2>2. CallsTyped
    BY <1>1, <2>1, OneMoves DEF UpstreamRefuses, Types
  <2> QED BY <1>1, <2>2 DEF UpstreamRefuses, web, Types, CallsTyped
<1>2. CASE UpstreamAccepts(k)
  <2> DEFINE d == [calls[k] EXCEPT !.phase = "streaming"]
  <2>1. d \in CallState /\ Formed(d) /\ calls[k].key \in Holder /\ calls[k].cred \in Cred
    BY <1>2, Typing, StreamingType DEF UpstreamAccepts, Formed
  <2>2. calls' = [calls EXCEPT ![k] = d]
    BY <1>2 DEF UpstreamAccepts
  <2> HIDE DEF d
  <2>3. CallsTyped
    BY <2>1, <2>2, OneMoves
  <2>4. remembered' \in [Holder -> Cred \cup {NoCred}]
    BY <1>2, <2>1 DEF UpstreamAccepts, Types
  <2> QED BY <1>2, <2>3, <2>4 DEF UpstreamAccepts, web, Types, CallsTyped
<1>3. CASE UpstreamDone(k)
  <2>1. CallsTyped
    BY <1>3, GivesUp DEF UpstreamDone
  <2> QED BY <1>3, <2>1 DEF UpstreamDone, web, Types, CallsTyped
<1> QED BY <1>1, <1>2, <1>3

LEMMA CrashTyped == ASSUME Types, Crash PROVE Types'
<1>1. "crashes" \in Rare
  BY DEF Rare
<1>2. used' \in [Rare -> Nat] /\ \A g \in Rare : used'[g] <= Limit[g]
  BY <1>1, Spending DEF Crash
<1>3. CallsTyped
  BY IdleType DEF Crash, CallsTyped
<1> QED BY <1>2, <1>3 DEF Crash, web, Types, CallsTyped

\* A row as old as the binding, or the last answer, is one unit later.
OlderRow(r) == [r EXCEPT !.age = IF r = NoRow THEN 0 ELSE OneOlder(@, Keep)]

LEMMA OlderRowType ==
  ASSUME NEW r \in Row
  PROVE  OlderRow(r) \in Row /\ OlderRow(r).cred = r.cred
         /\ (r.cred # NoCred => OlderRow(r).age = OneOlder(r.age, Keep))
<1> DEFINE a == IF r = NoRow THEN 0 ELSE OneOlder(r.age, Keep)
<1>1. a \in 0..Keep
  BY RowTypes, KeepType
<1>2. r.cred # NoCred => r # NoRow
  BY RowTypes
<1>3. OlderRow(r) = [r EXCEPT !.age = a]
  BY DEF OlderRow
<1>4. r.cred # NoCred => a = OneOlder(r.age, Keep)
  BY <1>2
<1> HIDE DEF a
<1> QED BY <1>1, <1>3, <1>4 DEF Row

LEMMA Ticking ==
  ASSUME Types, Tick
  PROVE  /\ seats' = Aged(seats) /\ boots' = AgedBoots(boots)
         /\ binding' = [h \in Holder |-> OlderRow(binding[h])]
         /\ last' = [h \in Holder |-> OlderRow(last[h])]
         /\ UNCHANGED <<restored, calls, remembered, proc, used>>
BY DEF Tick, go, OlderRow

LEMMA TickTyped == ASSUME Types, Tick PROVE Types'
<1>1. seats' \in Book /\ boots' \in Watch
  BY Typing, Ticking, AgedType, WatchTypes
<1>2. binding' \in [Holder -> Row] /\ last' \in [Holder -> Row]
  BY Typing, Ticking, OlderRowType
<1> QED BY <1>1, <1>2, Ticking DEF Types

LEMMA TypesStep == ASSUME Types, [CpNext]_vars PROVE Types'
<1>1. CASE UNCHANGED vars
  BY <1>1 DEF vars, web, go, Types
<1>2. CASE CpNext
  BY <1>2, StartTyped, ReadTyped, NoPoolTyped, StickTyped, RankTyped, EndTyped, UnreachedTyped,
     UpstreamTyped, LookingTyped, RestartTyped, CrashTyped, TickTyped DEF CpNext
<1> QED BY <1>1, <1>2

LEMMA TypesBegin ==
  ASSUME NEW spent \in [Rare -> Nat], \A f \in Rare : spent[f] <= Limit[f], Beginning(spent)
  PROVE  Types
<1>1. EmptySeats \in Book /\ NoBoots \in Watch
  BY BlankType DEF EmptySeats, NoBoots, Book, Watch
<1> QED BY <1>1, IdleType, RowTypes DEF Beginning, Types

LEMMA TypesEnough == Types => CpTypeOK
BY DEF Types, CpTypeOK, Book, Watch

\* Seats, bindings, handlers and limits are well typed whatever gets lost, restarts,
\* refuses or hangs.
THEOREM CpTyped == CpSpec => []CpTypeOK
<1>1. CpInit => Types
  <2>1. [f \in Rare |-> 0] \in [Rare -> Nat] /\ DOMAIN Limit = Rare
    OBVIOUS
  <2> QED BY <2>1, TypesBegin DEF CpInit
<1> QED BY <1>1, TypesStep, TypesEnough, PTL DEF CpSpec
-----------------------------------------------------------------------------
(* In the calm *)

\* No call fails over.
Mild(c) ==
  /\ ~c.release /\ ~c.dropped /\ c.excluded = {}
  /\ c.phase \in {"asking", "picking"} => c.cred = NoCred
  /\ c.phase = "asking" => c.due = NoCred

Calm ==
  /\ used["acks"] = Limit["acks"] /\ used["restarts"] = Limit["restarts"]
  /\ boots[proc] < BootStale /\ \A k \in Call : Mild(calls[k])

LEMMA MildCalls ==
  /\ Mild(IdleCall)
  /\ \A h \in Holder : Mild(Begins(h)) /\ Begins(h).key = h /\ Begins(h).phase = "asking"
                     /\ Begins(h).due = NoCred
  /\ \A c \in CallState :
       /\ Mild(GiveUp(c)) /\ (c.cred = NoCred => GiveUp(c) = IdleCall)
       /\ GiveUp(c).phase \in {"idle", "ending"} /\ GiveUp(c).due = NoCred
       /\ GiveUp(c).phase = "ending" => GiveUp(c).cred = c.cred /\ GiveUp(c).key = c.key
<1>1. Mild(IdleCall)
  BY DEF IdleCall, Mild
<1>2. ASSUME NEW h \in Holder
      PROVE  Mild(Begins(h)) /\ Begins(h).key = h /\ Begins(h).phase = "asking"
             /\ Begins(h).due = NoCred
  BY DEF Begins, IdleCall, Mild
<1>3. ASSUME NEW c \in CallState
      PROVE  /\ Mild(GiveUp(c)) /\ (c.cred = NoCred => GiveUp(c) = IdleCall)
             /\ GiveUp(c).phase \in {"idle", "ending"} /\ GiveUp(c).due = NoCred
             /\ GiveUp(c).phase = "ending" => GiveUp(c).cred = c.cred /\ GiveUp(c).key = c.key
  BY DEF GiveUp, IdleCall, Mild
<1> QED BY <1>1, <1>2, <1>3

LEMMA MildTries ==
  ASSUME NEW c \in CallState, Mild(c), c.phase = "ending"
  PROVE  /\ Mild(NextTry(c)) /\ NextTry(c).phase \in {"idle", "ending"}
         /\ NextTry(c).phase = "ending" => NextTry(c).cred = c.cred /\ NextTry(c).key = c.key
<1>1. NextTry(c) = [c EXCEPT !.tries = c.tries - 1] \/ NextTry(c) = IdleCall
  BY DEF NextTry
<1>2. ASSUME NEW n, NextTry(c) = [c EXCEPT !.tries = n]
      PROVE  /\ Mild(NextTry(c)) /\ NextTry(c).phase \in {"idle", "ending"}
             /\ NextTry(c).phase = "ending" =>
                  NextTry(c).cred = c.cred /\ NextTry(c).key = c.key
  BY <1>2 DEF Mild, CallState
<1> QED BY <1>1, <1>2, MildCalls, IdleType

LEMMA MildAnswers ==
  ASSUME NEW c \in CallState, Mild(c)
  PROVE  /\ \A chosen \in Cred :
              LET d == Served(c, chosen)
              IN Mild(d) /\ d.phase = "serving" /\ d.key = c.key /\ d.cred = chosen
                 /\ d.due = c.due
         /\ LET d == [c EXCEPT !.alone = FALSE]
            IN /\ Mild(d) /\ d.phase = c.phase /\ d.key = c.key /\ d.cred = c.cred
               /\ d.due = c.due /\ d.view = c.view /\ (d.stick <=> c.stick) /\ ~d.alone
         /\ LET d == [c EXCEPT !.phase = "streaming"]
            IN Mild(d) /\ d.phase = "streaming" /\ d.key = c.key /\ d.cred = c.cred
               /\ d.due = c.due
BY DEF Mild, CallState, Served

LEMMA MildLooks ==
  ASSUME NEW c \in CallState, Mild(c), c.phase = "asking", NEW row, NEW alone \in BOOLEAN
  PROVE  LET d == Looked(c, row, alone)
         IN /\ Mild(d) /\ d.phase = "picking" /\ d.key = c.key /\ d.cred = NoCred
            /\ d.view = row.cred /\ d.due = Promised(c) /\ (d.alone <=> alone)
            /\ d.stick <=> row.cred \in Cred /\ row.age < Dwell
<1> DEFINE forget == c.release /\ row.cred = c.current
           sticks == ~forget /\ row.cred \in Pool(c) /\ row.age < Dwell
           due == Promised(c)
           d == [c EXCEPT !.phase = "picking", !.view = row.cred, !.dropped = forget,
                          !.stick = sticks, !.due = due, !.alone = alone]
<1>1. Looked(c, row, alone) = d
  BY DEF Looked
<1>2. forget = FALSE /\ (sticks <=> row.cred \in Cred /\ row.age < Dwell)
  BY DEF Mild, Pool
<1> HIDE DEF forget, sticks, due
<1>3. /\ d.phase = "picking" /\ d.key = c.key /\ d.cred = c.cred /\ d.view = row.cred
      /\ d.due = due /\ d.alone = alone /\ d.stick = sticks /\ d.release = c.release
      /\ d.dropped = forget /\ d.excluded = c.excluded
  BY DEF CallState
<1> HIDE DEF d
<1>4. Mild(d) /\ d.cred = NoCred
  BY <1>2, <1>3 DEF Mild
<1> QED BY <1>1, <1>2, <1>3, <1>4 DEF due

\* Neither a heartbeat nor reaping makes a live boot dead.
LEMMA BootsLive ==
  ASSUME NEW b \in Watch, NEW x \in Boot, b[x] < BootStale
  PROVE  /\ BootsAfterReap(b)[x] < BootStale
         /\ \A y \in Boot : Noted(b, y)[x] < BootStale
<1>1. BootsAfterReap(b)[x] = b[x]
  BY DEF BootsAfterReap, DeadBoots, Watch
<1>2. ASSUME NEW y \in Boot PROVE Noted(b, y)[x] \in {b[x], 0}
  BY DEF Noted, Watch
<1> QED BY <1>1, <1>2
-----------------------------------------------------------------------------
(* What a resolve or a look spares *)

\* A seat of s at which boot x has calls keeps them in t, and is not too old there.
Spares(s, t, x) ==
  \A p \in Pair : s[p].inflight[x] > 0 /\ s[p].idle < MaxInflight =>
                 t[p].inflight[x] >= s[p].inflight[x] /\ t[p].idle < MaxInflight

LEMMA BookNumbers ==
  ASSUME NEW s \in Book, NEW x \in Boot, NEW p \in Pair
  PROVE  s[p].inflight[x] \in Nat /\ s[p].idle \in Nat
BY BoundTypes DEF Book, Seat

LEMMA SparesThen ==
  ASSUME NEW s \in Book, NEW t \in Book, NEW u \in Book, NEW x \in Boot,
         Spares(s, t, x), Spares(t, u, x)
  PROVE  Spares(s, u, x)
<1> SUFFICES ASSUME NEW p \in Pair, s[p].inflight[x] > 0, s[p].idle < MaxInflight
             PROVE  u[p].inflight[x] >= s[p].inflight[x] /\ u[p].idle < MaxInflight
  BY DEF Spares
<1>1. /\ s[p].inflight[x] \in Nat /\ t[p].inflight[x] \in Nat /\ u[p].inflight[x] \in Nat
  BY BookNumbers
<1>2. t[p].inflight[x] >= s[p].inflight[x] /\ t[p].idle < MaxInflight
  BY DEF Spares
<1>3. t[p].inflight[x] > 0
  BY <1>1, <1>2
<1>4. u[p].inflight[x] >= t[p].inflight[x] /\ u[p].idle < MaxInflight
  BY <1>2, <1>3 DEF Spares
<1> QED BY <1>1, <1>2, <1>4

\* A live boot's calls outlast an expiry.
LEMMA ExpirySpares ==
  ASSUME NEW s \in Book, NEW b \in Watch, NEW x \in Boot, b[x] < BootStale
  PROVE  Spares(s, Expired(s, b, Ttl), x)
<1> SUFFICES ASSUME NEW p \in Pair, s[p].inflight[x] > 0, s[p].idle < MaxInflight
             PROVE  /\ Expired(s, b, Ttl)[p].inflight[x] = s[p].inflight[x]
                    /\ Expired(s, b, Ttl)[p].idle < MaxInflight
  BY BookNumbers DEF Spares
<1> DEFINE r == ReapSeat(s[p], b)
<1>1. s[p] \in Seat
  BY DEF Book
<1>2. x \notin DeadBoots(b)
  BY DEF DeadBoots, Watch, Unknown
<1>3. r.inflight[x] = s[p].inflight[x] /\ r.idle = s[p].idle
  BY <1>1, <1>2 DEF ReapSeat, Seat
<1>4. Busy(r) /\ Alive(r, Ttl)
  BY <1>3 DEF Busy, Alive
<1>5. Expired(s, b, Ttl)[p] = r
  BY <1>4 DEF Expired, Reaped
<1> QED BY <1>3, <1>5

\* A question that gives nothing up leaves every call where it is.
LEMMA AnswerSpares ==
  ASSUME NEW s \in Book, NEW q \in Question, q.held = NoCred, ~q.pinned, ~q.release,
         NEW x \in Boot
  PROVE  Spares(s, SeatsAfter(s, q), x)
<1> DEFINE c == Assigned(s, q)
           p0 == <<q.holder, OnTable(q, c)>>
<1>1. Settled(s, q) = s
  BY DEF Settled, Occupy, OnTable, Released
<1>2. SeatsAfter(s, q) = Occupy(s, q, c)
  BY <1>1 DEF SeatsAfter
<1> HIDE DEF c
<1>3. ASSUME NEW p \in Pair
      PROVE  Occupy(s, q, c)[p] \in {s[p], SeatSeen(s[p], c)} /\ s[p] \in Seat
  BY DEF Occupy, Book
<1>4. ASSUME NEW seat \in Seat
      PROVE  SeatSeen(seat, c).inflight = seat.inflight /\ SeatSeen(seat, c).idle = 0
  BY DEF SeatSeen, Seat
<1>5. 0 < MaxInflight
  OBVIOUS
<1> QED BY <1>2, <1>3, <1>4, <1>5, BookNumbers DEF Spares

LEMMA LeavingSpares ==
  ASSUME NEW s \in Book, NEW c, NEW chosen, NEW x \in Boot
  PROVE  Spares(s, LeftBehind(s, c, chosen), x)
BY LeavingBehind, BookNumbers DEF Spares, Busy

LEMMA RestoringSpares ==
  ASSUME Types, NEW x \in Boot
  PROVE  Spares(seats, RestoredSeats, x)
BY Typing, Restoring, BookNumbers DEF Spares

LEMMA SameSpares ==
  ASSUME NEW s \in Book, NEW x \in Boot
  PROVE  Spares(s, s, x)
BY BookNumbers DEF Spares

\* Counting one more call spares those there are.
LEMMA BeginCounts ==
  ASSUME Types, NEW s \in Book, NEW k \in Call, calls[k].phase # "idle", NEW c \in Cred
  PROVE  LET p0 == <<calls[k].key, AccountOf[c]>>
         IN /\ Spares(s, Begin(s, k, c), proc)
            /\ \A p \in Pair \ {p0} : Begin(s, k, c)[p] = s[p]
            /\ p0 \in Pair => /\ Begin(s, k, c)[p0].idle = 0
                             /\ Begin(s, k, c)[p0].inflight[proc] = s[p0].inflight[proc] + 1
<1> DEFINE h == calls[k].key
           p0 == <<h, AccountOf[c]>>
           n == SeatBegun(s[p0], c, proc, Keep)
<1>1. CASE AccountOf[c] = NoAccount
  <2>1. p0 \notin Pair
    BY <1>1 DEF Pair
  <2>2. Begin(s, k, c) = s
    BY <1>1 DEF Begin, Began
  <2> QED BY <2>1, <2>2, Typing, SameSpares
<1>2. CASE AccountOf[c] # NoAccount
  <2>1. p0 \in Pair /\ s[p0] \in Seat /\ proc \in Boot
    BY <1>2, Typing DEF Formed, Pair, Book
  <2>2. Begin(s, k, c) = [s EXCEPT ![p0] = n]
    BY <1>2 DEF Begin, Began
  <2>3. n.idle = 0 /\ n.inflight[proc] = s[p0].inflight[proc] + 1
    BY <2>1 DEF SeatBegun, Seat
  <2> HIDE DEF n
  <2>4. \A p \in Pair : Begin(s, k, c)[p] = IF p = p0 THEN n ELSE s[p]
    BY <2>2 DEF Book
  <2>5. 0 < MaxInflight
    OBVIOUS
  <2>6. Spares(s, Begin(s, k, c), proc)
    <3> SUFFICES ASSUME NEW p \in Pair, s[p].inflight[proc] > 0, s[p].idle < MaxInflight
                 PROVE  /\ Begin(s, k, c)[p].inflight[proc] >= s[p].inflight[proc]
                        /\ Begin(s, k, c)[p].idle < MaxInflight
      BY DEF Spares
    <3>1. s[p].inflight[proc] \in Nat
      BY <2>1, BookNumbers
    <3> QED BY <2>3, <2>4, <2>5, <3>1
  <2> QED BY <2>1, <2>3, <2>4, <2>6
<1> QED BY <1>1, <1>2

LEMMA BooksSpare ==
  ASSUME Types, Calm, NEW k \in Call, calls[k].phase = "picking"
  PROVE  /\ calls[k].stick => StickBook(k) \in Book /\ Spares(seats, StickBook(k), proc)
         /\ \A ranked \in Orders(Pool(calls[k])) :
              RankBook(k, ranked) \in Book /\ Spares(seats, RankBook(k, ranked), proc)
<1> DEFINE s == Expired(seats, boots, Ttl)
<1>1. s \in Book /\ Spares(seats, s, proc) /\ seats \in Book /\ proc \in Boot
  BY Typing, ExpiredType, ExpirySpares DEF Calm
<1>2. ASSUME NEW q \in Question, q.held = NoCred, ~q.pinned, ~q.release
      PROVE  SeatsAfter(s, q) \in Book /\ Spares(seats, SeatsAfter(s, q), proc)
  <2> HIDE DEF s
  <2>1. Spares(s, SeatsAfter(s, q), proc)
    BY <1>1, <1>2, AnswerSpares
  <2> QED BY <1>1, <2>1, SeatsAfterType, SparesThen
<1>3. ASSUME calls[k].stick
      PROVE  StickBook(k) \in Book /\ Spares(seats, StickBook(k), proc)
  BY <1>2, <1>3, StickQuestion DEF StickBook
<1>4. ASSUME NEW ranked \in Orders(Pool(calls[k]))
      PROVE  RankBook(k, ranked) \in Book /\ Spares(seats, RankBook(k, ranked), proc)
  BY <1>2, RankQuestion DEF RankBook
<1> QED BY <1>3, <1>4
-----------------------------------------------------------------------------
(* The steps in the calm *)

Open(k) == calls[k].phase \in {"serving", "streaming", "ending"}

\* k is done, or has its end still to report.
Drops(k) ==
  /\ Spares(seats, seats', proc) /\ UNCHANGED <<last, proc>>
  /\ \E d \in CallState :
       /\ calls' = [calls EXCEPT ![k] = d]
       /\ Mild(d) /\ d.phase \in {"idle", "ending"}
       /\ d.phase = "ending" => Open(k) /\ d.key = calls[k].key /\ d.cred = calls[k].cred

Reads(k) ==
  /\ Spares(seats, seats', proc) /\ UNCHANGED <<binding, last, proc>>
  /\ calls[k].phase = "asking"
  /\ calls' = [j \in Call |->
                 IF j = k THEN Looked(calls[k], binding[calls[k].key], Rivals(k) = {})
                 ELSE IF j \in Rivals(k) THEN [calls[j] EXCEPT !.alone = FALSE]
                 ELSE calls[j]]

\* k is counted on the seat of c; the answer may be lost.
Answers(k, c) ==
  /\ calls[k].phase = "picking"
  /\ calls[k].stick => c = calls[k].view
  /\ \E t \in Book : Spares(seats, t, proc) /\ seats' = Begin(t, k, c)
  /\ ~RowConflict(calls[k])
  /\ binding' = [binding EXCEPT ![calls[k].key] = WrittenRow(calls[k], c)]
  /\ Answered(k, c) /\ UNCHANGED proc

Looks ==
  Spares(seats, seats', proc) /\ UNCHANGED <<binding, last, proc, calls>>

LEMMA CalmReads ==
  ASSUME Types, Calm, NEW k \in Call, ResolveRead(k)
  PROVE  Reads(k) /\ boots' = Noted(boots, proc)
<1>1. calls[k].phase = "asking" /\ ~calls[k].release
  BY DEF ResolveRead, Calm, Mild
<1>2. seats' = RestoredSeats /\ boots' = Noted(boots, proc)
  BY <1>1 DEF ResolveRead, LeaveSeats
<1> QED BY <1>1, <1>2, Typing, RestoringSpares DEF ResolveRead, Reads

LEMMA CalmGivesUp ==
  ASSUME Types, Calm, NEW k \in Call,
         calls[k].phase \in {"asking", "picking", "serving", "streaming"},
         calls' = [calls EXCEPT ![k] = GiveUp(@)],
         Spares(seats, seats', proc), UNCHANGED <<last, proc>>
  PROVE  Drops(k)
<1> DEFINE d == GiveUp(calls[k])
<1>1. calls[k] \in CallState /\ Formed(calls[k]) /\ Mild(calls[k])
  BY Typing DEF Calm
<1>2. /\ d \in CallState /\ Mild(d) /\ d.phase \in {"idle", "ending"}
      /\ d.phase = "ending" => d.cred = calls[k].cred /\ d.key = calls[k].key
      /\ calls[k].cred = NoCred => d = IdleCall
  BY <1>1, GivenUp, MildCalls
<1>3. d.phase = "ending" => Open(k)
  BY <1>1, <1>2, IdleType DEF Open, Mild
<1>4. calls' = [calls EXCEPT ![k] = d]
  BY DEF Types
<1> HIDE DEF d
<1> QED BY <1>2, <1>3, <1>4 DEF Drops

LEMMA CalmNoPool ==
  ASSUME Types, Calm, NEW k \in Call, ResolveNoPool(k)
  PROVE  Drops(k) /\ boots' = Noted(boots, proc) /\ UNCHANGED binding
BY Typing, RestoringSpares, CalmGivesUp DEF ResolveNoPool

LEMMA CalmSticks ==
  ASSUME Types, Calm, NEW k \in Call, ResolveStick(k)
  PROVE  \/ Drops(k) /\ UNCHANGED binding
         \/ \E c \in Cred : Answers(k, c)
<1> DEFINE c == calls[k].view
           t == StickBook(k)
<1>1. calls[k].phase = "picking" /\ calls[k].stick /\ c \in Cred
  BY StickQuestion DEF ResolveStick
<1>2. t \in Book /\ Spares(seats, t, proc)
  BY <1>1, BooksSpare
<1>3. seats' = Begin(t, k, c) /\ UNCHANGED proc
  BY DEF ResolveStick, StickBook
<1>4. CASE Refused(k) /\ UNCHANGED binding
  <2>1. Spares(t, Begin(t, k, c), proc) /\ Begin(t, k, c) \in Book
    <3>1. CallFits(t, calls[k].key, c)
      BY DEF ResolveStick, StickBook
    <3> HIDE DEF t, c
    <3> QED BY <1>1, <1>2, <3>1, Begun, BeginCounts
  <2>2. Spares(seats, seats', proc)
    <3> HIDE DEF t, c
    <3> QED BY <1>2, <1>3, <2>1, SparesThen, Typing
  <2>3. Drops(k)
    BY <1>1, <1>3, <1>4, <2>2, CalmGivesUp DEF Refused
  <2> QED BY <1>4, <2>3
<1>5. CASE /\ ~RowConflict(calls[k]) /\ Answered(k, c)
           /\ binding' = [binding EXCEPT ![calls[k].key] = WrittenRow(calls[k], c)]
  <2> HIDE DEF t
  <2>1. Answers(k, c)
    BY <1>1, <1>2, <1>3, <1>5 DEF Answers
  <2> QED BY <1>1, <2>1
<1> QED BY <1>4, <1>5 DEF ResolveStick

LEMMA CalmRanks ==
  ASSUME Types, Calm, NEW k \in Call, ResolveRank(k)
  PROVE  \/ Drops(k) /\ UNCHANGED binding
         \/ \E c \in Cred : Answers(k, c)
<1>1. calls[k].phase = "picking" /\ ~calls[k].stick /\ UNCHANGED proc
  BY DEF ResolveRank
<1>2. PICK ranked \in Orders(Pool(calls[k])), chosen \in Cred \cup {NoCred} :
           /\ RankBook(k, ranked) \in Book
           /\ \/ RanksNone(k, ranked)
              \/ chosen \in Cred /\ RanksInVain(k, ranked, chosen)
              \/ chosen \in Cred /\ RanksFirst(k, ranked, chosen)
  BY Ranking
<1> DEFINE t == RankBook(k, ranked)
           u == LeftBehind(t, calls[k], chosen)
<1>3. t \in Book /\ Spares(seats, t, proc)
  BY <1>1, BooksSpare
<1>4. u \in Book /\ Spares(seats, u, proc)
  <2> HIDE DEF t
  <2>1. u \in Book /\ Spares(t, u, proc)
    BY <1>3, Typing, LeavingBehind, LeavingSpares
  <2> HIDE DEF u
  <2> QED BY <1>3, <2>1, Typing, SparesThen
<1>5. CASE RanksNone(k, ranked)
  BY <1>1, <1>3, <1>5, CalmGivesUp DEF RanksNone, Refused
<1>6. CASE RanksInVain(k, ranked, chosen)
  BY <1>1, <1>4, <1>6, CalmGivesUp DEF RanksInVain, Refused
<1>7. CASE chosen \in Cred /\ RanksFirst(k, ranked, chosen)
  <2>1. /\ seats' = Begin(u, k, chosen) /\ ~RowConflict(calls[k]) /\ Answered(k, chosen)
        /\ binding' = [binding EXCEPT ![calls[k].key] = WrittenRow(calls[k], chosen)]
    BY <1>7 DEF RanksFirst
  <2> HIDE DEF u
  <2>2. Answers(k, chosen)
    BY <1>1, <1>4, <1>7, <2>1 DEF Answers
  <2> QED BY <1>7, <2>2
<1> QED BY <1>2, <1>5, <1>6, <1>7

\* The end of k is counted and answered.
Ends(k) ==
  LET c == calls[k]
      bound == binding[c.key].cred = c.cred
  IN /\ c.phase = "ending" /\ UNCHANGED <<last, proc>>
     /\ seats' = Ended(seats, c.key, c.cred, proc, Keep, bound)
     /\ binding' = IF bound THEN [binding EXCEPT ![c.key].age = 0] ELSE binding
     /\ calls' = [calls EXCEPT ![k] = IdleCall]

LEMMA Unspent ==
  ASSUME Types, Calm
  PROVE  ~Spend("acks") /\ ~Spend("restarts")
<1>1. used["acks"] \in Nat /\ used["restarts"] \in Nat
  BY DEF Types, Rare
<1> QED BY <1>1 DEF Calm, Spend

LEMMA CalmEnds ==
  ASSUME Types, Calm, NEW k \in Call, EndReceived(k)
  PROVE  Ends(k)
BY Unspent DEF EndReceived, Ends

LEMMA CalmMisses ==
  ASSUME Types, Calm, NEW k \in Call, Unreached(k)
  PROVE  Drops(k) /\ UNCHANGED binding
<1>1. Spares(seats, seats', proc) /\ UNCHANGED <<binding, last, proc, boots>>
  BY Typing, SameSpares DEF Unreached, web
<1>2. CASE calls[k].phase = "asking" /\ calls' = [calls EXCEPT ![k] = GiveUp(@)]
  BY <1>1, <1>2, CalmGivesUp
<1>3. CASE calls[k].phase = "ending" /\ calls' = [calls EXCEPT ![k] = NextTry(@)]
  <2> DEFINE d == NextTry(calls[k])
  <2>1. calls[k] \in CallState /\ Formed(calls[k]) /\ Mild(calls[k])
    BY Typing DEF Calm
  <2>2. /\ d \in CallState /\ Mild(d) /\ d.phase \in {"idle", "ending"}
        /\ d.phase = "ending" => d.cred = calls[k].cred /\ d.key = calls[k].key
    BY <1>3, <2>1, NextTried, MildTries
  <2>3. calls' = [calls EXCEPT ![k] = d] /\ Open(k)
    BY <1>3 DEF Types, Open
  <2> HIDE DEF d
  <2> QED BY <1>1, <2>2, <2>3 DEF Drops
<1> QED BY <1>2, <1>3 DEF Unreached

LEMMA CalmFinishes ==
  ASSUME Types, Calm, NEW k \in Call, UpstreamDone(k)
  PROVE  Drops(k) /\ UNCHANGED binding
<1>1. Spares(seats, seats', proc) /\ UNCHANGED <<binding, last, proc>>
  BY Typing, SameSpares DEF UpstreamDone, web
<1> QED BY <1>1, CalmGivesUp DEF UpstreamDone

LEMMA CalmLooks == ASSUME Types, Calm, Heartbeat \/ Board PROVE Looks
<1>1. CASE Heartbeat
  BY <1>1, Typing, SameSpares DEF Heartbeat, Looks, go
<1>2. CASE Board
  <2>1. RestoredSeats \in Book /\ Spares(seats, RestoredSeats, proc)
    BY Typing, Restoring, RestoringSpares
  <2>2. seats' = Expired(RestoredSeats, boots, Ttl) /\ UNCHANGED <<binding, last, proc, calls>>
    BY <1>2 DEF Board, go
  <2>3. Spares(RestoredSeats, seats', proc) /\ seats' \in Book
    <3> DEFINE s == RestoredSeats
    <3>1. s \in Book
      BY <2>1
    <3>2. seats' = Expired(s, boots, Ttl)
      BY <2>2
    <3> HIDE DEF s
    <3>3. Spares(s, seats', proc) /\ seats' \in Book
      BY <3>1, <3>2, Typing, ExpiredType, ExpirySpares DEF Calm
    <3> QED BY <3>3 DEF s
  <2> QED BY <2>1, <2>2, <2>3, Typing, SparesThen DEF Looks
<1> QED BY <1>1, <1>2

\* Every step of the calm is one of these.
LEMMA CalmCases ==
  ASSUME Types, Calm, CpNext, CalmStep
  PROVE  \/ \E k \in Call, h \in Holder : Start(k, h)
         \/ \E k \in Call : Reads(k) \/ Ends(k) \/ UpstreamAccepts(k)
                            \/ (Drops(k) /\ UNCHANGED binding)
         \/ \E k \in Call, c \in Cred : Answers(k, c)
         \/ Looks \/ Crash \/ Tick
<1>1. ~WebRestart /\ \A k \in Call : ~UpstreamRefuses(k)
  BY Unspent DEF WebRestart, CalmStep
<1> QED BY <1>1, CalmReads, CalmNoPool, CalmSticks, CalmRanks, CalmEnds, CalmMisses,
           CalmFinishes, CalmLooks DEF CpNext

-----------------------------------------------------------------------------
(* The calm lasts *)

LEMMA CalmBoots ==
  ASSUME Types, Calm, CpNext
  PROVE  boots'[proc'] < BootStale
<1>1. /\ boots \in Watch /\ proc \in Boot /\ boots[proc] < BootStale
      /\ Noted(boots, proc) \in Watch /\ BootsAfterReap(boots) \in Watch
  BY Typing DEF Calm
<1>2. /\ Noted(boots, proc)[proc] < BootStale /\ BootsAfterReap(boots)[proc] < BootStale
  BY <1>1, BootsLive
<1>3. /\ BootsAfterReap(Noted(boots, proc))[proc] < BootStale
      /\ Noted(BootsAfterReap(boots), proc)[proc] < BootStale
  BY <1>1, <1>2, BootsLive
<1>4. ASSUME Crash PROVE boots'[proc'] < BootStale
  BY <1>4 DEF Crash, web, Unknown
<1>5. ASSUME Tick PROVE boots'[proc'] < BootStale
  <2>1. boots' = AgedBoots(boots) /\ UNCHANGED proc
    BY <1>5, Ticking
  <2>2. boots[proc] # Unknown => boots[proc] + 1 < BootStale
    BY <1>5 DEF Tick
  <2>3. boots[proc] \in 0..SilenceBound \cup {Unknown} /\ SilenceBound \in Nat
    BY <1>1, BoundTypes DEF Watch
  <2>4. boots'[proc'] = IF boots[proc] = Unknown THEN Unknown
                        ELSE OneOlder(boots[proc], SilenceBound)
    BY <1>1, <2>1 DEF AgedBoots
  <2>5. OneOlder(boots[proc], SilenceBound) <= boots[proc] + 1 \/ boots[proc] = Unknown
    BY <2>3 DEF OneOlder
  <2>6. OneOlder(boots[proc], SilenceBound) \in Int
    BY <2>3 DEF OneOlder, Unknown
  <2> QED BY <1>1, <2>2, <2>3, <2>4, <2>5, <2>6 DEF Unknown
<1>6. ~WebRestart
  BY Unspent DEF WebRestart
<1>7. ASSUME UNCHANGED proc,
             boots' \in {boots, Noted(boots, proc), BootsAfterReap(boots),
                         BootsAfterReap(Noted(boots, proc)), Noted(BootsAfterReap(boots), proc)}
      PROVE  boots'[proc'] < BootStale
  BY <1>1, <1>2, <1>3, <1>7
<1>8. ASSUME NEW k \in Call, NEW h \in Holder, Start(k, h) PROVE boots'[proc'] < BootStale
  BY <1>7, <1>8 DEF Start, web
<1>9. ASSUME NEW k \in Call, ResolveRead(k) \/ ResolveNoPool(k)
      PROVE  boots'[proc'] < BootStale
  BY <1>7, <1>9 DEF ResolveRead, ResolveNoPool
<1>10. ASSUME NEW k \in Call, ResolveStick(k) \/ ResolveRank(k) \/ EndReceived(k)
       PROVE  boots'[proc'] < BootStale
  BY <1>7, <1>10 DEF ResolveStick, ResolveRank, EndReceived
<1>11. ASSUME NEW k \in Call,
              Unreached(k) \/ UpstreamRefuses(k) \/ UpstreamAccepts(k) \/ UpstreamDone(k)
       PROVE  boots'[proc'] < BootStale
  BY <1>7, <1>11 DEF Unreached, UpstreamRefuses, UpstreamAccepts, UpstreamDone, web
<1>12. ASSUME Heartbeat \/ Board PROVE boots'[proc'] < BootStale
  BY <1>7, <1>12 DEF Heartbeat, Board, go
<1> QED BY <1>4, <1>5, <1>6, <1>8, <1>9, <1>10, <1>11, <1>12 DEF CpNext

LEMMA CalmUsed ==
  ASSUME Types, Calm, CpNext
  PROVE  used'["acks"] = Limit["acks"] /\ used'["restarts"] = Limit["restarts"]
<1>1. used \in [Rare -> Nat] /\ {"acks", "restarts"} \subseteq Rare
  BY DEF Types, Rare
<1>2. ASSUME NEW f \in Rare, Spend(f)
      PROVE  UNCHANGED <<used["acks"], used["restarts"]>>
  <2>1. f # "acks" /\ f # "restarts"
    BY <1>2, Unspent
  <2> QED BY <1>1, <1>2, <2>1 DEF Spend
<1>3. UNCHANGED used \/ \E f \in Rare : Spend(f)
  <2>1. {"starts", "losses", "acks", "restarts", "crashes"} \subseteq Rare
    BY DEF Rare
  <2>2. \A k \in Call : \A c : Answered(k, c) \/ Refused(k) => UNCHANGED used \/ Spend("losses")
    BY DEF Answered, Refused
  <2>3. \A k \in Call : ResolveStick(k) \/ ResolveRank(k) => UNCHANGED used \/ Spend("losses")
    BY <2>2 DEF ResolveStick, ResolveRank
  <2>4. \A k \in Call, h \in Holder : Start(k, h) => Spend("starts")
    BY DEF Start
  <2>5. \A k \in Call : /\ ResolveRead(k) \/ ResolveNoPool(k) => UNCHANGED used
                        /\ EndReceived(k) => UNCHANGED used \/ Spend("acks")
                        /\ Unreached(k) => Spend("losses")
    BY DEF ResolveRead, ResolveNoPool, EndReceived, Unreached
  <2>6. \A k \in Call : UpstreamRefuses(k) \/ UpstreamAccepts(k) \/ UpstreamDone(k)
                          => UNCHANGED used
    BY DEF UpstreamRefuses, UpstreamAccepts, UpstreamDone
  <2>7. /\ Heartbeat \/ Board \/ Tick => UNCHANGED used
        /\ Crash => Spend("crashes")
        /\ WebRestart => Spend("restarts")
    BY DEF Heartbeat, Board, Tick, Crash, WebRestart
  <2> QED BY <2>1, <2>3, <2>4, <2>5, <2>6, <2>7 DEF CpNext
<1> QED BY <1>2, <1>3 DEF Calm

LEMMA CalmLasts ==
  ASSUME Types, Calm, CpNext, CalmStep
  PROVE  Calm'
<1> SUFFICES \A j \in Call : Mild(calls'[j])
  BY CalmBoots, CalmUsed DEF Calm
<1>1. /\ calls \in [Call -> CallState]
      /\ \A j \in Call : calls[j] \in CallState /\ Formed(calls[j]) /\ Mild(calls[j])
  BY Typing DEF Calm, Types
<1>2. ASSUME NEW k \in Call, NEW d, Mild(d), calls' = [calls EXCEPT ![k] = d]
      PROVE  \A j \in Call : Mild(calls'[j])
  BY <1>1, <1>2
<1>3. ASSUME NEW k \in Call, NEW h \in Holder, Start(k, h)
      PROVE  \A j \in Call : Mild(calls'[j])
  BY <1>2, <1>3, MildCalls DEF Start
<1>4. ASSUME NEW k \in Call, Reads(k)
      PROVE  \A j \in Call : Mild(calls'[j])
  <2> DEFINE d == Looked(calls[k], binding[calls[k].key], Rivals(k) = {})
  <2>1. Mild(d)
    <3>1. \A alone \in BOOLEAN : Mild(Looked(calls[k], binding[calls[k].key], alone))
      BY <1>1, <1>4, MildLooks DEF Reads
    <3> QED BY <3>1
  <2>2. \A j \in Call : calls'[j] \in {d, [calls[j] EXCEPT !.alone = FALSE], calls[j]}
    BY <1>4 DEF Reads
  <2>3. \A j \in Call : Mild([calls[j] EXCEPT !.alone = FALSE])
    BY <1>1, MildAnswers
  <2> HIDE DEF d
  <2> QED BY <1>1, <2>1, <2>2, <2>3
<1>5. ASSUME NEW k \in Call, Ends(k)
      PROVE  \A j \in Call : Mild(calls'[j])
  BY <1>2, <1>5, MildCalls DEF Ends
<1>6. ASSUME NEW k \in Call, UpstreamAccepts(k)
      PROVE  \A j \in Call : Mild(calls'[j])
  <2> DEFINE d == [calls[k] EXCEPT !.phase = "streaming"]
  <2>1. Mild(d) /\ calls' = [calls EXCEPT ![k] = d]
    BY <1>1, <1>6, MildAnswers DEF UpstreamAccepts
  <2> HIDE DEF d
  <2> QED BY <1>2, <2>1
<1>7. ASSUME NEW k \in Call, Drops(k)
      PROVE  \A j \in Call : Mild(calls'[j])
  BY <1>2, <1>7 DEF Drops
<1>8. ASSUME NEW k \in Call, NEW c \in Cred, Answers(k, c)
      PROVE  \A j \in Call : Mild(calls'[j])
  <2>1. Mild(Served(calls[k], c)) /\ Mild(GiveUp(calls[k]))
    BY <1>1, MildAnswers, MildCalls
  <2>2. \/ calls' = [calls EXCEPT ![k] = Served(calls[k], c)]
        \/ calls' = [calls EXCEPT ![k] = GiveUp(calls[k])]
    BY <1>1, <1>8 DEF Answers, Answered
  <2> QED BY <1>2, <2>1, <2>2
<1>9. ASSUME Looks \/ Crash \/ Tick PROVE \A j \in Call : Mild(calls'[j])
  BY <1>1, <1>9, MildCalls, Ticking DEF Looks, Crash
<1> QED BY <1>3, <1>4, <1>5, <1>6, <1>7, <1>8, <1>9, CalmCases

-----------------------------------------------------------------------------
(* Every call is counted *)

OpenOn(p) == {k \in Call : Open(k) /\ SeatOf(k) = p}

\* Every open call is counted on its seat, and a seat with one is not too old.
Counted ==
  /\ \A k \in Call : Open(k) /\ SeatOf(k) \in Pair => seats[SeatOf(k)].idle < MaxInflight
  /\ \A p \in Pair : Cardinality(OpenOn(p)) <= seats[p].inflight[proc]

LEMMA OpenFinite ==
  /\ \A p \in Pair : IsFiniteSet(OpenOn(p)) /\ Cardinality(OpenOn(p)) \in Nat
  /\ \A p \in Pair : IsFiniteSet(OpenOn(p)') /\ Cardinality(OpenOn(p)') \in Nat
<1>1. \A p \in Pair : OpenOn(p) \subseteq Call /\ OpenOn(p)' \subseteq Call
  BY DEF OpenOn
<1> QED BY <1>1, FS_Subset, FS_CardinalityType

\* What spares the calls of the data plane leaves as many as are open.
LEMMA SparedCount ==
  ASSUME Types, Counted, NEW t \in Book, Spares(seats, t, proc), NEW p \in Pair
  PROVE  /\ Cardinality(OpenOn(p)) <= t[p].inflight[proc]
         /\ OpenOn(p) # {} => t[p].idle < MaxInflight
<1>1. /\ seats[p].inflight[proc] \in Nat /\ t[p].inflight[proc] \in Nat
      /\ Cardinality(OpenOn(p)) <= seats[p].inflight[proc]
  BY Typing, BookNumbers DEF Counted
<1>2. Cardinality(OpenOn(p)) \in Nat /\ (Cardinality(OpenOn(p)) = 0 <=> OpenOn(p) = {})
  BY OpenFinite, FS_EmptySet
<1>3. CASE OpenOn(p) = {}
  BY <1>1, <1>2, <1>3
<1>4. CASE OpenOn(p) # {}
  <2>1. PICK j \in Call : Open(j) /\ SeatOf(j) = p
    BY <1>4 DEF OpenOn
  <2>2. seats[p].idle < MaxInflight /\ seats[p].inflight[proc] > 0
    BY <1>1, <1>2, <1>4, <2>1 DEF Counted
  <2>3. t[p].inflight[proc] >= seats[p].inflight[proc] /\ t[p].idle < MaxInflight
    BY <2>2 DEF Spares
  <2> QED BY <1>1, <1>2, <2>3
<1> QED BY <1>3, <1>4

\* It is enough to look at the seats.
LEMMA SeatBySeat ==
  ASSUME \A p \in Pair : /\ Cardinality(OpenOn(p)') <= seats'[p].inflight[proc']
                         /\ OpenOn(p)' # {} => seats'[p].idle < MaxInflight
  PROVE  Counted'
<1>1. ASSUME NEW j \in Call, Open(j)', SeatOf(j)' \in Pair
      PROVE  (seats[SeatOf(j)].idle)' < MaxInflight
  <2>1. \A p \in Pair : SeatOf(j)' = p => j \in OpenOn(p)'
    BY <1>1 DEF OpenOn
  <2> QED BY <1>1, <2>1
<1> QED BY <1>1 DEF Counted

\* Where no call opens, the count holds as long as the open ones are spared.
LEMMA CountedSpared ==
  ASSUME Types, Types', Counted, Spares(seats, seats', proc), UNCHANGED proc,
         \A j \in Call : Open(j)' => Open(j) /\ SeatOf(j)' = SeatOf(j)
  PROVE  Counted'
<1> SUFFICES ASSUME NEW p \in Pair
             PROVE  /\ Cardinality(OpenOn(p)') <= seats'[p].inflight[proc']
                    /\ OpenOn(p)' # {} => seats'[p].idle < MaxInflight
  BY SeatBySeat
<1>1. OpenOn(p)' \subseteq OpenOn(p)
  BY DEF OpenOn
<1>2. Cardinality(OpenOn(p)') <= Cardinality(OpenOn(p)) /\ Cardinality(OpenOn(p)') \in Nat
      /\ Cardinality(OpenOn(p)) \in Nat
  BY <1>1, OpenFinite, FS_Subset
<1>3. /\ Cardinality(OpenOn(p)) <= seats'[p].inflight[proc]
      /\ OpenOn(p) # {} => seats'[p].idle < MaxInflight
  BY SparedCount DEF Types
<1>4. seats'[p].inflight[proc] \in Nat
  BY BookNumbers DEF Types
<1> QED BY <1>1, <1>2, <1>3, <1>4

LEMMA CountedAnswers ==
  ASSUME Types, Types', Calm, Counted, NEW k \in Call, NEW c \in Cred, Answers(k, c)
  PROVE  Counted'
<1> DEFINE p0 == <<calls[k].key, AccountOf[c]>>
<1>1. /\ calls \in [Call -> CallState] /\ calls[k] \in CallState /\ Mild(calls[k])
      /\ calls[k].phase = "picking" /\ calls[k].phase # "idle" /\ ~Open(k) /\ UNCHANGED proc
      /\ calls[k].cred = NoCred
  <2>1. calls \in [Call -> CallState] /\ calls[k] \in CallState /\ Mild(calls[k])
    BY Typing DEF Types, Calm
  <2>2. calls[k].phase = "picking" /\ UNCHANGED proc
    BY DEF Answers
  <2> QED BY <2>1, <2>2 DEF Open, Mild
<1>2. PICK t \in Book : Spares(seats, t, proc) /\ seats' = Begin(t, k, c)
  BY DEF Answers
<1>3. \A j \in Call : Open(j)' => \/ j # k /\ Open(j) /\ SeatOf(j)' = SeatOf(j)
                                  \/ j = k /\ SeatOf(j)' = p0
  <2>1. /\ Served(calls[k], c).key = calls[k].key /\ Served(calls[k], c).cred = c
        /\ GiveUp(calls[k]).phase = "idle"
    <3>1. \A d \in Cred : /\ Served(calls[k], d).key = calls[k].key
                          /\ Served(calls[k], d).cred = d
      BY <1>1 DEF Served, CallState
    <3>2. GiveUp(calls[k]) = IdleCall
      BY <1>1, MildCalls
    <3> QED BY <3>1, <3>2, IdleType
  <2>2. \/ calls' = [calls EXCEPT ![k] = Served(calls[k], c)]
        \/ calls' = [calls EXCEPT ![k] = GiveUp(calls[k])]
    BY DEF Answers, Answered
  <2> QED BY <1>1, <2>1, <2>2 DEF Open, SeatOf
<1> SUFFICES ASSUME NEW p \in Pair
             PROVE  /\ Cardinality(OpenOn(p)') <= seats'[p].inflight[proc']
                    /\ OpenOn(p)' # {} => seats'[p].idle < MaxInflight
  BY SeatBySeat
<1>4. /\ Cardinality(OpenOn(p)) <= t[p].inflight[proc]
      /\ OpenOn(p) # {} => t[p].idle < MaxInflight
  BY <1>2, SparedCount
<1>5. /\ Spares(t, Begin(t, k, c), proc)
      /\ p # p0 => Begin(t, k, c)[p] = t[p]
      /\ p = p0 => /\ Begin(t, k, c)[p].idle = 0
                   /\ Begin(t, k, c)[p].inflight[proc] = t[p].inflight[proc] + 1
  <2>1. calls[k].phase # "idle"
    BY <1>1
  <2>2. \A s \in Book :
          /\ Spares(s, Begin(s, k, c), proc)
          /\ \A q \in Pair \ {p0} : Begin(s, k, c)[q] = s[q]
          /\ p0 \in Pair => /\ Begin(s, k, c)[p0].idle = 0
                           /\ Begin(s, k, c)[p0].inflight[proc] = s[p0].inflight[proc] + 1
    BY <2>1, BeginCounts
  <2> QED BY <1>2, <2>2
<1>6. /\ t[p].inflight[proc] \in Nat /\ Cardinality(OpenOn(p)) \in Nat /\ 0 < MaxInflight
      /\ Cardinality(OpenOn(p)') \in Nat /\ k \notin OpenOn(p)
      /\ IsFiniteSet(OpenOn(p)) /\ IsFiniteSet(OpenOn(p)')
  BY <1>1, <1>2, Typing, BookNumbers, OpenFinite DEF OpenOn
<1>7. CASE p # p0
  <2>1. OpenOn(p)' \subseteq OpenOn(p)
    BY <1>3, <1>7 DEF OpenOn
  <2>2. Cardinality(OpenOn(p)') <= Cardinality(OpenOn(p))
    BY <1>6, <2>1, FS_Subset
  <2> QED BY <1>1, <1>2, <1>4, <1>5, <1>6, <1>7, <2>1, <2>2
<1>8. CASE p = p0
  <2>1. OpenOn(p)' \subseteq OpenOn(p) \cup {k}
    BY <1>3, <1>8 DEF OpenOn
  <2>2. IsFiniteSet(OpenOn(p) \cup {k})
        /\ Cardinality(OpenOn(p) \cup {k}) = Cardinality(OpenOn(p)) + 1
    BY <1>6, FS_AddElement
  <2>3. Cardinality(OpenOn(p)') <= Cardinality(OpenOn(p)) + 1
    BY <2>1, <2>2, FS_Subset
  <2> QED BY <1>1, <1>2, <1>4, <1>5, <1>6, <1>8, <2>3
<1> QED BY <1>7, <1>8

LEMMA EndCounts ==
  ASSUME NEW s \in Book, NEW h \in Holder, NEW c \in Cred, NEW x \in Boot,
         NEW keep \in 0..MaxHold, NEW recreate \in BOOLEAN, NEW p \in Pair
  PROVE  LET t == Ended(s, h, c, x, keep, recreate)
             p0 == <<h, AccountOf[c]>>
         IN \/ t[p] = s[p]
            \/ /\ p = p0 /\ t[p].idle = 0
               /\ t[p].inflight[x] = IF s[p].inflight[x] > 0 THEN s[p].inflight[x] - 1 ELSE 0
<1> DEFINE p0 == <<h, AccountOf[c]>>
           n == SeatEnded(s[p0], c, x, keep)
<1>1. CASE AccountOf[c] = NoAccount \/ (~Taken(s, p0) /\ ~recreate)
  BY <1>1 DEF Ended
<1>2. CASE ~(AccountOf[c] = NoAccount \/ (~Taken(s, p0) /\ ~recreate))
  <2>1. p0 \in Pair /\ s[p0] \in Seat
    BY <1>2 DEF Pair, Book
  <2>2. n.idle = 0
        /\ n.inflight[x] = IF s[p0].inflight[x] > 0 THEN s[p0].inflight[x] - 1 ELSE 0
    BY <2>1 DEF SeatEnded, Seat
  <2>3. Ended(s, h, c, x, keep, recreate) = [s EXCEPT ![p0] = n]
    BY <1>2 DEF Ended
  <2> HIDE DEF n
  <2> QED BY <2>1, <2>2, <2>3 DEF Book
<1> QED BY <1>1, <1>2

LEMMA CountedEnds ==
  ASSUME Types, Types', Calm, Counted, NEW k \in Call, Ends(k)
  PROVE  Counted'
<1> DEFINE c == calls[k]
           bound == binding[c.key].cred = c.cred
           p0 == SeatOf(k)
<1>1. /\ calls \in [Call -> CallState] /\ c.phase = "ending" /\ Open(k) /\ UNCHANGED proc
      /\ c.key \in Holder /\ c.cred \in Cred /\ bound \in BOOLEAN
      /\ calls' = [calls EXCEPT ![k] = IdleCall]
      /\ seats' = Ended(seats, c.key, c.cred, proc, Keep, bound)
      /\ p0 = <<c.key, AccountOf[c.cred]>>
  BY Typing DEF Types, Ends, Open, Formed, SeatOf
<1>2. \A j \in Call : Open(j)' => j # k /\ Open(j) /\ SeatOf(j)' = SeatOf(j)
  BY <1>1, IdleType DEF Open, SeatOf
<1> SUFFICES ASSUME NEW p \in Pair
             PROVE  /\ Cardinality(OpenOn(p)') <= seats'[p].inflight[proc']
                    /\ OpenOn(p)' # {} => seats'[p].idle < MaxInflight
  BY SeatBySeat
<1>3. \/ seats'[p] = seats[p]
      \/ /\ p = p0 /\ seats'[p].idle = 0
         /\ seats'[p].inflight[proc] = IF seats[p].inflight[proc] > 0
                                       THEN seats[p].inflight[proc] - 1 ELSE 0
  <2> HIDE DEF bound, c
  <2> QED BY <1>1, EndCounts, KeepType, Typing
<1>4. /\ Cardinality(OpenOn(p)) <= seats[p].inflight[proc]
      /\ OpenOn(p) # {} => seats[p].idle < MaxInflight
  BY Typing, SameSpares, SparedCount
<1>5. /\ seats[p].inflight[proc] \in Nat /\ Cardinality(OpenOn(p)) \in Nat /\ 0 < MaxInflight
      /\ Cardinality(OpenOn(p)') \in Nat /\ IsFiniteSet(OpenOn(p))
  BY Typing, BookNumbers, OpenFinite
<1>6. OpenOn(p)' \subseteq OpenOn(p) \ {k}
  BY <1>2 DEF OpenOn
<1>7. Cardinality(OpenOn(p)') <= Cardinality(OpenOn(p))
  BY <1>5, <1>6, FS_Subset
<1>8. ASSUME p = p0 PROVE Cardinality(OpenOn(p)') + 1 <= Cardinality(OpenOn(p))
  <2>1. k \in OpenOn(p)
    BY <1>1, <1>8 DEF OpenOn
  <2>2. Cardinality(OpenOn(p) \ {k}) = Cardinality(OpenOn(p)) - 1
        /\ IsFiniteSet(OpenOn(p) \ {k})
    BY <1>5, <2>1, FS_RemoveElement
  <2>3. Cardinality(OpenOn(p)') <= Cardinality(OpenOn(p) \ {k})
    BY <1>6, <2>2, FS_Subset
  <2> QED BY <1>5, <2>2, <2>3
<1>9. OpenOn(p)' # {} => OpenOn(p) # {}
  BY <1>6
<1> HIDE DEF c, bound, p0
<1>10. CASE seats'[p] = seats[p]
  BY <1>1, <1>4, <1>5, <1>7, <1>9, <1>10
<1>11. CASE seats'[p] # seats[p]
  BY <1>1, <1>3, <1>4, <1>5, <1>8, <1>11
<1> QED BY <1>10, <1>11

LEMMA CountedTick ==
  ASSUME Types, Types', Calm, Counted, Tick, CalmStep
  PROVE  Counted'
<1>1. seats' = Aged(seats) /\ UNCHANGED <<calls, proc>> /\ seats \in Book
  BY Ticking, Typing
<1>2. ASSUME NEW p \in Pair PROVE seats'[p].inflight = seats[p].inflight
  BY <1>1, AgedType
<1>3. \A p \in Pair : OpenOn(p)' = OpenOn(p)
  BY <1>1 DEF OpenOn, Open, SeatOf
<1>4. ASSUME NEW j \in Call, Open(j), SeatOf(j) \in Pair
      PROVE  seats'[SeatOf(j)].idle < MaxInflight
  <2>1. calls[j].phase # "ending"
    BY DEF Tick
  <2>2. Running(j) /\ calls'[j] = calls[j]
    BY <1>1, <1>4, <2>1 DEF Open, Running
  <2> QED BY <1>4, <2>2 DEF CalmStep, InTime
<1>5. ASSUME NEW p \in Pair
      PROVE  Cardinality(OpenOn(p)) <= seats'[p].inflight[proc]
  BY <1>2, <1>5 DEF Counted
<1>6. ASSUME NEW p \in Pair, OpenOn(p) # {} PROVE seats'[p].idle < MaxInflight
  <2>1. PICK j \in Call : Open(j) /\ SeatOf(j) = p
    BY <1>6 DEF OpenOn
  <2> QED BY <1>4, <2>1
<1> QED BY <1>1, <1>3, <1>5, <1>6, SeatBySeat

LEMMA CountedCrash ==
  ASSUME Types, Types', Crash
  PROVE  Counted'
<1>1. \A j \in Call : ~Open(j)'
  BY IdleType DEF Crash, Open
<1> SUFFICES ASSUME NEW p \in Pair
             PROVE  /\ Cardinality(OpenOn(p)') <= seats'[p].inflight[proc']
                    /\ OpenOn(p)' # {} => seats'[p].idle < MaxInflight
  BY SeatBySeat
<1>2. OpenOn(p)' = {}
  BY <1>1 DEF OpenOn
<1>3. seats'[p].inflight[proc'] \in Nat
  BY BookNumbers DEF Types
<1> QED BY <1>2, <1>3, FS_EmptySet

LEMMA CountedLasts ==
  ASSUME Types, Types', Calm, Counted, CpNext, CalmStep
  PROVE  Counted'
<1>1. /\ calls \in [Call -> CallState]
      /\ \A j \in Call : calls[j] \in CallState /\ Formed(calls[j]) /\ Mild(calls[j])
  BY Typing DEF Calm, Types
<1>2. seats \in Book /\ proc \in Boot
  BY Typing
<1>3. ASSUME NEW k \in Call, NEW h \in Holder, Start(k, h) PROVE Counted'
  <2>1. Spares(seats, seats', proc) /\ UNCHANGED proc
    BY <1>2, <1>3, SameSpares DEF Start, web
  <2>2. calls' = [calls EXCEPT ![k] = Begins(h)] /\ Begins(h).phase = "asking"
    BY <1>3, MildCalls DEF Start
  <2> QED BY <1>1, <2>1, <2>2, CountedSpared DEF Open, SeatOf
<1>4. ASSUME NEW k \in Call, Reads(k) PROVE Counted'
  <2> DEFINE d == Looked(calls[k], binding[calls[k].key], Rivals(k) = {})
  <2>1. d.phase = "picking"
    <3>1. \A alone \in BOOLEAN :
            Looked(calls[k], binding[calls[k].key], alone).phase = "picking"
      BY <1>1, <1>4, MildLooks DEF Reads
    <3> QED BY <3>1
  <2>2. \A j \in Call : calls'[j] \in {d, [calls[j] EXCEPT !.alone = FALSE], calls[j]}
    BY <1>4 DEF Reads
  <2>3. \A j \in Call : LET e == [calls[j] EXCEPT !.alone = FALSE]
                        IN e.phase = calls[j].phase /\ e.key = calls[j].key
                           /\ e.cred = calls[j].cred
    BY <1>1, MildAnswers
  <2> HIDE DEF d
  <2>4. \A j \in Call : Open(j)' => Open(j) /\ SeatOf(j)' = SeatOf(j)
    BY <2>1, <2>2, <2>3 DEF Open, SeatOf
  <2> QED BY <1>4, <2>4, CountedSpared DEF Reads
<1>5. ASSUME NEW k \in Call, UpstreamAccepts(k) PROVE Counted'
  <2> DEFINE d == [calls[k] EXCEPT !.phase = "streaming"]
  <2>1. Spares(seats, seats', proc) /\ UNCHANGED proc
    BY <1>2, <1>5, SameSpares DEF UpstreamAccepts, web
  <2>2. calls' = [calls EXCEPT ![k] = d] /\ d.key = calls[k].key /\ d.cred = calls[k].cred
        /\ calls[k].phase = "serving"
    BY <1>1, <1>5, MildAnswers DEF UpstreamAccepts
  <2> HIDE DEF d
  <2>3. \A j \in Call : Open(j)' => Open(j) /\ SeatOf(j)' = SeatOf(j)
    BY <1>1, <2>2 DEF Open, SeatOf
  <2> QED BY <2>1, <2>3, CountedSpared
<1>6. ASSUME NEW k \in Call, Drops(k) PROVE Counted'
  <2>1. PICK d \in CallState :
          /\ calls' = [calls EXCEPT ![k] = d] /\ d.phase \in {"idle", "ending"}
          /\ d.phase = "ending" => Open(k) /\ d.key = calls[k].key /\ d.cred = calls[k].cred
    BY <1>6 DEF Drops
  <2>2. \A j \in Call : Open(j)' => Open(j) /\ SeatOf(j)' = SeatOf(j)
    BY <1>1, <2>1 DEF Open, SeatOf
  <2> QED BY <1>6, <2>2, CountedSpared DEF Drops
<1>7. ASSUME Looks PROVE Counted'
  <2>1. \A j \in Call : Open(j)' => Open(j) /\ SeatOf(j)' = SeatOf(j)
    BY <1>7 DEF Looks, Open, SeatOf
  <2> QED BY <1>7, <2>1, CountedSpared DEF Looks
<1> QED BY <1>3, <1>4, <1>5, <1>6, <1>7, CalmCases, CountedAnswers, CountedEnds, CountedTick,
           CountedCrash

LEMMA CountedEnough == ASSUME Types, Counted PROVE CallsCounted
<1> SUFFICES ASSUME NEW p \in Pair
             PROVE  Cardinality({k \in Call : Running(k) /\ SeatOf(k) = p})
                      <= seats[p].inflight[proc]
  BY DEF CallsCounted
<1> DEFINE R == {k \in Call : Running(k) /\ SeatOf(k) = p}
<1>1. R \subseteq OpenOn(p)
  BY DEF OpenOn, Open, Running
<1>2. IsFiniteSet(R) /\ Cardinality(R) <= Cardinality(OpenOn(p)) /\ Cardinality(R) \in Nat
      /\ Cardinality(OpenOn(p)) \in Nat
  BY <1>1, OpenFinite, FS_Subset, FS_CardinalityType
<1>3. seats[p].inflight[proc] \in Nat /\ Cardinality(OpenOn(p)) <= seats[p].inflight[proc]
  BY Typing, BookNumbers DEF Counted
<1> QED BY <1>2, <1>3

-----------------------------------------------------------------------------
(* A key stays on its account within the dwell *)

Recent(h) == last[h].cred # NoCred /\ last[h].age < Dwell

\* A resolve that nobody overlapped has read the binding as it is; one that comes soon
\* after an answer has found the dwell running, on the account answered.
Picks(k) ==
  /\ calls[k].alone => binding[calls[k].key].cred = calls[k].view /\ Rivals(k) = {}
  /\ Recent(calls[k].key) => calls[k].stick /\ calls[k].view = last[calls[k].key].cred
  /\ calls[k].due # NoCred => calls[k].stick /\ calls[k].view = calls[k].due

\* The binding is at least as new as the last answer, and says the same.
Fresh(h) == Recent(h) => binding[h].cred = last[h].cred /\ binding[h].age <= last[h].age

Sticks ==
  /\ \A h \in Holder : Fresh(h)
  /\ \A k \in Call : calls[k].phase = "picking" => Picks(k)
  /\ StickyWithinDwell

\* Where bindings and answers stay and no call is looking or coming to run, nothing changes.
LEMMA SticksStay ==
  ASSUME Sticks, UNCHANGED last,
         \A h \in Holder : binding'[h].cred = binding[h].cred
                         /\ binding'[h].age \in {binding[h].age, 0},
         Types,
         \A j \in Call : /\ calls'[j].phase = "picking" => calls'[j] = calls[j]
                         /\ Running(j)' => /\ Running(j) /\ calls'[j].cred = calls[j].cred
                                           /\ calls'[j].due = calls[j].due
  PROVE  Sticks'
<1>1. ASSUME NEW h \in Holder PROVE Fresh(h)'
  <2>1. binding[h].age \in Nat /\ last[h].age \in Nat
    BY Typing, KeepType DEF Row
  <2> QED BY <2>1 DEF Sticks, Fresh, Recent
<1>2. ASSUME NEW k \in Call, calls'[k].phase = "picking" PROVE Picks(k)'
  <2>1. calls'[k] = calls[k] /\ Picks(k) /\ calls[k].key \in Holder
    BY <1>2, Typing DEF Sticks, Formed
  <2>2. Rivals(k)' \subseteq Rivals(k)
    BY <2>1 DEF Rivals
  <2> QED BY <2>1, <2>2 DEF Picks, Recent
<1>3. StickyWithinDwell'
  BY DEF Sticks, StickyWithinDwell
<1> QED BY <1>1, <1>2, <1>3 DEF Sticks

LEMMA SticksReads ==
  ASSUME Types, Calm, Sticks, NEW k \in Call, Reads(k)
  PROVE  Sticks'
<1> DEFINE c == calls[k]
           d == Looked(c, binding[c.key], Rivals(k) = {})
<1>1. /\ c \in CallState /\ Formed(c) /\ Mild(c) /\ c.phase = "asking" /\ c.key \in Holder
      /\ binding[c.key] \in Row /\ last[c.key] \in Row
      /\ UNCHANGED <<binding, last>>
  BY Typing DEF Calm, Reads, Formed
<1>2. calls' = [j \in Call |-> IF j = k THEN d
                              ELSE IF j \in Rivals(k) THEN [calls[j] EXCEPT !.alone = FALSE]
                              ELSE calls[j]]
  BY DEF Reads
<1>3. /\ d.phase = "picking" /\ d.key = c.key /\ d.view = binding[c.key].cred
      /\ d.due = Promised(c)
      /\ d.alone <=> Rivals(k) = {}
      /\ d.stick <=> binding[c.key].cred \in Cred /\ binding[c.key].age < Dwell
  <2>1. \A alone \in BOOLEAN :
          LET e == Looked(c, binding[c.key], alone)
          IN /\ e.phase = "picking" /\ e.key = c.key /\ e.view = binding[c.key].cred
             /\ e.due = Promised(c)
             /\ e.alone <=> alone
             /\ e.stick <=> binding[c.key].cred \in Cred /\ binding[c.key].age < Dwell
    BY <1>1, MildLooks
  <2> HIDE DEF c
  <2> QED BY <2>1
<1>4. \A j \in Call : LET e == [calls[j] EXCEPT !.alone = FALSE]
                      IN /\ e.phase = calls[j].phase /\ e.key = calls[j].key
                         /\ e.cred = calls[j].cred /\ e.due = calls[j].due
                         /\ e.view = calls[j].view /\ ~e.alone
                         /\ e.stick <=> calls[j].stick
  <2>1. \A j \in Call : calls[j] \in CallState /\ Mild(calls[j])
    BY Typing DEF Calm
  <2> QED BY <2>1, MildAnswers
<1> HIDE DEF d
<1>5. ASSUME NEW j \in Call \ {k}
      PROVE  /\ calls'[j].phase = calls[j].phase /\ calls'[j].key = calls[j].key
             /\ calls'[j].cred = calls[j].cred /\ calls'[j].due = calls[j].due
             /\ calls'[j].view = calls[j].view
             /\ calls'[j].stick <=> calls[j].stick
             /\ calls'[j].alone => calls[j].alone /\ j \notin Rivals(k)
  BY <1>2, <1>4
<1>6. calls'[k] = d
  BY <1>2
<1>7. ASSUME NEW h \in Holder PROVE Fresh(h)'
  BY <1>1 DEF Sticks, Fresh, Recent
<1>8. Picks(k)'
  <2>1. Recent(c.key) => d.stick /\ d.view = last[c.key].cred
    <3>1. /\ binding[c.key].age \in Nat /\ last[c.key].age \in Nat /\ Dwell \in Nat
          /\ last[c.key].cred \in Cred \cup {NoCred}
      BY <1>1, KeepType DEF Row
    <3>2. Fresh(c.key)
      BY <1>1 DEF Sticks
    <3> QED BY <1>3, <3>1, <3>2 DEF Fresh, Recent
  <2>2. d.due # NoCred => Recent(c.key) /\ d.due = last[c.key].cred
    BY <1>3 DEF Promised, Recent
  <2>3. Rivals(k)' = Rivals(k)
    BY <1>3, <1>5, <1>6 DEF Rivals
  <2>4. /\ d.alone => binding[c.key].cred = d.view /\ Rivals(k)' = {}
        /\ d.due # NoCred => d.stick /\ d.view = d.due
    BY <1>3, <2>1, <2>2, <2>3
  <2>5. calls'[k].key = c.key /\ binding' = binding /\ last' = last
    BY <1>1, <1>3, <1>6
  <2> HIDE DEF c
  <2> QED BY <1>6, <2>1, <2>4, <2>5 DEF Picks, Recent
<1>9. ASSUME NEW j \in Call \ {k}, calls'[j].phase = "picking" PROVE Picks(j)'
  <2>1. Picks(j) /\ calls[j].phase = "picking"
    BY <1>5, <1>9 DEF Sticks
  <2>2. calls'[j].alone => Rivals(j)' = {}
    <3>1. SUFFICES ASSUME calls'[j].alone, NEW i \in Rivals(j)' PROVE FALSE
      OBVIOUS
    <3>2. i \in Call \ {j} /\ calls'[i].phase = "picking" /\ calls'[i].key = calls'[j].key
      BY DEF Rivals
    <3>3. CASE i = k
      <4>1. j \in Rivals(k)
        BY <1>3, <1>5, <1>6, <2>1, <3>2, <3>3 DEF Rivals
      <4> QED BY <1>5, <3>1, <4>1
    <3>4. CASE i # k
      <4>1. i \in Rivals(j) /\ calls[j].alone
        BY <1>5, <3>1, <3>2, <3>4 DEF Rivals
      <4> QED BY <2>1, <4>1 DEF Picks
    <3> QED BY <3>3, <3>4
  <2> QED BY <1>1, <1>5, <2>1, <2>2 DEF Picks, Recent
<1>10. StickyWithinDwell'
  BY <1>3, <1>5, <1>6 DEF Sticks, StickyWithinDwell, Running
<1> QED BY <1>7, <1>8, <1>9, <1>10 DEF Sticks

LEMMA SticksAnswers ==
  ASSUME Types, Calm, Sticks, NEW k \in Call, NEW c \in Cred, Answers(k, c)
  PROVE  Sticks'
<1> DEFINE h == calls[k].key
           r == WrittenRow(calls[k], c)
<1>1. /\ calls[k] \in CallState /\ Formed(calls[k]) /\ Mild(calls[k])
      /\ calls \in [Call -> CallState] /\ calls[k].phase = "picking" /\ h \in Holder
      /\ ~calls[k].dropped /\ calls[k].cred = NoCred
  <2>1. /\ calls[k] \in CallState /\ Formed(calls[k]) /\ Mild(calls[k])
        /\ calls \in [Call -> CallState]
    BY Typing DEF Types, Calm
  <2>2. calls[k].phase = "picking"
    BY DEF Answers
  <2> QED BY <2>1, <2>2 DEF Formed, Mild
<1>2. Picks(k) /\ Fresh(h) /\ (calls[k].stick => c = calls[k].view)
  BY <1>1 DEF Sticks, Answers
<1>3. /\ r.age = 0
      /\ r.cred = IF calls[k].view = c THEN binding[h].cred ELSE c
  BY <1>1 DEF WrittenRow
<1>4. /\ binding' = [binding EXCEPT ![h] = r]
      /\ binding \in [Holder -> Row] /\ last \in [Holder -> Row]
  BY DEF Answers, Types
<1>5. /\ \/ calls' = [calls EXCEPT ![k] = Served(calls[k], c)]
         \/ calls' = [calls EXCEPT ![k] = IdleCall] /\ UNCHANGED last
      /\ \/ last' = [last EXCEPT ![h] = [cred |-> c, age |-> 0]] /\ calls[k].alone
         \/ last' = [last EXCEPT ![h] = NoRow]
         \/ UNCHANGED last
  <2>1. GiveUp(calls[k]) = IdleCall
    BY <1>1, MildCalls
  <2> QED BY <1>1, <2>1 DEF Answers, Answered
<1>6. /\ Served(calls[k], c).phase = "serving" /\ Served(calls[k], c).cred = c
      /\ Served(calls[k], c).due = calls[k].due
  BY <1>1 DEF Served, CallState
<1>7. ASSUME NEW g \in Holder PROVE Fresh(g)'
  <2>1. /\ binding[g].age \in Nat /\ last[g].age \in Nat /\ Dwell \in Nat
    BY <1>4, KeepType DEF Row
  <2>2. CASE g # h
    <3>1. binding'[g] = binding[g] /\ last'[g] = last[g] /\ Fresh(g)
      BY <1>1, <1>4, <1>5, <2>2 DEF Sticks
    <3> QED BY <3>1 DEF Fresh, Recent
  <2>3. CASE g = h
    <3>1. binding'[g] = r
      BY <1>1, <1>4, <2>3
    <3> HIDE DEF r, h
    <3>2. CASE last' = [last EXCEPT ![h] = [cred |-> c, age |-> 0]] /\ calls[k].alone
      <4>1. r.cred = c
        BY <1>2, <1>3, <3>2 DEF Picks, h
      <4>2. last'[g] = [cred |-> c, age |-> 0]
        BY <1>4, <2>3, <3>2
      <4> QED BY <1>3, <3>1, <4>1, <4>2 DEF Fresh, Recent
    <3>3. CASE last' = [last EXCEPT ![h] = NoRow]
      <4>1. last'[g].cred = NoCred
        BY <1>4, <2>3, <3>3, RowTypes
      <4> QED BY <4>1 DEF Fresh, Recent
    <3>4. CASE UNCHANGED last
      <4>1. Recent(h) => binding[h].cred = last[h].cred /\ calls[k].view = c
        BY <1>2 DEF Fresh, Picks, h
      <4>2. Recent(h) => r.cred = last[h].cred /\ r.age <= last[h].age
        BY <1>3, <2>1, <2>3, <4>1
      <4> QED BY <2>3, <3>1, <3>4, <4>2 DEF Fresh, Recent
    <3> QED BY <1>5, <3>2, <3>3, <3>4
  <2> QED BY <2>2, <2>3
<1>8. ASSUME NEW j \in Call, calls'[j].phase = "picking" PROVE Picks(j)'
  <2>1. j # k
    BY <1>1, <1>5, <1>6, <1>8, IdleType
  <2>2. /\ calls'[j] = calls[j] /\ Picks(j) /\ calls[j].key \in Holder
    BY <1>1, <1>5, <1>8, <2>1, Typing DEF Sticks, Formed
  <2>3. calls[j].key = h => ~calls[j].alone
    <3>1. calls[j].key = h => k \in Rivals(j)
      BY <1>1, <2>1 DEF Rivals
    <3> QED BY <2>2, <3>1 DEF Picks
  <2>4. Rivals(j)' \subseteq Rivals(j)
    <3>1. \A i \in Call : calls'[i].phase = "picking" => calls'[i] = calls[i]
      BY <1>1, <1>5, <1>6, IdleType
    <3> QED BY <2>2, <3>1 DEF Rivals
  <2>5. CASE calls[j].key # h
    <3>1. binding'[calls[j].key] = binding[calls[j].key]
          /\ last'[calls[j].key] = last[calls[j].key]
      BY <1>4, <1>5, <2>2, <2>5
    <3> QED BY <2>2, <2>4, <3>1 DEF Picks, Recent
  <2>6. CASE calls[j].key = h
    <3>1. last' = last \/ last'[h].cred = NoCred
      <4>1. ~calls[k].alone
        <5>1. j \in Rivals(k)
          BY <1>1, <1>8, <2>1, <2>2, <2>6 DEF Rivals
        <5> QED BY <1>2, <5>1 DEF Picks
      <4> QED BY <1>1, <1>4, <1>5, <4>1, RowTypes
    <3> HIDE DEF h
    <3> QED BY <2>2, <2>3, <2>6, <3>1 DEF Picks, Recent
  <2> QED BY <2>5, <2>6
<1>9. StickyWithinDwell'
  <2>1. ASSUME NEW j \in Call, Running(j)', calls'[j].due # NoCred
        PROVE  calls'[j].cred = calls'[j].due
    <3>1. CASE j = k
      <4>1. calls'[j] = Served(calls[k], c)
        BY <1>1, <1>5, <2>1, <3>1, IdleType DEF Running
      <4> QED BY <1>2, <1>6, <2>1, <3>1, <4>1 DEF Picks
    <3>2. CASE j # k
      <4>1. calls'[j] = calls[j]
        BY <1>1, <1>5, <3>2
      <4> QED BY <2>1, <4>1 DEF Sticks, StickyWithinDwell, Running
    <3> QED BY <3>1, <3>2
  <2> QED BY <2>1 DEF StickyWithinDwell
<1> QED BY <1>7, <1>8, <1>9 DEF Sticks

LEMMA SticksTick ==
  ASSUME Types, Sticks, Tick
  PROVE  Sticks'
<1>1. ASSUME NEW h \in Holder PROVE Fresh(h)'
  <2>1. /\ binding[h] \in Row /\ last[h] \in Row
        /\ binding'[h] = OlderRow(binding[h]) /\ last'[h] = OlderRow(last[h])
    BY Typing, Ticking
  <2>2. /\ last'[h].cred = last[h].cred /\ binding'[h].cred = binding[h].cred
        /\ last[h].cred # NoCred => last'[h].age = OneOlder(last[h].age, Keep)
        /\ binding[h].cred # NoCred => binding'[h].age = OneOlder(binding[h].age, Keep)
    BY <2>1, OlderRowType
  <2>3. /\ binding[h].age \in 0..Keep /\ last[h].age \in 0..Keep /\ Keep \in Nat /\ Dwell \in Nat
        /\ Dwell <= Keep
    BY <2>1, KeepType DEF Row
  <2>4. OneOlder(last[h].age, Keep) >= last[h].age /\ OneOlder(last[h].age, Keep) \in Nat
    BY <2>3 DEF OneOlder
  <2>5. binding[h].age <= last[h].age =>
          OneOlder(binding[h].age, Keep) <= OneOlder(last[h].age, Keep)
    BY <2>3 DEF OneOlder
  <2>6. Recent(h)' => Recent(h)
    BY <2>2, <2>3, <2>4 DEF Recent
  <2> QED BY <2>2, <2>5, <2>6 DEF Sticks, Fresh, Recent
<1>2. ASSUME NEW k \in Call, calls'[k].phase = "picking" PROVE FALSE
  BY <1>2, Ticking DEF Tick
<1>3. StickyWithinDwell'
  BY Ticking DEF Sticks, StickyWithinDwell, Running
<1> QED BY <1>1, <1>2, <1>3 DEF Sticks

LEMMA SticksLast ==
  ASSUME Types, Calm, Sticks, CpNext, CalmStep
  PROVE  Sticks'
<1>1. /\ calls \in [Call -> CallState] /\ binding \in [Holder -> Row]
      /\ \A j \in Call : calls[j] \in CallState /\ Formed(calls[j]) /\ Mild(calls[j])
  BY Typing DEF Calm, Types
<1>2. ASSUME NEW k \in Call, NEW h \in Holder, Start(k, h) PROVE Sticks'
  <2>1. calls' = [calls EXCEPT ![k] = Begins(h)] /\ Begins(h).phase = "asking"
        /\ UNCHANGED <<binding, last>>
    BY <1>2, MildCalls DEF Start, web
  <2> QED BY <1>1, <2>1, SticksStay DEF Running
<1>3. ASSUME NEW k \in Call, UpstreamAccepts(k) PROVE Sticks'
  <2> DEFINE d == [calls[k] EXCEPT !.phase = "streaming"]
  <2>1. /\ calls' = [calls EXCEPT ![k] = d] /\ d.phase = "streaming" /\ d.cred = calls[k].cred
        /\ d.due = calls[k].due /\ calls[k].phase = "serving" /\ UNCHANGED <<binding, last>>
    BY <1>1, <1>3, MildAnswers DEF UpstreamAccepts, web
  <2> HIDE DEF d
  <2>2. \A j \in Call : /\ calls'[j].phase = "picking" => calls'[j] = calls[j]
                        /\ Running(j)' => /\ Running(j) /\ calls'[j].cred = calls[j].cred
                                          /\ calls'[j].due = calls[j].due
    BY <1>1, <2>1 DEF Running
  <2> QED BY <2>1, <2>2, SticksStay
<1>4. ASSUME NEW k \in Call, Drops(k), UNCHANGED binding PROVE Sticks'
  <2>1. PICK d \in CallState :
          calls' = [calls EXCEPT ![k] = d] /\ d.phase \in {"idle", "ending"}
    BY <1>4 DEF Drops
  <2>2. UNCHANGED last
    BY <1>4 DEF Drops
  <2>3. \A j \in Call : /\ calls'[j].phase = "picking" => calls'[j] = calls[j]
                        /\ Running(j)' => Running(j) /\ calls'[j] = calls[j]
    BY <1>1, <2>1 DEF Running
  <2> QED BY <1>4, <2>2, <2>3, SticksStay
<1>5. ASSUME NEW k \in Call, Ends(k) PROVE Sticks'
  <2>1. /\ calls' = [calls EXCEPT ![k] = IdleCall] /\ UNCHANGED last
        /\ binding' = binding \/ binding' = [binding EXCEPT ![calls[k].key].age = 0]
    BY <1>5 DEF Ends
  <2>2. \A h \in Holder : binding'[h].cred = binding[h].cred
                        /\ binding'[h].age \in {binding[h].age, 0}
    BY <1>1, <2>1 DEF Row
  <2>3. \A j \in Call : /\ calls'[j].phase = "picking" => calls'[j] = calls[j]
                        /\ Running(j)' => Running(j) /\ calls'[j] = calls[j]
    BY <1>1, <2>1, IdleType DEF Running
  <2> QED BY <2>1, <2>2, <2>3, SticksStay
<1>6. ASSUME Looks PROVE Sticks'
  BY <1>6, SticksStay DEF Looks, Running
<1>7. ASSUME Crash PROVE Sticks'
  <2>1. \A j \in Call : calls'[j].phase = "idle"
    BY <1>7, IdleType DEF Crash
  <2>2. UNCHANGED <<binding, last>>
    BY <1>7 DEF Crash, web
  <2> QED BY <2>1, <2>2, SticksStay DEF Running
<1> QED BY <1>2, <1>3, <1>4, <1>5, <1>6, <1>7, CalmCases, SticksReads, SticksAnswers, SticksTick

-----------------------------------------------------------------------------
(* The scenes *)

SceneInv == Types /\ (scene = "calm" => Calm /\ Counted /\ Sticks)

LEMMA SceneStart == ASSUME ScenesAssumption, SceneInit PROVE SceneInv
<1>1. /\ CalmSpent \in [Rare -> Nat] /\ \A f \in Rare : CalmSpent[f] <= Limit[f]
      /\ CalmSpent["acks"] = Limit["acks"] /\ CalmSpent["restarts"] = Limit["restarts"]
  BY DEF ScenesAssumption, CalmSpent, Scene, Rare
<1>2. CASE scene = "calm" /\ Beginning(CalmSpent)
  <2>1. Types
    BY <1>1, <1>2, TypesBegin
  <2>2. \A k \in Call : calls[k] = IdleCall
    BY <1>2 DEF Beginning
  <2>3. Calm
    <3>1. boots[proc] = Unknown /\ used = CalmSpent
      BY <1>2 DEF Beginning, NoBoots
    <3> QED BY <1>1, <2>2, <3>1, MildCalls DEF Calm, Unknown
  <2>4. Counted
    <3>1. \A p \in Pair : OpenOn(p) = {} /\ seats[p].inflight[proc] \in Nat
      BY <2>1, <2>2, IdleType, Typing, BookNumbers DEF OpenOn, Open
    <3>2. \A k \in Call : ~Open(k)
      BY <2>2, IdleType DEF Open
    <3>3. \A p \in Pair : Cardinality(OpenOn(p)) = 0
      BY <3>1, FS_EmptySet
    <3>4. \A p \in Pair : Cardinality(OpenOn(p)) <= seats[p].inflight[proc]
      BY <3>1, <3>3
    <3> QED BY <3>2, <3>4 DEF Counted
  <2>5. Sticks
    <3>1. \A h \in Holder : last[h].cred = NoCred
      BY <1>2, RowTypes DEF Beginning
    <3> QED BY <2>2, <3>1, IdleType DEF Sticks, Fresh, Recent, StickyWithinDwell, Running
  <2> QED BY <2>1, <2>3, <2>4, <2>5 DEF SceneInv
<1>3. CASE scene = "storm" /\ Beginning(Spent["storm"])
  <2>1. Spent["storm"] \in [Rare -> Nat] /\ \A f \in Rare : Spent["storm"][f] <= Limit[f]
    BY DEF ScenesAssumption, Scene
  <2> QED BY <1>3, <2>1, TypesBegin DEF SceneInv
<1> QED BY <1>2, <1>3 DEF SceneInit

LEMMA SceneStep == ASSUME SceneInv, [SceneNext]_sceneVars PROVE SceneInv'
<1>1. CASE UNCHANGED sceneVars
  <2>1. UNCHANGED <<seats, boots, restored, binding, calls, remembered, proc, last, used, scene>>
    BY <1>1 DEF sceneVars, vars, web, go
  <2>2. Types => Types'
    BY <2>1 DEF Types
  <2>3. Calm => Calm'
    BY <2>1 DEF Calm
  <2>4. Counted => Counted'
    BY <2>1 DEF Counted, OpenOn, Open, SeatOf
  <2>5. Sticks => Sticks'
    BY <2>1 DEF Sticks, Fresh, Picks, Recent, Rivals, StickyWithinDwell, Running
  <2> QED BY <2>1, <2>2, <2>3, <2>4, <2>5 DEF SceneInv
<1>2. CASE SceneNext
  <2>1. Types' /\ CpNext /\ UNCHANGED scene
    BY <1>2, TypesStep DEF SceneNext, SceneInv
  <2>2. ASSUME scene = "calm" PROVE Calm' /\ Counted' /\ Sticks'
    BY <1>2, <2>1, <2>2, CalmLasts, CountedLasts, SticksLast DEF SceneNext, SceneInv
  <2> QED BY <2>1, <2>2 DEF SceneInv
<1> QED BY <1>1, <1>2

\* Where no upstream hangs and no reply to an end is lost, no call ends another's count
\* or is left uncounted, for any number of handlers, keys and accounts.
THEOREM CallsAreCounted == SceneSpec => []CountedInCalm
<1>1. SceneInv => CountedInCalm
  BY CountedEnough DEF SceneInv, CountedInCalm
<1> QED BY <1>1, SceneStart, SceneStep, ScenesAssumption, PTL DEF SceneSpec

\* Where no upstream refuses, two requests of a key less than the dwell apart go to the
\* same account, however many resolves interleave, get lost or die with the data plane.
THEOREM DwellIsKept == SceneSpec => []StickyInCalm
<1>1. SceneInv => StickyInCalm
  BY DEF SceneInv, Sticks, StickyInCalm
<1> QED BY <1>1, SceneStart, SceneStep, ScenesAssumption, PTL DEF SceneSpec
=============================================================================
