----------------------------- MODULE Occupancy -----------------------------
(***************************************************************************)
(* The process-wide OccupancyBook of Pulse Web (pulse/proxy/occupancy.py)  *)
(* under every call its users make: seat_assignment (Cursor sessions),     *)
(* sticky_pick (Coding Plan calls), the boards that count seats, and the   *)
(* boot id every internal request carries.  Callers are not constrained:   *)
(* requests reach the book in any order, late, twice or never.             *)
(***************************************************************************)
EXTENDS SeatBook

CONSTANTS
  Questions,  \* what choose may be asked, a set of Question records
  Ttls,       \* concurrent_ttl_seconds of the teams; 0 turns expiry off
  Holds,      \* hold_seconds of the teams
  MaxCap      \* the largest max_concurrent_users of any team

ASSUME OccupancyAssumption ==
  /\ Questions \subseteq Question
  /\ Ttls \subseteq 0..MaxTtl
  /\ Holds \subseteq 0..MaxHold
  /\ MaxCap \in Nat
  /\ \A q \in Questions : q.cap <= MaxCap

\* Both callers read the accounts of the credentials they rank from the
\* credential table.  Only the credential being left may be without one: the
\* gateway passes "" for it once it is no longer in the pool.
ASSUME RankedFromTheTable ==
  \A q \in Questions : \A i \in DOMAIN q.ranked :
    q.ranked[i] # Released(q) => q.table[q.ranked[i]] = AccountOf[q.ranked[i]]

VARIABLES
  seats,     \* _seats
  boots,     \* _boots: how long each data plane has been silent
  advice,    \* the last SeatChoice, until the book is used again
  waived     \* history: the seats taken without asking for room

vars == <<seats, boots, advice, waived>>

NoAdvice == [holder |-> {}, cred |-> NoCred, left |-> NoCred, blocked |-> {}, sought |-> {}]

\* sought: the credentials the caller could have been sent to.
Advice == [holder  : {{h} : h \in Holder} \cup {{}},
           cred    : Cred \cup {NoCred},
           left    : Cred \cup {NoCred},
           blocked : SUBSET Cred,
           sought  : SUBSET Cred]

TypeOK ==
  /\ seats \in [Pair -> Seat]
  /\ boots \in [Boot -> 0..SilenceBound \cup {Unknown}]
  /\ advice \in Advice
  /\ waived \subseteq Pair

Init ==
  /\ seats = EmptySeats
  /\ boots = NoBoots
  /\ advice = NoAdvice
  /\ waived = {}

-----------------------------------------------------------------------------

\* The seats of t that s does not have.
Fresh(s, t) == {p \in Pair : Taken(t, p) /\ ~Taken(s, p)}

\* A waiver lasts as long as its seat.
Waive(t, fresh) == waived' = {p \in waived \cup fresh : Taken(t, p)}

\* Only the seat of an unpinned assignment under a cap has to find room.
WaivedBy(s, q) ==
  IF q.pinned \/ q.cap = 0 THEN Fresh(s, SeatsAfter(s, q))
  ELSE Fresh(s, Occupy(s, q, q.held))

Choose(q, ttl) ==
  LET s == Expired(seats, boots, ttl)
      t == SeatsAfter(s, q)
  IN /\ seats' = t
     /\ boots' = BootsAfterReap(boots)
     /\ advice' = [holder  |-> {q.holder},
                   cred    |-> Assigned(s, q),
                   left    |-> IF q.pinned THEN NoCred ELSE Released(q),
                   blocked |-> BlockedAfter(s, q),
                   sought  |-> IF q.pinned THEN {} ELSE {q.ranked[i] : i \in DOMAIN q.ranked}]
     /\ Waive(t, WaivedBy(s, q))

CountByAccount(ttl) ==
  LET s == Expired(seats, boots, ttl)
  IN /\ seats' = s
     /\ boots' = BootsAfterReap(boots)
     /\ advice' = NoAdvice
     /\ Waive(s, {})

\* Whatever leaves the cap to the caller waives it for a seat it creates.
Call(t, b) ==
  /\ seats' = t
  /\ boots' = b
  /\ advice' = NoAdvice
  /\ Waive(t, Fresh(seats, t))

BeginCall(h, c, x, keep) ==
  /\ AccountOf[c] # NoAccount
  /\ seats[<<h, AccountOf[c]>>].inflight[x] < CallBound
  /\ Call(Began(seats, h, c, x, keep), Noted(boots, x))

EndCall(h, c, x, keep, recreate) ==
  /\ AccountOf[c] # NoAccount
  /\ Call(Ended(seats, h, c, x, keep, recreate), Noted(boots, x))

ReleaseIdle(h, a) == Call(IdleReleased(seats, h, a), boots)

Hold(h, c, left) == Call(HeldUntil(seats, h, c, left), boots)

NoteBoot(x) == Call(seats, Noted(boots, x))

\* Web restarts: the book lives in its memory only.
Reset ==
  /\ seats' = EmptySeats
  /\ boots' = NoBoots
  /\ advice' = NoAdvice
  /\ waived' = {}

Tick ==
  /\ seats' = Aged(seats)
  /\ boots' = AgedBoots(boots)
  /\ advice' = NoAdvice
  /\ UNCHANGED waived

Next ==
  \/ \E q \in Questions, ttl \in Ttls : Choose(q, ttl)
  \/ \E ttl \in Ttls : CountByAccount(ttl)
  \/ \E h \in Holder, c \in Cred, x \in Boot, keep \in Holds : BeginCall(h, c, x, keep)
  \/ \E h \in Holder, c \in Cred, x \in Boot, keep \in Holds, recreate \in BOOLEAN :
       EndCall(h, c, x, keep, recreate)
  \/ \E h \in Holder, a \in Account : ReleaseIdle(h, a)
  \/ \E h \in Holder, c \in Cred, left \in Holds : Hold(h, c, left)
  \/ \E x \in Boot : NoteBoot(x)
  \/ Reset
  \/ Tick

Spec == Init /\ [][Next]_vars

-----------------------------------------------------------------------------
(* Properties *)

\* Those on account a whose seat had to find room.
Steered(s, w, a) == {h \in Holder : Taken(s, <<h, a>>) /\ <<h, a>> \notin w}

\* No more people are steered onto an account than the largest cap allows:
\* whatever pinned sessions, calls in progress and restored seats do, the
\* seats given out by assignment stay within max_concurrent_users.
SteeredWithinCap ==
  MaxCap > 0 => \A a \in Account : Cardinality(Steered(seats, waived, a)) <= MaxCap

\* Every call in progress belongs to a data plane the book still watches, so
\* that the death of that data plane can end it.  Only calls without a boot
\* id are left to MAX_INFLIGHT_SECONDS.
CallsAreWatched ==
  \A p \in Pair, x \in Boot \ {NoBoot} : seats[p].inflight[x] > 0 => boots[x] # Unknown

\* The answer to one choose: whoever is assigned a credential holds a seat on
\* its account, is never sent back to the credential just left nor to one
\* reported full, and is sent nowhere only when every other choice is full.
AdviceSound ==
  LET c == advice.cred
  IN advice # NoAdvice =>
       /\ c \notin advice.blocked
       /\ c # NoCred => c # advice.left
       /\ \A h \in advice.holder :
            c \in advice.sought /\ AccountOf[c] # NoAccount => Taken(seats, <<h, AccountOf[c]>>)
       /\ c = NoCred => advice.sought \subseteq advice.blocked \cup {advice.left}

\* Whether the seat p, once dead data planes are reaped, is alive for every team.
OutlivesEveryTtl(p) ==
  LET r == Reaped(seats, boots) IN \A ttl \in Ttls \ {0} : Alive(r[p], ttl)

\* Nobody loses a seat through someone else's call: a seat with a call in
\* progress at a live data plane, or still inside its hold or ttl, goes only
\* by its own holder's release, or with the whole book.
OnlyTheHolderGivesUp ==
  [][\A p \in Pair :
       Taken(seats, p) /\ seats'[p].cred = NoCred /\ OutlivesEveryTtl(p) =>
         \/ seats' = EmptySeats /\ boots' = NoBoots
         \/ advice'.holder = {p[1]} /\ advice'.left # NoCred
         \/ advice' = NoAdvice /\ ~Busy(seats[p]) /\ \A r \in Pair \ {p} : seats'[r] = seats[r]]_vars
=============================================================================
