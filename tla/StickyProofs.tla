---------------------------- MODULE StickyProofs ----------------------------
(***************************************************************************)
(* What holds of a session's sticky slots for every number of requests,    *)
(* credentials, accounts and other members, every order they are ranked    *)
(* in and every setting of the times: the types, in-flight counts that are *)
(* the requests relayed, and that a revoked key stops in time.             *)
(***************************************************************************)
EXTENDS StickySelect, SeatBookProofs

Answers == [assigned : Cred \cup {NoCred}, blocked : SUBSET Cred, advised : BOOLEAN]

\* What a request may be doing. While it asks whether the session goes on, cred is the
\* pool the question is about.
Works ==
  [phase : {"idle", "binding", "admitted", "asking", "told", "settled", "chosen", "relaying", "ending"},
   pool : QuotaPool, why : {"none", "fill", "reseat", "rotate", "after", "reauth"},
   cred : Cred \cup {NoCred} \cup QuotaPool, current : Cred \cup {NoCred},
   release : BOOLEAN, seen : SUBSET Cred, told : Answers, counted : BOOLEAN]

\* A request has a credential to go on with, or to leave; only an answer advises; it is
\* counted from the relay to the end.
WorkFits(w) ==
  /\ w.phase \in {"settled", "chosen", "relaying"} => w.cred \in Cred
  /\ w.phase \in {"asking", "told"} /\ w.why = "reauth" => w.cred \in QuotaPool
  /\ w.phase \in {"asking", "told"} /\ w.release => w.current \in Cred
  /\ w.told.advised => w.phase = "told"
  /\ w.counted => \/ w.phase \in {"relaying", "ending"}
                  \/ w.phase \in {"asking", "told"} /\ w.why = "after"

\* The request may come to serve without being authorized again.
MayServe(w) ==
  \/ w.phase \in {"admitted", "settled", "chosen"}
  \/ w.phase \in {"asking", "told"} /\ w.why \in {"fill", "reseat", "rotate"}

\* A binding has not been authorized since the key was revoked.
Fresh(b) == revoked = Never \/ b.bound >= revoked \/ b.bound > SessionTtl

\* What a request and its copy of the binding know of the key's revocation.
\* One that only swaps the token is not held to it.
Tidy(w, b, swap) ==
  /\ w.phase \notin {"idle", "binding"} => Fresh(b)
  /\ MayServe(w) => swap \/ revoked <= SessionTtl
  /\ w.told.advised => revoked \in {Never, 0}

Allowed(r) == request[r].swap \/ revoked <= SessionTtl

RareThings == {"crossed", "revived", "rebound"}
History == [rare : SUBSET RareThings, unseated : SUBSET (Cred \X QuotaPool)]

Types ==
  /\ seats \in Book /\ session \in Binding /\ minted \in BOOLEAN
  /\ request \in [Request -> [work : Works, copy : Binding, swap : BOOLEAN]]
  /\ \A r \in Request : WorkFits(request[r].work)
  /\ exhausted \subseteq Cred \X QuotaPool /\ cooling \subseteq Cred
  /\ revoked \in {Never} \cup 0..SessionTtl + 2
  /\ mishaps \in 0..MaxMishaps /\ notes \in History

InTime ==
  /\ session.live => Fresh(session)
  /\ \A r \in Request : Tidy(request[r].work, request[r].copy, request[r].swap)

USE BookAssumption, StickyAssumption
-----------------------------------------------------------------------------
(* Bindings, questions and other parts *)

LEMMA StickyBounds ==
  /\ AgeBound \in Nat /\ BusyBound \in Nat /\ BusyBound > 0
  /\ SessionTtl \in Nat /\ Never \in Int /\ Never < 0
  /\ "auto" \in QuotaPool /\ "api" \in QuotaPool
<1>1. Cardinality(Request) \in Nat
  BY FS_CardinalityType
<1> QED BY <1>1 DEF AgeBound, BusyBound, Larger, Never, QuotaPool

\* The parts of a binding.
Slots == [QuotaPool -> [cred : Cred \cup {NoCred}, age : 0..AgeBound]]
Counts == [QuotaPool -> 0..BusyBound]

\* Writing a slot touches neither the counts nor the time of the authorization.
LEMMA SlotWritten ==
  ASSUME NEW b \in Binding, NEW p \in QuotaPool
  PROVE  /\ \A c \in Cred : /\ BoundTo(b, p, c) \in Binding /\ BoundTo(b, p, c).bound = b.bound
                            /\ BoundTo(b, p, c).busy = b.busy /\ BoundTo(b, p, c).live = b.live
         /\ Touched(b, p) \in Binding /\ Touched(b, p).bound = b.bound
         /\ Touched(b, p).busy = b.busy /\ Touched(b, p).live = b.live
<1>1. b.slot \in Slots /\ 0 \in 0..AgeBound
  BY StickyBounds DEF Binding, Slots
<1>2. ASSUME NEW s \in Slots, NEW n, n = [b EXCEPT !.slot = s]
      PROVE  n \in Binding /\ n.bound = b.bound /\ n.busy = b.busy /\ n.live = b.live
  BY <1>2 DEF Binding, Slots
<1>3. ASSUME NEW c \in Cred
      PROVE  [b.slot EXCEPT ![p] = [cred |-> c, age |-> 0]] \in Slots
  BY <1>1 DEF Slots
<1>4. [b.slot EXCEPT ![p] = [b.slot[p] EXCEPT !.age = 0]] \in Slots
  <2>1. b.slot[p] \in [cred : Cred \cup {NoCred}, age : 0..AgeBound]
    BY <1>1 DEF Slots
  <2>2. [b.slot[p] EXCEPT !.age = 0] \in [cred : Cred \cup {NoCred}, age : 0..AgeBound]
    BY <1>1, <2>1
  <2> QED BY <1>1, <2>2 DEF Slots
<1>5. \A c : BoundTo(b, p, c) = [b EXCEPT !.slot = [b.slot EXCEPT ![p] = [cred |-> c, age |-> 0]]]
  BY DEF BoundTo, Binding
<1>6. Touched(b, p) = [b EXCEPT !.slot = [b.slot EXCEPT ![p] = [b.slot[p] EXCEPT !.age = 0]]]
  BY DEF Touched, Binding
<1>7. \A c \in Cred : /\ BoundTo(b, p, c) \in Binding /\ BoundTo(b, p, c).bound = b.bound
                      /\ BoundTo(b, p, c).busy = b.busy /\ BoundTo(b, p, c).live = b.live
  <2> SUFFICES ASSUME NEW c \in Cred
               PROVE  /\ BoundTo(b, p, c) \in Binding /\ BoundTo(b, p, c).bound = b.bound
                      /\ BoundTo(b, p, c).busy = b.busy /\ BoundTo(b, p, c).live = b.live
    OBVIOUS
  <2> DEFINE s == [b.slot EXCEPT ![p] = [cred |-> c, age |-> 0]]
             n == BoundTo(b, p, c)
  <2>1. s \in Slots /\ n = [b EXCEPT !.slot = s]
    BY <1>3, <1>5
  <2> HIDE DEF s, n
  <2>2. n \in Binding /\ n.bound = b.bound /\ n.busy = b.busy /\ n.live = b.live
    BY <1>2, <2>1
  <2> QED BY <2>2 DEF n
<1>8. /\ Touched(b, p) \in Binding /\ Touched(b, p).bound = b.bound
      /\ Touched(b, p).busy = b.busy /\ Touched(b, p).live = b.live
  BY <1>2, <1>4, <1>6
<1> QED BY <1>7, <1>8

\* What persist leaves: the stored binding with its counts and its authorization, or
\* the copy brought to life.
LEMMA Persisted ==
  ASSUME session \in Binding, NEW b \in Binding, NEW p \in QuotaPool, NEW all \in BOOLEAN,
         Persist(b, p, all)
  PROVE  /\ session' \in Binding /\ session'.live
         /\ session.live => session'.bound = session.bound /\ session'.busy = session.busy
         /\ ~session.live => session'.bound = b.bound
<1>1. CASE session.live
  <2> DEFINE s == [session.slot EXCEPT ![p] = b.slot[p]]
             k == IF all THEN b.blocked ELSE session.blocked
  <2>1. session' = [session EXCEPT !.slot = s, !.blocked = k]
    BY <1>1 DEF Persist, Binding
  <2>2. s \in Slots /\ k \in SUBSET Cred
    BY DEF Binding, Slots
  <2> HIDE DEF s, k
  <2> QED BY <1>1, <2>1, <2>2 DEF Binding, Slots
<1>2. CASE ~session.live
  <2>1. session' = [b EXCEPT !.live = TRUE]
    BY <1>2 DEF Persist
  <2> QED BY <1>2, <2>1 DEF Binding
<1> QED BY <1>1, <1>2

LEMMA RefreshedType ==
  ASSUME Types, NEW r \in Request
  PROVE  Refreshed(r) \in Binding /\ Refreshed(r).bound = request[r].copy.bound
<1> DEFINE b == request[r].copy
<1>1. b \in Binding /\ session \in Binding
  BY DEF Types
<1> HIDE DEF b
<1>2. [b EXCEPT !.slot = session.slot, !.busy = session.busy] \in Binding
      /\ [b EXCEPT !.slot = session.slot, !.busy = session.busy].bound = b.bound
  BY <1>1 DEF Binding
<1>3. Refreshed(r) = IF session.live
                     THEN [b EXCEPT !.slot = session.slot, !.busy = session.busy] ELSE b
  BY DEF Refreshed, b
<1>4. Refreshed(r) \in Binding /\ Refreshed(r).bound = b.bound
  BY <1>1, <1>2, <1>3
<1> QED BY <1>4 DEF b

LEMMA NoBindingType == NoBinding \in Binding /\ ~NoBinding.live
<1>1. EmptySlot \in [cred : Cred \cup {NoCred}, age : 0..AgeBound]
  BY StickyBounds DEF EmptySlot
<1> QED BY <1>1, StickyBounds DEF NoBinding, Binding

\* The credential of a filled slot.
LEMMA SlotHolds ==
  ASSUME NEW b \in Binding, NEW p \in QuotaPool
  PROVE  /\ b.slot[p].cred \in Cred \cup {NoCred} /\ (Filled(b, p) => b.slot[p].cred \in Cred)
         /\ Active(b, p) => Filled(b, p)
         /\ HeldOutside(b, p) \in Cred \cup {NoCred}
         /\ OtherPool(p) \in QuotaPool
<1>1. \A q \in QuotaPool : b.slot[q].cred \in Cred \cup {NoCred}
  BY DEF Binding
<1>2. OtherPool(p) \in QuotaPool
  BY DEF OtherPool, QuotaPool
<1> QED BY <1>1, <1>2 DEF Filled, Active, HeldOutside

\* What the constructors of works make.
LEMMA RestingFacts ==
  /\ Resting \in Works /\ WorkFits(Resting) /\ NoAnswer \in Answers /\ ~NoAnswer.advised
  /\ Resting.phase = "idle" /\ Resting.told = NoAnswer /\ ~Resting.counted
  /\ ~MayServe(Resting)
BY StickyBounds DEF Resting, Works, WorkFits, NoAnswer, Answers, MayServe

LEMMA AskingWork ==
  ASSUME NEW p \in QuotaPool, NEW why \in {"fill", "reseat", "rotate", "after", "reauth"},
         NEW c \in Cred \cup {NoCred}, NEW rel \in BOOLEAN
  PROVE  LET w == Asking(p, why, c, rel)
         IN /\ w \in Works /\ w.phase = "asking" /\ w.pool = p /\ w.why = why /\ w.current = c
            /\ w.release = rel /\ w.told = NoAnswer /\ ~w.counted
BY RestingFacts DEF Asking, Resting, Works

LEMMA ChosenWork ==
  ASSUME NEW p \in QuotaPool, NEW c \in Cred
  PROVE  LET w == Chosen(p, c)
         IN /\ w \in Works /\ w.phase = "chosen" /\ w.pool = p /\ w.cred = c
            /\ w.told = NoAnswer /\ ~w.counted
BY RestingFacts DEF Chosen, Resting, Works

LEMMA EndingWork ==
  ASSUME NEW v \in Works
  PROVE  LET w == Ending(v)
         IN /\ w \in Works /\ w.phase = "ending" /\ w.pool = v.pool /\ w.counted = v.counted
            /\ w.told = NoAnswer
BY RestingFacts DEF Ending, Resting, Works

LEMMA AdmittedWork ==
  ASSUME NEW p \in QuotaPool
  PROVE  LET w == [Resting EXCEPT !.phase = "admitted", !.pool = p]
         IN w \in Works /\ w.phase = "admitted" /\ w.pool = p /\ w.told = NoAnswer /\ ~w.counted
BY RestingFacts DEF Resting, Works
-----------------------------------------------------------------------------
(* What a step makes of a request and of the session *)

Goes(r, w, b, swap) == request' = [request EXCEPT ![r] = [work |-> w, copy |-> b, swap |-> swap]]

\* The request goes on, counted as it was.
Moves(r) ==
  \E w \in Works, b \in Binding, swap \in BOOLEAN :
    /\ Goes(r, w, b, swap) /\ WorkFits(w) /\ Tidy(w, b, swap)
    /\ swap => request[r].swap \/ w.phase = "admitted"
    /\ w.counted <=> request[r].work.counted
    /\ w.counted => w.pool = request[r].work.pool

\* The stored binding keeps its counts.
Stays ==
  /\ session' \in Binding /\ (session'.live => Fresh(session'))
  /\ session.live /\ session'.live => session'.busy = session.busy

LEMMA DoesGo ==
  ASSUME Types, NEW r \in Request, NEW w \in Works, NEW b \in Binding, Does(r, w, b),
         Tidy(w, b, request[r].swap)
  PROVE  \E swap \in BOOLEAN : Goes(r, w, b, swap) /\ Tidy(w, b, swap) /\ (swap => request[r].swap)
<1> DEFINE x == request[r].swap /\ w.phase # "idle"
<1>1. x \in BOOLEAN /\ (w.phase # "idle" => x = request[r].swap) /\ (x => request[r].swap)
  BY DEF Types
<1>2. Goes(r, w, b, x)
  BY DEF Goes, Does
<1> HIDE DEF x
<1>3. Tidy(w, b, x)
  BY <1>1 DEF Tidy, MayServe
<1> QED BY <1>1, <1>2, <1>3

LEMMA GoesOn ==
  ASSUME Types, NEW r \in Request, NEW w \in Works, NEW b \in Binding, Does(r, w, b), WorkFits(w),
         Tidy(w, b, request[r].swap), w.counted <=> request[r].work.counted,
         w.counted => w.pool = request[r].work.pool
  PROVE  Moves(r)
BY DoesGo DEF Moves

\* A request at rest is counted nowhere and knows nothing.
LEMMA Rests ==
  ASSUME Types, NEW r \in Request, Ends(r), ~request[r].work.counted
  PROVE  Moves(r)
<1>1. Tidy(Resting, NoBinding, request[r].swap)
  BY RestingFacts DEF Tidy
<1> QED BY <1>1, GoesOn, RestingFacts, NoBindingType DEF Ends

LEMMA Asks ==
  ASSUME Types, NEW r \in Request, NEW b \in Binding, NEW p \in QuotaPool,
         NEW why \in {"fill", "reseat", "rotate"}, NEW c \in Cred \cup {NoCred},
         NEW rel \in BOOLEAN, rel => c \in Cred, Does(r, Asking(p, why, c, rel), b),
         ~request[r].work.counted, Fresh(b), Allowed(r)
  PROVE  Moves(r)
<1> DEFINE w == Asking(p, why, c, rel)
<1>1. /\ w \in Works /\ w.phase = "asking" /\ w.why = why /\ w.current = c /\ w.release = rel
      /\ w.told = NoAnswer /\ ~w.counted
  BY AskingWork
<1> HIDE DEF w
<1>2. WorkFits(w) /\ Tidy(w, b, request[r].swap)
  BY <1>1, RestingFacts DEF WorkFits, Tidy, Allowed
<1> QED BY <1>1, <1>2, GoesOn DEF w

LEMMA Chooses ==
  ASSUME Types, NEW r \in Request, NEW b \in Binding, NEW p \in QuotaPool, NEW c \in Cred,
         Does(r, Chosen(p, c), b), ~request[r].work.counted, Fresh(b), Allowed(r)
  PROVE  Moves(r)
<1> DEFINE w == Chosen(p, c)
<1>1. w \in Works /\ w.phase = "chosen" /\ w.cred = c /\ w.told = NoAnswer /\ ~w.counted
  BY ChosenWork
<1> HIDE DEF w
<1>2. WorkFits(w) /\ Tidy(w, b, request[r].swap)
  BY <1>1, RestingFacts DEF WorkFits, Tidy, Allowed
<1> QED BY <1>1, <1>2, GoesOn DEF w

LEMMA IsAdmitted ==
  ASSUME Types, NEW r \in Request, NEW b \in Binding, NEW p \in QuotaPool,
         Does(r, [Resting EXCEPT !.phase = "admitted", !.pool = p], b),
         ~request[r].work.counted, Fresh(b), Allowed(r)
  PROVE  Moves(r)
<1> DEFINE w == [Resting EXCEPT !.phase = "admitted", !.pool = p]
<1>1. w \in Works /\ w.phase = "admitted" /\ w.told = NoAnswer /\ ~w.counted
  BY AdmittedWork
<1> HIDE DEF w
<1>2. WorkFits(w) /\ Tidy(w, b, request[r].swap)
  BY <1>1, RestingFacts DEF WorkFits, Tidy, Allowed
<1> QED BY <1>1, <1>2, GoesOn DEF w

LEMMA Winds ==
  ASSUME Types, NEW r \in Request, NEW b \in Binding, Does(r, Ending(request[r].work), b), Fresh(b)
  PROVE  Moves(r)
<1> DEFINE v == request[r].work
           w == Ending(v)
<1>0. v \in Works
  BY DEF Types
<1> HIDE DEF v
<1>1. /\ w \in Works /\ w.phase = "ending" /\ w.pool = v.pool /\ w.counted = v.counted
      /\ w.told = NoAnswer
  BY <1>0, EndingWork
<1> HIDE DEF w
<1>2. WorkFits(w) /\ Tidy(w, b, request[r].swap)
  BY <1>1, RestingFacts DEF WorkFits, Tidy, MayServe, Allowed
<1> QED BY <1>1, <1>2, GoesOn DEF w, v

LEMMA Stored ==
  ASSUME Types, InTime, NEW b \in Binding, NEW p \in QuotaPool, NEW all \in BOOLEAN,
         Persist(b, p, all), Fresh(b)
  PROVE  Stays
<1>1. session \in Binding
  BY DEF Types
<1> QED BY <1>1, Persisted DEF Stays, InTime, Fresh

LEMMA Unstored ==
  ASSUME Types, InTime, UNCHANGED session
  PROVE  Stays
BY DEF Types, InTime, Stays, Fresh

\* Exchanging the key of the credential a slot is on.
LEMMA Exchanged ==
  ASSUME Types, InTime, NEW r \in Request, NEW b \in Binding, NEW p \in QuotaPool, NEW c \in Cred,
         Exchanges(r, b, p, c), ~request[r].work.counted, Fresh(b), Allowed(r)
  PROVE  Moves(r) /\ Stays
<1>1. ASSUME Does(r, Asking(p, "rotate", c, TRUE), b)
      PROVE  Moves(r)
  BY <1>1, Asks
<1>2. CASE Persist(Touched(b, p), p, FALSE) /\ Does(r, Chosen(p, c), Touched(b, p))
  <2>1. /\ Touched(b, p) \in Binding /\ Fresh(Touched(b, p))
    BY SlotWritten DEF Fresh
  <2> QED BY <1>2, <2>1, Chooses, Stored
<1>3. CASE Ends(r) /\ UNCHANGED session
  BY <1>3, Rests, Unstored
<1>4. CASE Does(r, Asking(p, "rotate", c, TRUE), b) /\ UNCHANGED session
  BY <1>1, <1>4, Unstored
<1> QED BY <1>2, <1>3, <1>4 DEF Exchanges
-----------------------------------------------------------------------------
(* The steps of a request *)

\* What is known of a request before it goes on.
LEMMA Before ==
  ASSUME Types, InTime, NEW r \in Request
  PROVE  LET w == request[r].work
             b == request[r].copy
         IN /\ w \in Works /\ b \in Binding /\ WorkFits(w) /\ Tidy(w, b, request[r].swap)
            /\ session \in Binding
BY DEF Types, InTime

LEMMA Selecting ==
  ASSUME Types, InTime, NEW r \in Request, NEW p \in QuotaPool, Phase(r) = "admitted", Selects(r, p)
  PROVE  Moves(r) /\ Stays
<1> DEFINE b == Refreshed(r)
           c == b.slot[p].cred
<1>1. /\ b \in Binding /\ Fresh(b) /\ ~request[r].work.counted /\ Allowed(r)
  BY Before, RefreshedType DEF Phase, WorkFits, Tidy, MayServe, Allowed, Fresh
<1>2. c \in Cred \cup {NoCred} /\ (Filled(b, p) => c \in Cred) /\ (Active(b, p) => Filled(b, p))
  BY <1>1, SlotHolds
<1>3. NoCred \in Cred \cup {NoCred}
  OBVIOUS
<1>4. \/ Does(r, Asking(p, "fill", NoCred, FALSE), b) /\ UNCHANGED session
      \/ Does(r, Asking(p, "reseat", c, FALSE), b) /\ UNCHANGED session
      \/ Active(b, p) /\ Exchanges(r, b, p, c)
  BY DEF Selects
<1> HIDE DEF b, c
<1>5. CASE Does(r, Asking(p, "fill", NoCred, FALSE), b) /\ UNCHANGED session
  BY <1>1, <1>3, <1>5, Asks, Unstored
<1>6. CASE Does(r, Asking(p, "reseat", c, FALSE), b) /\ UNCHANGED session
  BY <1>1, <1>2, <1>6, Asks, Unstored
<1>7. CASE Active(b, p) /\ Exchanges(r, b, p, c)
  BY <1>1, <1>2, <1>7, Exchanged
<1> QED BY <1>4, <1>5, <1>6, <1>7

LEMMA LookingUp ==
  ASSUME Types, NEW r \in Request, NEW p \in QuotaPool, NEW b \in Binding, LooksUp(r, p, b),
         Fresh(b), ~request[r].work.counted
  PROVE  Moves(r)
<1>1. b.bound \in Nat /\ revoked \in Int
  BY StickyBounds DEF Types, Binding
<1>2. CASE b.bound > SessionTtl
  <2> DEFINE q == ReauthPool(b)
             c == b.slot[q].cred
             a == Asking(p, "reauth", c, FALSE)
             w == [a EXCEPT !.cred = q]
  <2>1. q \in QuotaPool
    BY StickyBounds DEF ReauthPool
  <2>2. c \in Cred \cup {NoCred}
    BY <2>1, SlotHolds
  <2>5. Does(r, w, b)
    BY <1>2 DEF LooksUp
  <2> HIDE DEF q, c
  <2>3. /\ a \in Works /\ a.phase = "asking" /\ a.pool = p /\ a.why = "reauth" /\ a.current = c
        /\ a.release = FALSE /\ a.told = NoAnswer /\ ~a.counted
    BY <2>2, AskingWork, ZenonT(60)
  <2> HIDE DEF a
  <2>4. /\ w \in Works /\ w.phase = "asking" /\ w.why = "reauth" /\ w.cred = q
        /\ w.release = FALSE /\ w.told = NoAnswer /\ ~w.counted
    BY <2>1, <2>3 DEF Works
  <2> HIDE DEF w
  <2>6. WorkFits(w) /\ Tidy(w, b, request[r].swap)
    BY <2>1, <2>4, RestingFacts DEF WorkFits, Tidy, MayServe
  <2> QED BY <2>4, <2>5, <2>6, GoesOn
<1>3. CASE ~(b.bound > SessionTtl)
  <2>1. Does(r, [Resting EXCEPT !.phase = "admitted", !.pool = p], b)
    BY <1>3 DEF LooksUp
  <2>2. Allowed(r)
    BY <1>1, <1>3, StickyBounds DEF Fresh, Allowed
  <2> QED BY <2>1, <2>2, IsAdmitted
<1> QED BY <1>2, <1>3

\* A session found, to be bound or not to be bound, and a token swapped.
LEMMA Arriving ==
  ASSUME Types, InTime, NEW r \in Request,
         \/ \E p \in QuotaPool : Arrives(r, p) \/ Misses(r, p)
         \/ BindFails(r) \/ Swaps(r) \/ SwapEnds(r)
  PROVE  Moves(r) /\ Stays
<1>1. ~request[r].work.counted /\ session \in Binding
  BY Before DEF Arrives, Misses, BindFails, Swaps, SwapEnds, Phase, WorkFits
<1>2. ASSUME NEW p \in QuotaPool, Arrives(r, p) PROVE Moves(r) /\ Stays
  <2>1. session.live /\ UNCHANGED session /\ LooksUp(r, p, session)
    BY <1>2 DEF Arrives
  <2>2. Fresh(session)
    BY <2>1 DEF InTime
  <2> QED BY <1>1, <2>1, <2>2, LookingUp, Unstored
<1>3. ASSUME NEW p \in QuotaPool, Misses(r, p) PROVE Moves(r) /\ Stays
  <2> DEFINE w == [Resting EXCEPT !.phase = "binding", !.pool = p]
  <2>1. Does(r, w, NoBinding) /\ session' = NoBinding
    BY <1>3 DEF Misses
  <2>2. w \in Works /\ w.phase = "binding" /\ w.told = NoAnswer /\ ~w.counted
    BY RestingFacts DEF Resting, Works
  <2> HIDE DEF w
  <2>3. WorkFits(w) /\ Tidy(w, NoBinding, request[r].swap)
    BY <2>2, RestingFacts DEF WorkFits, Tidy, MayServe
  <2>4. Moves(r)
    BY <1>1, <2>1, <2>2, <2>3, GoesOn, NoBindingType
  <2> QED BY <2>1, <2>4, NoBindingType DEF Stays
<1>4. ASSUME BindFails(r) \/ SwapEnds(r) PROVE Moves(r) /\ Stays
  BY <1>1, <1>4, Rests, Unstored DEF BindFails, SwapEnds
<1>5. ASSUME Swaps(r) PROVE Moves(r) /\ Stays
  <2> DEFINE w == [Resting EXCEPT !.phase = "admitted"]
  <2>1. Goes(r, w, session, TRUE) /\ UNCHANGED session /\ session.live
    BY <1>5 DEF Swaps, Goes
  <2>2. w \in Works /\ w.phase = "admitted" /\ w.told = NoAnswer /\ ~w.counted
    BY RestingFacts DEF Resting, Works
  <2> HIDE DEF w
  <2>3. WorkFits(w) /\ Tidy(w, session, TRUE)
    BY <2>1, <2>2, RestingFacts DEF WorkFits, Tidy, InTime
  <2>4. Moves(r)
    BY <1>1, <2>1, <2>2, <2>3 DEF Moves
  <2> QED BY <2>1, <2>4, Unstored
<1> QED BY <1>2, <1>3, <1>4, <1>5

\* The fresh binding counts nobody.
LEMMA BindingAfresh ==
  ASSUME Types, InTime, NEW r \in Request, BindsFresh(r)
  PROVE  /\ Moves(r) /\ revoked = Never /\ session' \in Binding
         /\ \A p \in QuotaPool : session'.busy[p] = 0
         /\ notes' = Noting(IF \E o \in Request : request[o].work.counted THEN {"rebound"} ELSE {},
                            {})
<1> DEFINE s == [NoBinding EXCEPT !.live = TRUE]
           b == [s EXCEPT !.bound = SessionTtl + 1]
           p == request[r].work.pool
<1>1. s \in Binding /\ b \in Binding
  <2>1. \A x \in Binding, y \in BOOLEAN : [x EXCEPT !.live = y] \in Binding
    BY DEF Binding
  <2>2. \A x \in Binding, y \in 0..SessionTtl + 1 : [x EXCEPT !.bound = y] \in Binding
    BY DEF Binding
  <2>3. s \in Binding
    BY <2>1, NoBindingType
  <2>4. SessionTtl + 1 \in 0..SessionTtl + 1
    BY StickyBounds
  <2> HIDE DEF s
  <2> QED BY <2>2, <2>3, <2>4
<1>2. \A q \in QuotaPool : s.busy[q] = 0
  BY DEF NoBinding
<1>3. session' = s /\ revoked = Never /\ LooksUp(r, p, b)
  BY DEF BindsFresh
<1>4. ~request[r].work.counted /\ p \in QuotaPool
  BY Before DEF BindsFresh, Phase, WorkFits, Works
<1> HIDE DEF s, b, p
<1>5. Moves(r)
  BY <1>1, <1>3, <1>4, LookingUp DEF Fresh
<1> QED BY <1>1, <1>2, <1>3, <1>5 DEF BindsFresh

\* The answer, or that there is none.
LEMMA Advised ==
  ASSUME Types, InTime, NEW r \in Request,
         AdviseFails(r) \/ \E o \in Orders["auto"] \cup Orders["api"] : Advise(r, o)
  PROVE  Moves(r) /\ Stays
<1> DEFINE w == request[r].work
           b == request[r].copy
<1>1. w \in Works /\ b \in Binding /\ WorkFits(w) /\ Tidy(w, b, request[r].swap)
      /\ w.phase = "asking"
  BY Before DEF AdviseFails, Advise, Phase
<1> HIDE DEF w, b
<1>2. UNCHANGED session
  BY DEF AdviseFails, Advise
<1>3. ASSUME NEW t \in Answers, NEW v, v = [w EXCEPT !.phase = "told", !.told = t],
             t.advised => revoked = Never, Does(r, v, b)
      PROVE  Moves(r)
  <2>1. /\ v \in Works /\ v.phase = "told" /\ v.told = t /\ v.why = w.why /\ v.cred = w.cred
        /\ v.pool = w.pool /\ v.release = w.release /\ v.current = w.current
        /\ v.counted = w.counted
    BY <1>1, <1>3 DEF Works
  <2>2. WorkFits(v) /\ Tidy(v, b, request[r].swap)
    BY <1>1, <1>3, <2>1 DEF WorkFits, Tidy, MayServe, Allowed
  <2> QED BY <1>1, <1>3, <2>1, <2>2, GoesOn DEF w
<1>4. CASE AdviseFails(r)
  <2>1. w.told \in Answers /\ ~w.told.advised /\ w = [w EXCEPT !.told = w.told]
    BY <1>1 DEF Works, WorkFits
  <2> DEFINE v == [w EXCEPT !.phase = "told"]
  <2>2. v = [w EXCEPT !.phase = "told", !.told = w.told]
    BY <1>1 DEF Works
  <2>3. Does(r, v, b)
    BY <1>4 DEF AdviseFails, w, b
  <2> QED BY <1>2, <1>3, <2>1, <2>2, <2>3, Unstored
<1>5. CASE \E o \in Orders["auto"] \cup Orders["api"] : Advise(r, o)
  <2>1. PICK o \in Orders["auto"] \cup Orders["api"] : Advise(r, o)
    BY <1>5
  <2> DEFINE q == Asked(w, b, o)
             s == Expired(seats, NoBoots, SeatTtl)
             t == [assigned |-> Assigned(s, q), blocked |-> BlockedAfter(s, q),
                   advised |-> AdvisedBy(q, s)]
             v == [w EXCEPT !.phase = "told", !.told = t]
  <2>2. Does(r, v, b) /\ revoked = Never
    BY <2>1 DEF Advise, w, b
  <2>3. AskedPool(w) \in QuotaPool
    BY <1>1 DEF AskedPool, WorkFits, Works
  <2>4. q \in Question
    BY <1>1, <2>3, StickyBounds, SlotHolds DEF Asked, Question, Works
  <2> HIDE DEF q
  <2>5. Assigned(s, q) \in Cred \cup {NoCred} /\ BlockedAfter(s, q) \subseteq Cred
    BY <2>4, AssignedType DEF BlockedAfter, Known
  <2>6. AdvisedBy(q, s) \in BOOLEAN
    BY <2>4 DEF AdvisedBy, Question
  <2>7. t \in Answers
    BY <2>5, <2>6 DEF Answers
  <2> HIDE DEF t
  <2> QED BY <1>1, <1>2, <1>3, <2>2, <2>7, Unstored
<1> QED BY <1>4, <1>5

\* A slot of a binding is set anew, with what Pulse has blocked.
Reset(b, k, q, e) == [b EXCEPT !.live = TRUE, !.bound = 0, !.blocked = k, !.slot[q] = e]

LEMMA Rebound ==
  ASSUME NEW b \in Binding, NEW k \in SUBSET Cred, NEW q \in QuotaPool,
         NEW e \in [cred : Cred \cup {NoCred}, age : 0..AgeBound]
  PROVE  /\ Reset(b, k, q, e) \in Binding /\ Reset(b, k, q, e).bound = 0
         /\ Reset(b, k, q, e).busy = b.busy /\ Reset(b, k, q, e).live
<1> DEFINE f == [b.slot EXCEPT ![q] = e]
           n == Reset(b, k, q, e)
<1>1. n = [b EXCEPT !.live = TRUE, !.bound = 0, !.blocked = k, !.slot = f]
  BY DEF Reset, Binding
<1>2. 0 \in 0..SessionTtl + 1
  BY StickyBounds
<1>3. b.slot \in Slots
  BY DEF Binding, Slots
<1>4. f \in Slots
  BY <1>3 DEF Slots
<1> HIDE DEF f, n
<1>5. n \in Binding /\ n.bound = 0 /\ n.busy = b.busy /\ n.live
  BY <1>1, <1>2, <1>4 DEF Binding, Slots
<1> QED BY <1>5 DEF n

LEMMA Authorizing ==
  ASSUME Types, InTime, NEW r \in Request, Reauthorized(r)
  PROVE  Moves(r) /\ Stays
<1> DEFINE w == request[r].work
           t == w.told
           b == request[r].copy
           move == t.advised /\ t.assigned # w.current
           stored(x) == [x EXCEPT !.live = TRUE, !.bound = 0,
                           !.blocked = IF t.advised THEN t.blocked ELSE @,
                           !.slot[w.cred] = IF move THEN [cred |-> t.assigned, age |-> 0] ELSE @]
<1>1. /\ w \in Works /\ b \in Binding /\ w.cred \in QuotaPool /\ ~w.counted /\ session \in Binding
      /\ t \in Answers /\ (t.advised => revoked \in {Never, 0})
  BY Before DEF Reauthorized, Told, Phase, WorkFits, Tidy, Works
<1>2. \/ /\ session' = NoBinding /\ Ends(r)
      \/ /\ revoked # Never => t.advised
         /\ session' = stored(IF session.live THEN session ELSE b)
         /\ Does(r, [Resting EXCEPT !.phase = "admitted", !.pool = w.pool], stored(b))
      \/ Ends(r) /\ UNCHANGED session
  BY DEF Reauthorized
<1>3. w.pool \in QuotaPool
  BY <1>1 DEF Works
<1>4. ASSUME NEW x \in Binding
      PROVE  /\ stored(x) \in Binding /\ stored(x).bound = 0 /\ stored(x).busy = x.busy
             /\ stored(x).live
  <2> DEFINE k == IF t.advised THEN t.blocked ELSE x.blocked
             e == IF move THEN [cred |-> t.assigned, age |-> 0] ELSE x.slot[w.cred]
  <2>1. k \in SUBSET Cred
    BY <1>1 DEF Answers, Binding
  <2>2. e \in [cred : Cred \cup {NoCred}, age : 0..AgeBound]
    <3>1. x.slot[w.cred] \in [cred : Cred \cup {NoCred}, age : 0..AgeBound]
      BY <1>1 DEF Binding
    <3>2. 0 \in 0..AgeBound /\ t.assigned \in Cred \cup {NoCred}
      BY <1>1, StickyBounds DEF Answers
    <3> QED BY <3>1, <3>2
  <2>3. stored(x) = Reset(x, k, w.cred, e)
    BY DEF Reset, Binding
  <2> HIDE DEF k, e, stored
  <2> QED BY <1>1, <2>1, <2>2, <2>3, Rebound
<1> HIDE DEF stored
<1>5. CASE session' = NoBinding /\ Ends(r)
  BY <1>1, <1>5, Rests, NoBindingType DEF Stays
<1>6. CASE /\ revoked # Never => t.advised
           /\ session' = stored(IF session.live THEN session ELSE b)
           /\ Does(r, [Resting EXCEPT !.phase = "admitted", !.pool = w.pool], stored(b))
  <2>1. revoked \in {Never, 0} /\ Allowed(r)
    BY <1>1, <1>6, StickyBounds DEF Allowed
  <2>2. stored(b) \in Binding /\ Fresh(stored(b))
    BY <1>1, <1>4, <2>1 DEF Fresh
  <2>3. Moves(r)
    <3> HIDE DEF w, b
    <3> QED BY <1>1, <1>3, <1>6, <2>1, <2>2, IsAdmitted DEF w
  <2>4. Stays
    BY <1>1, <1>4, <1>6, <2>1 DEF Stays, Fresh
  <2> QED BY <2>3, <2>4
<1>7. CASE Ends(r) /\ UNCHANGED session
  BY <1>1, <1>7, Rests, Unstored
<1> QED BY <1>2, <1>5, <1>6, <1>7

LEMMA Reseating ==
  ASSUME Types, InTime, NEW r \in Request, Reseats(r)
  PROVE  Moves(r) /\ Stays
<1> DEFINE w == request[r].work
           p == w.pool
           c == IF w.told.advised THEN w.told.assigned ELSE w.current
           k == IF w.told.advised THEN w.told.blocked ELSE request[r].copy.blocked
           b == [request[r].copy EXCEPT !.blocked = k]
           v == [Chosen(p, c) EXCEPT !.phase = "settled"]
<1>1. /\ w \in Works /\ request[r].copy \in Binding /\ ~w.counted /\ session \in Binding
      /\ Fresh(request[r].copy) /\ Allowed(r) /\ w.told \in Answers
  BY Before DEF Reseats, Told, Phase, WorkFits, Tidy, Works, MayServe, Allowed
<1>2. /\ p \in QuotaPool /\ c \in Cred \cup {NoCred} /\ k \in SUBSET Cred
  BY <1>1 DEF Works, Answers, Binding
<1>3. \/ Ends(r) /\ UNCHANGED session
      \/ c # NoCred /\ Does(r, v, b) /\ UNCHANGED session
      \/ c # NoCred /\ Persist(BoundTo(b, p, c), p, TRUE) /\ Does(r, v, BoundTo(b, p, c))
  BY DEF Reseats
<1> HIDE DEF k, w
<1>4. b \in Binding /\ Fresh(b)
  BY <1>1, <1>2 DEF Fresh, Binding
<1> HIDE DEF b, p, c
<1>5. ASSUME c # NoCred, NEW x \in Binding, Fresh(x), Does(r, v, x)
      PROVE  Moves(r)
  <2> DEFINE a == Chosen(p, c)
  <2>1. a \in Works /\ a.phase = "chosen" /\ a.cred = c /\ a.told = NoAnswer /\ ~a.counted
    BY <1>2, <1>5, ChosenWork
  <2> HIDE DEF a
  <2>2. v = [a EXCEPT !.phase = "settled"]
    BY DEF a
  <2>3. v \in Works /\ v.phase = "settled" /\ v.cred = c /\ v.told = NoAnswer /\ ~v.counted
    BY <2>1, <2>2 DEF Works
  <2> HIDE DEF v
  <2>4. WorkFits(v) /\ Tidy(v, x, request[r].swap)
    BY <1>1, <1>2, <1>5, <2>3, RestingFacts DEF WorkFits, Tidy, Allowed
  <2> QED BY <1>1, <1>5, <2>3, <2>4, GoesOn DEF w
<1>6. CASE Ends(r) /\ UNCHANGED session
  BY <1>1, <1>6, Rests, Unstored DEF w
<1>7. CASE c # NoCred /\ Does(r, v, b) /\ UNCHANGED session
  BY <1>4, <1>5, <1>7, Unstored
<1>8. CASE c # NoCred /\ Persist(BoundTo(b, p, c), p, TRUE) /\ Does(r, v, BoundTo(b, p, c))
  <2>1. BoundTo(b, p, c) \in Binding /\ Fresh(BoundTo(b, p, c))
    BY <1>2, <1>4, <1>8, SlotWritten DEF Fresh
  <2> QED BY <1>2, <1>5, <1>8, <2>1, Stored
<1> QED BY <1>3, <1>6, <1>7, <1>8

LEMMA UsingSettled ==
  ASSUME Types, InTime, NEW r \in Request, UsesSettled(r)
  PROVE  Moves(r) /\ Stays
<1>1. /\ request[r].copy \in Binding /\ Fresh(request[r].copy) /\ ~request[r].work.counted
      /\ Allowed(r) /\ request[r].work.cred \in Cred
      /\ request[r].work.pool \in QuotaPool
  BY Before DEF UsesSettled, Phase, WorkFits, Tidy, Works, MayServe, Allowed
<1> QED BY <1>1, Exchanged DEF UsesSettled

\* What is known of a request that has its answer and may take it to its upstream.
LEMMA Answered ==
  ASSUME Types, InTime, NEW r \in Request, Told(r, {"fill", "rotate", "after"})
  PROVE  LET w == request[r].work
         IN /\ w \in Works /\ w.phase = "told" /\ w.why \in {"fill", "rotate", "after"}
            /\ request[r].copy \in Binding /\ Fresh(request[r].copy) /\ w.pool \in QuotaPool
            /\ w.told \in Answers
            /\ w.why # "after" => ~w.counted /\ Allowed(r)
            /\ w.told.advised => revoked \in {Never, 0}
            /\ request[r].copy.slot[w.pool].cred \in Cred \cup {NoCred}
<1> DEFINE w == request[r].work
           b == request[r].copy
<1>1. w \in Works /\ b \in Binding /\ WorkFits(w) /\ Tidy(w, b, request[r].swap)
      /\ w.phase = "told"
      /\ w.why \in {"fill", "rotate", "after"}
  BY Before DEF Told, Phase
<1> HIDE DEF w, b
<1>2. w.pool \in QuotaPool /\ w.told \in Answers
  BY <1>1 DEF Works
<1>3. b.slot[w.pool].cred \in Cred \cup {NoCred}
  BY <1>1, <1>2, SlotHolds
<1>4. Fresh(b) /\ (w.why # "after" => ~w.counted /\ Allowed(r))
      /\ (w.told.advised => revoked \in {Never, 0})
  BY <1>1 DEF WorkFits, Tidy, MayServe, Allowed
<1> QED BY <1>1, <1>2, <1>3, <1>4 DEF w, b

LEMMA FindingNone ==
  ASSUME Types, InTime, NEW r \in Request, Told(r, {"fill", "rotate", "after"}), FindsNone(r)
  PROVE  Moves(r) /\ Stays
<1>1. Stays
  BY Unstored DEF FindsNone
<1>2. CASE request[r].work.why = "after"
  BY <1>1, <1>2, Answered, Winds DEF FindsNone
<1>3. CASE request[r].work.why # "after"
  BY <1>1, <1>3, Answered, Rests DEF FindsNone
<1> QED BY <1>2, <1>3

LEMMA BindingStep ==
  ASSUME Types, InTime, NEW r \in Request, Told(r, {"fill", "rotate", "after"}),
         NEW b \in Binding, NEW c \in Cred, Fresh(b), Binds(r, b, c)
  PROVE  Moves(r) /\ Stays
<1> DEFINE w == request[r].work
           n == BoundTo(b, w.pool, c)
<1>1. w.pool \in QuotaPool /\ (w.why # "after" => ~w.counted /\ Allowed(r))
  BY Answered
<1>2. n \in Binding /\ Fresh(n)
  BY <1>1, SlotWritten DEF Fresh
<1>3. Persist(n, w.pool, TRUE)
  BY DEF Binds
<1>4. \/ w.why = "after" /\ Does(r, Ending(w), n)
      \/ w.why # "after" /\ (Does(r, Chosen(w.pool, c), n) \/ Ends(r))
  BY DEF Binds
<1> HIDE DEF n
<1>5. Stays
  BY <1>1, <1>2, <1>3, Stored
<1>6. CASE w.why = "after" /\ Does(r, Ending(w), n)
  BY <1>2, <1>5, <1>6, Winds
<1>7. CASE w.why # "after" /\ Does(r, Chosen(w.pool, c), n)
  BY <1>1, <1>2, <1>5, <1>7, Chooses
<1>8. CASE w.why # "after" /\ Ends(r)
  BY <1>1, <1>5, <1>8, Rests
<1> QED BY <1>4, <1>6, <1>7, <1>8

LEMMA Assigning ==
  ASSUME Types, InTime, NEW r \in Request, Assigns(r)
  PROVE  Moves(r) /\ Stays
<1> DEFINE w == request[r].work
           a == w.told.assigned
           tried == w.seen \cup {a}
           b == [request[r].copy EXCEPT !.blocked = w.told.blocked]
           v == [w EXCEPT !.phase = "asking", !.current = a, !.release = TRUE, !.seen = tried,
                          !.told = NoAnswer]
<1>1. /\ w \in Works /\ w.phase = "told" /\ w.why \in {"fill", "rotate", "after"}
      /\ request[r].copy \in Binding /\ Fresh(request[r].copy) /\ w.told \in Answers
      /\ w.why # "after" => ~w.counted /\ Allowed(r)
      /\ Told(r, {"fill", "rotate", "after"})
  BY Answered DEF Assigns
<1>2. b \in Binding /\ Fresh(b)
  BY <1>1 DEF Answers, Binding, Fresh
<1>3. \/ FindsNone(r)
      \/ ~Hopeless(w, a) /\ Binds(r, b, a)
      \/ ~Hopeless(w, a) /\ Does(r, v, b) /\ UNCHANGED session
  BY DEF Assigns
<1> HIDE DEF w, b
<1>4. ~Hopeless(w, a) => a \in Cred
  BY <1>1 DEF Hopeless, Answers
<1>5. CASE FindsNone(r)
  BY <1>1, <1>5, FindingNone
<1>6. CASE ~Hopeless(w, a) /\ Binds(r, b, a)
  BY <1>1, <1>2, <1>4, <1>6, BindingStep
<1>7. CASE ~Hopeless(w, a) /\ Does(r, v, b) /\ UNCHANGED session
  <2>1. tried \in SUBSET Cred
    BY <1>1, <1>4, <1>7 DEF Works
  <2> HIDE DEF tried
  <2>2. /\ v \in Works /\ v.phase = "asking" /\ v.why = w.why /\ v.current = a /\ v.pool = w.pool
        /\ v.told = NoAnswer /\ v.counted = w.counted
    BY <1>1, <1>4, <1>7, <2>1, RestingFacts DEF Works
  <2> HIDE DEF v
  <2>3. WorkFits(v) /\ Tidy(v, b, request[r].swap)
    BY <1>1, <1>2, <1>4, <1>7, <2>2, RestingFacts DEF WorkFits, Tidy, MayServe, Allowed
  <2> QED BY <1>2, <1>7, <2>2, <2>3, GoesOn, Unstored DEF w
<1> QED BY <1>3, <1>5, <1>6, <1>7

\* The places that fit are places of the order fetched for the pool.
LEMMA Fitting ==
  ASSUME NEW r \in Request, request[r].work.pool \in QuotaPool
  PROVE  LET order == LocalOrder[request[r].work.pool]
         IN /\ Fit(r) \in SUBSET (DOMAIN order)
            /\ \A i \in Fit(r) : order[i] \in Cred
            /\ Fit(r) # {} => Min(Fit(r)) \in Fit(r)
<1> DEFINE order == LocalOrder[request[r].work.pool]
<1>1. order \in Seq(Cred)
  OBVIOUS
<1>2. Fit(r) \in SUBSET (DOMAIN order)
  BY DEF Fit
<1> HIDE DEF order
<1>3. Fit(r) \in SUBSET Nat /\ \A i \in Fit(r) : order[i] \in Cred
  BY <1>1, <1>2
<1>4. Fit(r) # {} => Min(Fit(r)) \in Fit(r)
  BY <1>3, MinIsLeast
<1> QED BY <1>2, <1>3, <1>4 DEF order

LEMMA FillingLocally ==
  ASSUME Types, InTime, NEW r \in Request, FillsLocally(r)
  PROVE  Moves(r) /\ Stays
<1> DEFINE w == request[r].work
           b == request[r].copy
           order == LocalOrder[w.pool]
<1>1. Told(r, {"fill"}) /\ Told(r, {"fill", "rotate", "after"}) /\ w.why = "fill"
  BY DEF FillsLocally, Told
<1>2. b \in Binding /\ Fresh(b) /\ w.pool \in QuotaPool /\ ~w.counted /\ Allowed(r)
  BY <1>1, Answered
<1>3. CASE FindsNone(r)
  BY <1>1, <1>3, FindingNone
<1>4. CASE Ends(r) /\ UNCHANGED session
  BY <1>2, <1>4, Rests, Unstored
<1>5. ASSUME NEW i \in Fit(r), Persist(BoundTo(b, w.pool, order[i]), w.pool, TRUE),
             Does(r, Chosen(w.pool, order[i]), BoundTo(b, w.pool, order[i]))
      PROVE  Moves(r) /\ Stays
  <2> DEFINE c == order[i]
             n == BoundTo(b, w.pool, c)
  <2>1. c \in Cred
    BY <1>2, Fitting
  <2>2. n \in Binding /\ Fresh(n)
    BY <1>2, <2>1, SlotWritten DEF Fresh
  <2> HIDE DEF n, c
  <2> QED BY <1>2, <1>5, <2>1, <2>2, Chooses, Stored DEF n, c
<1> QED BY <1>3, <1>4, <1>5 DEF FillsLocally

LEMMA RotatingLocally ==
  ASSUME Types, InTime, NEW r \in Request, RotatesLocally(r)
  PROVE  Moves(r) /\ Stays
<1> DEFINE w == request[r].work
           c == LocalOrder[w.pool][Min(Fit(r))]
<1>1. Told(r, {"rotate", "after"}) /\ Told(r, {"fill", "rotate", "after"})
  BY DEF RotatesLocally, Told
<1>2. request[r].copy \in Binding /\ Fresh(request[r].copy) /\ w.pool \in QuotaPool
  BY <1>1, Answered
<1>3. CASE Fit(r) = {}
  BY <1>1, <1>3, FindingNone DEF RotatesLocally
<1>4. CASE Fit(r) # {}
  <2>1. c \in Cred
    BY <1>2, <1>4, Fitting
  <2>2. Binds(r, request[r].copy, c)
    BY <1>4 DEF RotatesLocally
  <2> HIDE DEF c
  <2> QED BY <1>1, <1>2, <2>1, <2>2, BindingStep
<1> QED BY <1>3, <1>4

LEMMA LosingUpstream ==
  ASSUME Types, InTime, NEW r \in Request, NoUpstream(r)
  PROVE  Moves(r) /\ Stays
<1>1. /\ request[r].copy \in Binding /\ Fresh(request[r].copy) /\ ~request[r].work.counted
      /\ Allowed(r) /\ request[r].work.pool \in QuotaPool
  BY Before DEF NoUpstream, Phase, WorkFits, Tidy, Works, MayServe, Allowed
<1> QED BY <1>1, IsAdmitted, Rests, Unstored DEF NoUpstream

LEMMA Blaming ==
  ASSUME Types, InTime, NEW r \in Request, Blames(r)
  PROVE  Moves(r) /\ Stays
<1> DEFINE w == request[r].work
           b == Refreshed(r)
           a == Asking(w.pool, "after", w.cred, TRUE)
           v == [a EXCEPT !.cred = w.cred, !.counted = w.counted]
<1>1. /\ w \in Works /\ w.phase = "relaying" /\ w.cred \in Cred /\ w.pool \in QuotaPool
      /\ request[r].copy \in Binding /\ Fresh(request[r].copy) /\ w.counted \in BOOLEAN
  BY Before DEF Blames, Phase, WorkFits, Tidy, Works
<1>2. b \in Binding /\ Fresh(b)
  BY <1>1, RefreshedType DEF Fresh
<1>3. Stays
  BY Unstored DEF Blames
<1>4. Does(r, Ending(w), request[r].copy) \/ Does(r, v, b)
  BY DEF Blames
<1> HIDE DEF b, w
<1>5. CASE Does(r, Ending(w), request[r].copy)
  BY <1>1, <1>3, <1>5, Winds DEF w
<1>6. CASE Does(r, v, b)
  <2>1. /\ a \in Works /\ a.phase = "asking" /\ a.pool = w.pool /\ a.why = "after"
        /\ a.current = w.cred /\ a.told = NoAnswer
    <3> DEFINE p == w.pool
               c == w.cred
    <3>1. p \in QuotaPool /\ c \in Cred \cup {NoCred}
      BY <1>1
    <3> HIDE DEF p, c
    <3> DEFINE x == Asking(p, "after", c, TRUE)
    <3>2. \A why \in {"fill", "reseat", "rotate", "after", "reauth"}, rel \in BOOLEAN :
            LET y == Asking(p, why, c, rel)
            IN /\ y \in Works /\ y.phase = "asking" /\ y.pool = p /\ y.why = why
               /\ y.current = c /\ y.told = NoAnswer
      BY <3>1, AskingWork
    <3>3. x \in Works /\ x.phase = "asking" /\ x.pool = p /\ x.why = "after" /\ x.current = c
          /\ x.told = NoAnswer
      BY <3>2
    <3> HIDE DEF x
    <3> QED BY <3>3 DEF x, p, c
  <2> HIDE DEF a
  <2>2. /\ v \in Works /\ v.phase = "asking" /\ v.pool = w.pool /\ v.why = "after"
        /\ v.current = w.cred /\ v.told = NoAnswer /\ v.counted = w.counted
    BY <1>1, <2>1 DEF Works
  <2> HIDE DEF v
  <2>3. WorkFits(v) /\ Tidy(v, b, request[r].swap)
    BY <1>1, <1>2, <2>2, RestingFacts DEF WorkFits, Tidy, MayServe, Allowed
  <2> QED BY <1>2, <1>3, <1>6, <2>2, <2>3, GoesOn DEF w
<1> QED BY <1>4, <1>5, <1>6
-----------------------------------------------------------------------------
(* Every step *)

\* Everything a request does but binding the session, being counted and being done.
Serves(r) ==
  \/ \E p \in QuotaPool : Arrives(r, p) \/ Misses(r, p)
  \/ BindFails(r) \/ Swaps(r) \/ SwapEnds(r)
  \/ StartsSelect(r)
  \/ \E order \in Orders["auto"] \cup Orders["api"] : Advise(r, order)
  \/ AdviseFails(r) \/ Reauthorized(r) \/ Reseats(r) \/ UsesSettled(r)
  \/ Assigns(r) \/ FillsLocally(r) \/ RotatesLocally(r)
  \/ NoUpstream(r) \/ Blames(r)

LEMMA Serving ==
  ASSUME Types, InTime, NEW r \in Request, Serves(r)
  PROVE  Moves(r) /\ Stays
<1>1. CASE StartsSelect(r)
  <2>1. request[r].work.pool \in QuotaPool
    BY Before DEF Works
  <2> QED BY <1>1, <2>1, Selecting DEF StartsSelect
<1> QED BY <1>1, Arriving, Advised, Authorizing, Reseating, UsingSettled, Assigning,
           FillingLocally, RotatingLocally, LosingUpstream, Blaming DEF Serves

\* Track counts the request on its slot.
Counted(r) ==
  LET w == request[r].work
  IN /\ \E v \in Works, b \in Binding :
          /\ Does(r, v, b) /\ WorkFits(v) /\ Tidy(v, b, request[r].swap) /\ ~w.counted
          /\ v.counted <=> session.live
          /\ v.pool = w.pool
     /\ session' \in Binding /\ (session'.live => Fresh(session'))
     /\ session'.live <=> session.live
     /\ session.live => session'.busy = [session.busy EXCEPT ![w.pool] = @ + 1]

LEMMA Relaying ==
  ASSUME Types, InTime, NEW r \in Request, Relays(r)
  PROVE  Counted(r)
<1> DEFINE w == request[r].work
           b == request[r].copy
           v == [w EXCEPT !.phase = "relaying", !.counted = session.live]
<1>1. /\ w \in Works /\ w.phase = "chosen" /\ w.cred \in Cred /\ w.pool \in QuotaPool
      /\ b \in Binding /\ Fresh(b) /\ ~w.counted /\ session \in Binding
      /\ w.told \in Answers /\ ~w.told.advised
  BY Before DEF Relays, Phase, WorkFits, Tidy, Works
<1>2. Does(r, v, b)
  BY DEF Relays
<1> HIDE DEF w, b
<1>3. /\ v \in Works /\ v.phase = "relaying" /\ v.cred = w.cred /\ v.pool = w.pool
      /\ v.told = w.told /\ v.counted = session.live
  BY <1>1 DEF Works, Binding
<1> HIDE DEF v
<1>4. WorkFits(v) /\ Tidy(v, b, request[r].swap)
  BY <1>1, <1>3 DEF WorkFits, Tidy, MayServe, Allowed
<1>5. CASE session.live
  <2> DEFINE f == [session.busy EXCEPT ![w.pool] = @ + 1]
  <2>1. session.busy \in Counts /\ session.busy[w.pool] < BusyBound
    BY <1>1 DEF Relays, Binding, Counts, w
  <2>2. f \in Counts
    <3>1. session.busy[w.pool] + 1 \in 0..BusyBound
      BY <1>1, <2>1, StickyBounds DEF Counts
    <3> QED BY <1>1, <2>1, <3>1 DEF Counts
  <2>3. session' = [session EXCEPT !.busy = f]
    BY <1>1, <1>5 DEF Relays, Binding, w
  <2> HIDE DEF f
  <2>4. session' \in Binding /\ session'.live /\ session'.bound = session.bound /\ session'.busy = f
    BY <1>1, <1>5, <2>2, <2>3 DEF Binding, Counts
  <2> QED BY <1>1, <1>2, <1>3, <1>4, <1>5, <2>4 DEF Counted, InTime, Fresh, f, w
<1>6. CASE ~session.live
  <2>1. session' = session
    BY <1>6 DEF Relays
  <2> QED BY <1>1, <1>2, <1>3, <1>4, <1>6, <2>1 DEF Counted, w
<1> QED BY <1>5, <1>6

\* Track's end takes it off.
Uncounted(r) ==
  LET w == request[r].work
  IN /\ Ends(r) /\ session' \in Binding /\ (session'.live => Fresh(session'))
     /\ session'.live <=> session.live
     /\ session.live => session'.busy = IF w.counted
          THEN [session.busy EXCEPT ![w.pool] = IF @ > 0 THEN @ - 1 ELSE 0] ELSE session.busy

LEMMA Finishing ==
  ASSUME Types, InTime, NEW r \in Request, Finishes(r)
  PROVE  Uncounted(r)
<1> DEFINE w == request[r].work
           p == w.pool
<1>1. w \in Works /\ p \in QuotaPool /\ session \in Binding /\ Ends(r) /\ w.counted \in BOOLEAN
  BY Before DEF Finishes, Works
<1>2. CASE w.counted /\ session.live
  <2> DEFINE f == [session.busy EXCEPT ![p] = IF @ > 0 THEN @ - 1 ELSE 0]
             s == [session.slot EXCEPT ![p] = [session.slot[p] EXCEPT !.age = 0]]
  <2>1. session.busy \in Counts /\ session.slot \in Slots
    BY <1>1 DEF Binding, Counts, Slots
  <2>2. f \in Counts
    <3>1. session.busy[p] \in 0..BusyBound
      BY <1>1, <2>1 DEF Counts
    <3>2. (IF session.busy[p] > 0 THEN session.busy[p] - 1 ELSE 0) \in 0..BusyBound
      BY <3>1, StickyBounds
    <3> QED BY <1>1, <2>1, <3>2 DEF Counts
  <2>3. s \in Slots
    <3>1. [session.slot[p] EXCEPT !.age = 0] \in [cred : Cred \cup {NoCred}, age : 0..AgeBound]
      <4>1. session.slot[p] \in [cred : Cred \cup {NoCred}, age : 0..AgeBound]
        BY <1>1, <2>1 DEF Slots
      <4>2. 0 \in 0..AgeBound
        BY StickyBounds
      <4> QED BY <4>1, <4>2
    <3> QED BY <1>1, <2>1, <3>1 DEF Slots
  <2>4. session' = [session EXCEPT !.busy = f, !.slot = s]
    BY <1>1, <1>2 DEF Finishes, Binding
  <2> HIDE DEF f, s
  <2>5. session' \in Binding /\ session'.live /\ session'.bound = session.bound /\ session'.busy = f
    BY <1>1, <1>2, <2>2, <2>3, <2>4 DEF Binding, Counts, Slots
  <2> QED BY <1>1, <1>2, <2>5 DEF Uncounted, InTime, Fresh, f
<1>3. CASE ~(w.counted /\ session.live)
  <2>1. session' = session
    BY <1>3 DEF Finishes
  <2> QED BY <1>1, <1>3, <2>1 DEF Uncounted, InTime, Fresh
<1> QED BY <1>2, <1>3
-----------------------------------------------------------------------------
(* Seats, marks and history *)

LEMMA SeatsStay ==
  ASSUME Types, [StickyNext]_stickyVars
  PROVE  seats' \in Book
<1>0. seats \in Book /\ NoBoots \in Watch /\ DOMAIN seats = Pair
  BY DEF Types, NoBoots, Watch, Book
<1>1. Expired(seats, NoBoots, SeatTtl) \in Book
  BY <1>0, ExpiredType
<1>2. ASSUME NEW r \in Request, NEW o \in Orders["auto"] \cup Orders["api"], Advise(r, o)
      PROVE  seats' \in Book
  <2> DEFINE w == request[r].work
             q == Asked(w, request[r].copy, o)
  <2>1. w \in Works /\ request[r].copy \in Binding /\ WorkFits(w) /\ w.phase = "asking"
    BY <1>2 DEF Advise, Phase, Types
  <2>2. AskedPool(w) \in QuotaPool
    BY <2>1 DEF AskedPool, WorkFits, Works
  <2>3. q \in Question
    BY <2>1, <2>2, StickyBounds, SlotHolds DEF Asked, Question, Works
  <2>4. seats' = SeatsAfter(Expired(seats, NoBoots, SeatTtl), q)
    BY <1>2 DEF Advise
  <2> HIDE DEF q
  <2> QED BY <1>1, <2>3, <2>4, SeatsAfterType
<1>3. ASSUME NEW h \in Holder \ {Member}, NEW c \in Cred, RivalSits(h, c)
      PROVE  seats' \in Book
  <2> DEFINE s == Expired(seats, NoBoots, SeatTtl)
             p == <<h, AccountOf[c]>>
  <2>1. seats' = [s EXCEPT ![p] = [s[p] EXCEPT !.cred = c]]
    BY <1>1, <1>3 DEF RivalSits, Book
  <2>2. p \in Pair => [s[p] EXCEPT !.cred = c] \in Seat
    BY <1>1 DEF Book, Seat
  <2> HIDE DEF s, p
  <2> QED BY <1>1, <2>1, <2>2 DEF Book, s
<1>4. ASSUME NEW p \in Pair, RivalLeaves(p)
      PROVE  seats' \in Book
  BY <1>0, <1>4, BlankType DEF RivalLeaves, Book
<1>5. ASSUME Passes
      PROVE  seats' \in Book
  <2> DEFINE older == Expired(Aged(seats), NoBoots, SeatTtl)
  <2>1. older \in Book
    BY <1>0, AgedType, ExpiredType
  <2>2. seats' = [p \in Pair |-> IF p[1] = Member THEN older[p] ELSE seats[p]]
    BY <1>5 DEF Passes
  <2> HIDE DEF older
  <2> QED BY <1>0, <2>1, <2>2 DEF Book
<1>6. ASSUME UNCHANGED seats
      PROVE  seats' \in Book
  BY <1>0, <1>6
<1>7. ASSUME NEW r \in Request,
             \/ \E p \in QuotaPool : Arrives(r, p) \/ Misses(r, p)
             \/ BindsFresh(r) \/ BindFails(r) \/ Swaps(r) \/ SwapEnds(r)
             \/ StartsSelect(r) \/ AdviseFails(r) \/ Reauthorized(r) \/ Reseats(r)
             \/ UsesSettled(r) \/ Assigns(r) \/ FillsLocally(r) \/ RotatesLocally(r)
             \/ Relays(r) \/ NoUpstream(r) \/ Blames(r) \/ Finishes(r)
      PROVE  UNCHANGED seats
  BY <1>7 DEF Arrives, Misses, BindsFresh, BindFails, Swaps, SwapEnds, StartsSelect, AdviseFails, Reauthorized, Reseats, UsesSettled, Assigns,
              FillsLocally, RotatesLocally, Relays, NoUpstream, Blames, Finishes
<1>8. ASSUME MarksReset \/ CooldownOver \/ Revoke \/ UNCHANGED stickyVars
      PROVE  UNCHANGED seats
  BY <1>8 DEF MarksReset, CooldownOver, Revoke, stickyVars
<1> QED BY <1>2, <1>3, <1>4, <1>5, <1>6, <1>7, <1>8 DEF StickyNext, SessionStep

MarksFit ==
  exhausted \subseteq Cred \X QuotaPool /\ cooling \subseteq Cred /\ mishaps \in 0..MaxMishaps

LEMMA MishapCounted ==
  ASSUME Types, Mishap \/ NoMishap
  PROVE  mishaps' \in 0..MaxMishaps
BY DEF Types, Mishap, NoMishap

LEMMA ExchangeMarks ==
  ASSUME Types, NEW r \in Request, NEW b, NEW p, NEW c \in Cred, Exchanges(r, b, p, c)
  PROVE  cooling' \subseteq Cred /\ mishaps' \in 0..MaxMishaps
<1>1. (cooling' = cooling \/ cooling' = cooling \cup {c}) /\ (Mishap \/ NoMishap)
  BY DEF Exchanges
<1> QED BY <1>1, MishapCounted DEF Types

LEMMA MarksStay ==
  ASSUME Types, InTime, [StickyNext]_stickyVars
  PROVE  MarksFit'
<1>1. MarksFit
  BY DEF Types, MarksFit
<1>2. ASSUME UNCHANGED <<exhausted, cooling>>, Mishap \/ NoMishap PROVE MarksFit'
  BY <1>1, <1>2, MishapCounted DEF MarksFit
<1>3. ASSUME NEW r \in Request, StartsSelect(r) \/ UsesSettled(r) PROVE MarksFit'
  <2>1. UNCHANGED exhausted
    BY <1>3 DEF StartsSelect, UsesSettled
  <2>2. CASE UsesSettled(r)
    <3>1. request[r].work.cred \in Cred
      BY <2>2, Before DEF UsesSettled, Phase, WorkFits
    <3> QED BY <1>1, <2>1, <2>2, <3>1, ExchangeMarks DEF UsesSettled, MarksFit
  <2>3. CASE StartsSelect(r)
    <3> DEFINE b == Refreshed(r)
               p == request[r].work.pool
               c == b.slot[p].cred
    <3>1. p \in QuotaPool /\ b \in Binding
      BY Before, RefreshedType DEF Works
    <3>2. Active(b, p) => c \in Cred
      BY <3>1, SlotHolds
    <3>3. (UNCHANGED cooling /\ NoMishap) \/ (Active(b, p) /\ Exchanges(r, b, p, c))
      BY <2>3 DEF StartsSelect, Selects
    <3> HIDE DEF b, p, c
    <3> QED BY <1>1, <1>2, <2>1, <3>2, <3>3, ExchangeMarks DEF MarksFit
  <2> QED BY <1>3, <2>2, <2>3
<1>4. ASSUME NEW r \in Request, FillsLocally(r) PROVE MarksFit'
  <2>1. Told(r, {"fill", "rotate", "after"})
    BY <1>4 DEF FillsLocally, Told
  <2>2. request[r].work.pool \in QuotaPool
    BY <2>1, Answered
  <2> DEFINE order == LocalOrder[request[r].work.pool]
  <2>3. \A i \in Fit(r) : order[i] \in Cred
    BY <2>2, Fitting
  <2>4. cooling \subseteq Cred
    BY DEF Types
  <2> DEFINE Key(S) == {order[i] : i \in S}
  <2>5. cooling' \subseteq Cred
    <3>1. \/ cooling' = cooling \/ cooling' = cooling \cup Key(Fit(r))
          \/ \E i \in Fit(r) : cooling' = cooling \cup Key({k \in Fit(r) : k < i})
      BY <1>4 DEF FillsLocally
    <3>2. \A S \in SUBSET Fit(r) : Key(S) \subseteq Cred
      BY <2>3
    <3> HIDE DEF Key
    <3> QED BY <2>4, <3>1, <3>2
  <2>6. (Mishap \/ NoMishap) /\ UNCHANGED exhausted
    BY <1>4 DEF FillsLocally, FindsNone, NoMishap
  <2> QED BY <1>1, <2>5, <2>6, MishapCounted DEF MarksFit
<1>5. ASSUME NEW r \in Request, Blames(r) PROVE MarksFit'
  <2>1. request[r].work.cred \in Cred /\ request[r].work.pool \in QuotaPool
    BY <1>5, Before DEF Blames, Phase, WorkFits, Works
  <2>2. Mishap
    BY <1>5 DEF Blames
  <2>3. /\ \/ exhausted' = exhausted
           \/ exhausted' = exhausted \cup {<<request[r].work.cred, request[r].work.pool>>}
        /\ cooling' = cooling \/ cooling' = cooling \cup {request[r].work.cred}
    BY <1>5 DEF Blames
  <2> QED BY <1>1, <2>1, <2>2, <2>3, MishapCounted DEF MarksFit
<1>6. ASSUME NEW r \in Request,
             \/ \E p \in QuotaPool : Arrives(r, p) \/ Misses(r, p)
             \/ BindsFresh(r) \/ BindFails(r) \/ Swaps(r) \/ SwapEnds(r)
             \/ \E o \in Orders["auto"] \cup Orders["api"] : Advise(r, o)
             \/ AdviseFails(r) \/ Reauthorized(r) \/ Reseats(r) \/ Assigns(r)
             \/ RotatesLocally(r) \/ Relays(r) \/ NoUpstream(r) \/ Finishes(r)
      PROVE  UNCHANGED <<exhausted, cooling>> /\ (Mishap \/ NoMishap)
  <2>1. CASE \/ \E p \in QuotaPool : Arrives(r, p) \/ Misses(r, p)
             \/ BindsFresh(r) \/ BindFails(r) \/ Swaps(r) \/ SwapEnds(r)
    BY <2>1 DEF Arrives, Misses, BindsFresh, BindFails, Swaps, SwapEnds, NoMishap
  <2>2. CASE \/ \E o \in Orders["auto"] \cup Orders["api"] : Advise(r, o)
             \/ AdviseFails(r) \/ Reauthorized(r) \/ Reseats(r) \/ Relays(r) \/ NoUpstream(r)
             \/ Finishes(r)
    BY <2>2 DEF Advise, AdviseFails, Reauthorized, Reseats, Relays, NoUpstream, Finishes, NoMishap
  <2>3. CASE Assigns(r) \/ RotatesLocally(r)
    BY <2>3 DEF Assigns, RotatesLocally, FindsNone, Binds, NoMishap
  <2> QED BY <1>6, <2>1, <2>2, <2>3
<1>7. ASSUME \/ \E h \in Holder \ {Member}, c \in Cred : RivalSits(h, c)
             \/ \E p \in Pair : p[1] # Member /\ RivalLeaves(p)
             \/ Revoke \/ Passes \/ UNCHANGED stickyVars
      PROVE  UNCHANGED <<exhausted, cooling>> /\ (Mishap \/ NoMishap)
  BY <1>7 DEF RivalSits, RivalLeaves, Revoke, Passes, stickyVars, NoMishap
<1>8. ASSUME MarksReset \/ CooldownOver PROVE MarksFit'
  BY <1>1, <1>8 DEF MarksReset, CooldownOver, MarksFit
<1> QED BY <1>2, <1>3, <1>4, <1>5, <1>6, <1>7, <1>8 DEF StickyNext, SessionStep

\* History only grows, and has it when a deleted session comes back.
Remembered ==
  /\ notes' \in History /\ notes.rare \subseteq notes'.rare
  /\ ~session.live /\ session'.live => \/ "revived" \in notes'.rare
                                       \/ \E r \in Request : BindsFresh(r)

LEMMA NotingType ==
  ASSUME Types, NEW rare \in SUBSET RareThings,
         NEW slots \in SUBSET (Cred \X QuotaPool)
  PROVE  Noting(rare, slots) \in History /\ Noting(rare, slots).rare = notes.rare \cup rare
BY DEF Noting, Types, History

LEMMA WritingNoted ==
  ASSUME Types, NEW r \in Request, NEW p, NEW slots \in SUBSET (Cred \X QuotaPool),
         NotingWrite(r, p, slots)
  PROVE  Remembered
<1> DEFINE rare == (IF Stale(r, p) THEN {"crossed"} ELSE {})
                     \cup (IF session.live THEN {} ELSE {"revived"})
           some == IF request[r].work.told.advised THEN {} ELSE slots
<1>1. rare \in SUBSET RareThings /\ some \in SUBSET (Cred \X QuotaPool)
  BY DEF RareThings
<1>2. notes' = Noting(rare, some)
  BY DEF NotingWrite
<1>3. ~session.live => "revived" \in rare
  OBVIOUS
<1> HIDE DEF rare, some
<1> DEFINE n == Noting(rare, some)
<1>4. n \in History /\ n.rare = notes.rare \cup rare
  BY <1>1, NotingType
<1> HIDE DEF n
<1> QED BY <1>2, <1>3, <1>4 DEF Remembered, n

LEMMA NothingNoted ==
  ASSUME Types, UNCHANGED notes, session'.live => session.live
  PROVE  Remembered
BY DEF Types, Remembered

LEMMA HistoryKept ==
  ASSUME Types, InTime, [StickyNext]_stickyVars
  PROVE  Remembered
<1>1. ASSUME NEW r \in Request, StartsSelect(r) PROVE Remembered
  <2>1. CASE session'.live /\ ~session.live
    <3> DEFINE n == Noting({"revived"}, {})
    <3>1. n \in History /\ n.rare = notes.rare \cup {"revived"}
      BY NotingType DEF RareThings
    <3>2. notes' = n
      BY <1>1, <2>1 DEF StartsSelect
    <3> HIDE DEF n
    <3> QED BY <3>1, <3>2 DEF Remembered
  <2>2. CASE ~(session'.live /\ ~session.live)
    BY <1>1, <2>2, NothingNoted DEF StartsSelect
  <2> QED BY <2>1, <2>2
<1>2. ASSUME NEW r \in Request, NEW o \in Orders["auto"] \cup Orders["api"], Advise(r, o)
      PROVE  Remembered
  <2> DEFINE w == request[r].work
             q == Asked(w, request[r].copy, o)
             rare == IF q.release /\ Crossed(r, w.pool) THEN {"crossed"} ELSE {}
             some == IF q.release THEN {<<q.current, w.pool>>} ELSE {}
             all == Noting(rare, some)
  <2>1. w \in Works /\ WorkFits(w) /\ w.phase = "asking"
    BY <1>2, Before DEF Advise, Phase
  <2>2. q.release = w.release /\ q.current = w.current
    BY DEF Asked
  <2>3. w.release => w.current \in Cred
    BY <2>1 DEF WorkFits
  <2>4. rare \in SUBSET RareThings /\ some \in SUBSET (Cred \X QuotaPool)
    BY <2>1, <2>2, <2>3 DEF Works, RareThings
  <2>5. \E S \in SUBSET all.unseated : notes' = [all EXCEPT !.unseated = S]
    BY <1>2 DEF Advise
  <2>6. UNCHANGED session
    BY <1>2 DEF Advise
  <2> HIDE DEF rare, some
  <2>7. all \in History /\ all.rare = notes.rare \cup rare
    BY <2>4, NotingType
  <2> HIDE DEF all
  <2> QED BY <2>5, <2>6, <2>7 DEF Remembered, History
<1>3. ASSUME NEW r \in Request, Reauthorized(r) PROVE Remembered
  <2>1. FilledSlots(session) \in SUBSET (Cred \X QuotaPool)
    BY SlotHolds DEF FilledSlots, Types
  <2>2. CASE session' = NoBinding /\ UNCHANGED notes
    BY <2>2, NoBindingType, NothingNoted
  <2>3. CASE NotingWrite(r, request[r].work.cred, FilledSlots(session))
    BY <2>1, <2>3, WritingNoted
  <2>4. CASE UNCHANGED <<session, notes>>
    BY <2>4, NothingNoted
  <2> QED BY <1>3, <2>2, <2>3, <2>4 DEF Reauthorized
<1>4. ASSUME NEW r \in Request, Reseats(r) PROVE Remembered
  <2> DEFINE w == request[r].work
             c == IF w.told.advised THEN w.told.assigned ELSE w.current
             some == IF w.told.advised THEN {} ELSE {<<c, w.pool>>}
  <2>1. w \in Works
    BY Before
  <2>2. CASE UNCHANGED <<session, notes>>
    BY <2>2, NothingNoted
  <2>3. CASE c # NoCred /\ UNCHANGED session /\ notes' = Noting({}, some)
    <3>1. c \in Cred /\ w.pool \in QuotaPool
      BY <2>1, <2>3 DEF Works, Answers
    <3>2. some \in SUBSET (Cred \X QuotaPool)
      BY <3>1
    <3> HIDE DEF some
    <3>3. {} \in SUBSET RareThings
      OBVIOUS
    <3> QED BY <2>3, <3>2, <3>3, NotingType DEF Remembered
  <2>4. CASE NotingWrite(r, w.pool, {})
    BY <2>4, WritingNoted
  <2> QED BY <1>4, <2>2, <2>3, <2>4 DEF Reseats
<1>5. ASSUME NEW r \in Request, UsesSettled(r) PROVE Remembered
  <2>1. CASE session' = session
    BY <1>5, <2>1, NothingNoted DEF UsesSettled
  <2>2. CASE session' # session
    BY <1>5, <2>2, WritingNoted DEF UsesSettled
  <2> QED BY <2>1, <2>2
<1>6. ASSUME NEW r \in Request, NEW c \in Cred, NEW b, Told(r, {"fill", "rotate", "after"}),
             Binds(r, b, c)
      PROVE  Remembered
  <2>1. {<<c, request[r].work.pool>>} \in SUBSET (Cred \X QuotaPool)
    BY <1>6, Answered
  <2> QED BY <1>6, <2>1, WritingNoted DEF Binds
<1>7. ASSUME NEW r \in Request, FindsNone(r) PROVE Remembered
  BY <1>7, NothingNoted DEF FindsNone
<1>8. ASSUME NEW r \in Request, Assigns(r) PROVE Remembered
  <2> DEFINE w == request[r].work
             a == w.told.assigned
  <2>1. w.told \in Answers /\ Told(r, {"fill", "rotate", "after"})
    BY <1>8, Answered DEF Assigns
  <2>2. ~Hopeless(w, a) => a \in Cred
    BY <2>1 DEF Hopeless, Answers
  <2>3. \/ FindsNone(r)
        \/ ~Hopeless(w, a) /\ \E b : Binds(r, b, a)
        \/ UNCHANGED <<session, notes>>
    BY <1>8 DEF Assigns
  <2> QED BY <1>6, <1>7, <2>1, <2>2, <2>3, NothingNoted
<1>9. ASSUME NEW r \in Request, FillsLocally(r) PROVE Remembered
  <2> DEFINE w == request[r].work
             order == LocalOrder[w.pool]
  <2>1. Told(r, {"fill", "rotate", "after"})
    BY <1>9 DEF FillsLocally, Told
  <2>2. w.pool \in QuotaPool
    BY <2>1, Answered
  <2>3. ASSUME NEW i \in Fit(r), NotingWrite(r, w.pool, {<<order[i], w.pool>>}) PROVE Remembered
    <3>1. {<<order[i], w.pool>>} \in SUBSET (Cred \X QuotaPool)
      BY <2>2, Fitting
    <3> QED BY <2>3, <3>1, WritingNoted
  <2>4. CASE UNCHANGED <<session, notes>>
    BY <2>4, NothingNoted
  <2> QED BY <1>7, <1>9, <2>3, <2>4 DEF FillsLocally
<1>10. ASSUME NEW r \in Request, RotatesLocally(r) PROVE Remembered
  <2>1. Told(r, {"fill", "rotate", "after"})
    BY <1>10 DEF RotatesLocally, Told
  <2>2. Fit(r) # {} => LocalOrder[request[r].work.pool][Min(Fit(r))] \in Cred
    BY <2>1, Answered, Fitting
  <2> QED BY <1>6, <1>7, <1>10, <2>1, <2>2 DEF RotatesLocally
<1>11. ASSUME NEW r \in Request,
              \/ \E p \in QuotaPool : Arrives(r, p) \/ Misses(r, p)
              \/ BindFails(r) \/ Swaps(r) \/ SwapEnds(r)
              \/ AdviseFails(r) \/ NoUpstream(r) \/ Blames(r)
       PROVE  Remembered
  <2>1. UNCHANGED notes /\ (UNCHANGED session \/ session' = NoBinding)
    BY <1>11 DEF Arrives, Misses, BindFails, Swaps, SwapEnds, AdviseFails, NoUpstream, Blames
  <2> QED BY <2>1, NothingNoted, NoBindingType
<1>12. ASSUME NEW r \in Request, Relays(r) \/ Finishes(r) PROVE Remembered
  <2>1. session'.live => session.live
    BY <1>12, Relaying, Finishing DEF Counted, Uncounted
  <2> QED BY <1>12, <2>1, NothingNoted DEF Relays, Finishes
<1>13. ASSUME \/ \E h \in Holder \ {Member}, c \in Cred : RivalSits(h, c)
              \/ \E p \in Pair : p[1] # Member /\ RivalLeaves(p)
              \/ MarksReset \/ CooldownOver \/ Revoke \/ UNCHANGED stickyVars
       PROVE  Remembered
  BY <1>13, NothingNoted DEF RivalSits, RivalLeaves, MarksReset, CooldownOver, Revoke, stickyVars
<1>14. ASSUME Passes PROVE Remembered
  <2>1. UNCHANGED notes /\ session' = OlderBinding(session)
    BY <1>14 DEF Passes
  <2>2. session'.live = session.live
    BY <2>1 DEF OlderBinding, Types, Binding
  <2> QED BY <2>1, <2>2, NothingNoted
<1>15. ASSUME NEW r \in Request, BindsFresh(r) PROVE Remembered
  <2> DEFINE rare == IF \E o \in Request : request[o].work.counted THEN {"rebound"} ELSE {}
             n == Noting(rare, {})
  <2>1. rare \in SUBSET RareThings
    BY DEF RareThings
  <2>2. notes' = n
    BY <1>15, BindingAfresh
  <2> HIDE DEF rare
  <2>3. n \in History /\ n.rare = notes.rare \cup rare
    BY <2>1, NotingType
  <2> HIDE DEF n
  <2> QED BY <1>15, <2>2, <2>3 DEF Remembered
<1> QED BY <1>1, <1>2, <1>3, <1>4, <1>5, <1>8, <1>9, <1>10, <1>11, <1>12, <1>13, <1>14, <1>15
        DEF StickyNext, SessionStep
-----------------------------------------------------------------------------
(* The invariant *)

RequestsFit ==
  /\ request \in [Request -> [work : Works, copy : Binding, swap : BOOLEAN]]
  /\ \A r \in Request :
       WorkFits(request[r].work) /\ Tidy(request[r].work, request[r].copy, request[r].swap)

LEMMA OneGoes ==
  ASSUME Types, InTime, NEW r \in Request, NEW w \in Works, NEW b \in Binding,
         NEW swap \in BOOLEAN, Goes(r, w, b, swap), WorkFits(w), Tidy(w, b, swap),
         UNCHANGED revoked
  PROVE  RequestsFit'
<1> DEFINE n == [work |-> w, copy |-> b, swap |-> swap]
<1>1. request' = [request EXCEPT ![r] = n]
  BY DEF Goes
<1>2. n \in [work : Works, copy : Binding, swap : BOOLEAN]
      /\ n.work = w /\ n.copy = b /\ n.swap = swap
  OBVIOUS
<1> HIDE DEF n
<1>3. request' \in [Request -> [work : Works, copy : Binding, swap : BOOLEAN]]
  BY <1>1, <1>2 DEF Types
<1>4. ASSUME NEW q \in Request
      PROVE  /\ WorkFits(request'[q].work)
             /\ Tidy(request[q].work, request[q].copy, request[q].swap)'
  <2>1. CASE q = r
    <3>1. request'[q] = n
      BY <1>1, <2>1 DEF Types
    <3> QED BY <1>2, <3>1 DEF Tidy, Fresh
  <2>2. CASE q # r
    <3>1. request'[q] = request[q]
      BY <1>1, <2>2 DEF Types
    <3>2. /\ WorkFits(request[q].work)
          /\ Tidy(request[q].work, request[q].copy, request[q].swap)
      BY DEF Types, InTime
    <3> QED BY <3>1, <3>2 DEF Tidy, Fresh
  <2> QED BY <2>1, <2>2
<1> QED BY <1>3, <1>4 DEF RequestsFit, Tidy, Fresh

LEMMA OneDoes ==
  ASSUME Types, InTime, NEW r \in Request, NEW w \in Works, NEW b \in Binding, Does(r, w, b),
         WorkFits(w), Tidy(w, b, request[r].swap), UNCHANGED revoked
  PROVE  RequestsFit'
BY DoesGo, OneGoes

LEMMA OlderFit ==
  ASSUME NEW b \in Binding
  PROVE  /\ OlderBinding(b) \in Binding /\ OlderBinding(b).live = b.live
         /\ OlderBinding(b).busy = b.busy
         /\ OlderBinding(b).bound = OneOlder(b.bound, SessionTtl + 1)
<1> DEFINE t == OneOlder(b.bound, SessionTtl + 1)
           f == [p \in QuotaPool |-> OlderSlot(b.slot[p])]
<1>1. t \in 0..SessionTtl + 1
  BY StickyBounds DEF OneOlder, Binding
<1>2. ASSUME NEW p \in QuotaPool
      PROVE  OlderSlot(b.slot[p]) \in [cred : Cred \cup {NoCred}, age : 0..AgeBound]
  <2> DEFINE x == b.slot[p]
  <2>1. x \in [cred : Cred \cup {NoCred}, age : 0..AgeBound]
    BY DEF Binding
  <2> HIDE DEF x
  <2>2. OneOlder(x.age, AgeBound) \in 0..AgeBound
    BY <2>1, StickyBounds DEF OneOlder
  <2>3. OlderSlot(x) \in [cred : Cred \cup {NoCred}, age : 0..AgeBound]
    BY <2>1, <2>2 DEF OlderSlot
  <2> QED BY <2>3 DEF x
<1>3. f \in Slots
  BY <1>2 DEF Slots
<1>4. OlderBinding(b) = [b EXCEPT !.bound = t, !.slot = f]
  BY DEF OlderBinding, Binding
<1> HIDE DEF t, f
<1>5. [b EXCEPT !.bound = t, !.slot = f] \in Binding
      /\ [b EXCEPT !.bound = t, !.slot = f].live = b.live
      /\ [b EXCEPT !.bound = t, !.slot = f].busy = b.busy
      /\ [b EXCEPT !.bound = t, !.slot = f].bound = t
  BY <1>1, <1>3 DEF Binding, Slots
<1> QED BY <1>4, <1>5 DEF t

LEMMA OlderRevocation ==
  ASSUME Types, Passes
  PROVE  /\ revoked' \in {Never} \cup 0..SessionTtl + 2
         /\ \A b \in Binding : Fresh(b) => revoked' = Never \/ OlderBinding(b).bound >= revoked'
                                           \/ OlderBinding(b).bound > SessionTtl
<1>1. revoked' = IF revoked = Never THEN Never ELSE OneOlder(revoked, SessionTtl + 2)
  BY DEF Passes
<1>2. revoked \in {Never} \cup 0..SessionTtl + 2
  BY DEF Types
<1>3. revoked' \in {Never} \cup 0..SessionTtl + 2
  BY <1>1, <1>2, StickyBounds DEF OneOlder
<1>4. ASSUME NEW b \in Binding, Fresh(b)
      PROVE  \/ revoked' = Never
             \/ OlderBinding(b).bound >= revoked' \/ OlderBinding(b).bound > SessionTtl
  <2>1. b.bound \in 0..SessionTtl + 1
    BY DEF Binding
  <2>2. OlderBinding(b).bound = IF b.bound < SessionTtl + 1 THEN b.bound + 1 ELSE SessionTtl + 1
    BY OlderFit DEF OneOlder
  <2> QED BY <1>1, <1>2, <1>4, <2>1, <2>2, StickyBounds DEF OneOlder, Fresh
<1> QED BY <1>3, <1>4

\* No time passes while a request takes a step.
LEMMA Timeless ==
  ASSUME NEW r \in Request, Serves(r) \/ BindsFresh(r) \/ Relays(r) \/ Finishes(r)
  PROVE  UNCHANGED revoked
BY DEF Serves, Arrives, Misses, BindsFresh, BindFails, Swaps, SwapEnds, StartsSelect, Advise, AdviseFails, Reauthorized, Reseats, UsesSettled,
       Assigns, FillsLocally, RotatesLocally, NoUpstream, Blames, Relays, Finishes

LEMMA KeptInTime ==
  ASSUME Types, InTime, [StickyNext]_stickyVars
  PROVE  Types' /\ InTime'
<1>1. /\ seats' \in Book /\ exhausted' \subseteq Cred \X QuotaPool /\ cooling' \subseteq Cred
      /\ mishaps' \in 0..MaxMishaps /\ notes' \in History /\ minted' \in BOOLEAN
  <2>1. UNCHANGED minted /\ minted \in BOOLEAN
    BY DEF StickyNext, stickyVars, Types
  <2> QED BY <2>1, SeatsStay, MarksStay, HistoryKept DEF MarksFit, Remembered
<1>2. ASSUME RequestsFit', session' \in Binding, revoked' \in {Never} \cup 0..SessionTtl + 2,
             session'.live => \/ revoked' = Never
                              \/ session'.bound >= revoked' \/ session'.bound > SessionTtl
      PROVE  Types' /\ InTime'
  BY <1>1, <1>2 DEF Types, InTime, RequestsFit, Fresh, Tidy
<1>3. revoked \in {Never} \cup 0..SessionTtl + 2 /\ RequestsFit
  BY DEF Types, InTime, RequestsFit
<1>4. ASSUME NEW r \in Request, Serves(r) \/ BindsFresh(r) \/ Relays(r) \/ Finishes(r)
      PROVE  Types' /\ InTime'
  <2>1. UNCHANGED revoked
    BY <1>4, Timeless
  <2>2. CASE Serves(r)
    <3>1. Moves(r) /\ Stays
      BY <2>2, Serving
    <3>2. RequestsFit'
      BY <2>1, <3>1, OneGoes DEF Moves
    <3> QED BY <1>2, <1>3, <2>1, <3>1, <3>2 DEF Stays, Fresh
  <2>3. CASE Relays(r)
    <3>1. Counted(r)
      BY <2>3, Relaying
    <3>2. RequestsFit'
      BY <2>1, <3>1, OneDoes DEF Counted
    <3> QED BY <1>2, <1>3, <2>1, <3>1, <3>2 DEF Counted, Fresh
  <2>4. CASE Finishes(r)
    <3>1. Uncounted(r)
      BY <2>4, Finishing
    <3>2. Tidy(Resting, NoBinding, request[r].swap)
      BY RestingFacts DEF Tidy
    <3>3. RequestsFit'
      BY <2>1, <3>1, <3>2, OneDoes, RestingFacts, NoBindingType DEF Uncounted, Ends
    <3> QED BY <1>2, <1>3, <2>1, <3>1, <3>3 DEF Uncounted, Fresh
  <2>5. CASE BindsFresh(r)
    <3>1. Moves(r) /\ session' \in Binding /\ revoked = Never
      BY <2>5, BindingAfresh
    <3>2. RequestsFit'
      BY <2>1, <3>1, OneGoes DEF Moves
    <3> QED BY <1>2, <1>3, <2>1, <3>1, <3>2
  <2> QED BY <1>4, <2>2, <2>3, <2>4, <2>5
<1>5. ASSUME UNCHANGED <<session, request, revoked>> PROVE Types' /\ InTime'
  <2>1. RequestsFit'
    BY <1>3, <1>5 DEF RequestsFit, Tidy, Fresh
  <2> QED BY <1>2, <1>3, <1>5, <2>1 DEF Types, InTime, Fresh
<1>6. ASSUME Revoke PROVE Types' /\ InTime'
  <2>1. revoked' = 0 /\ UNCHANGED <<session, request>>
    BY <1>6 DEF Revoke
  <2>2. \A b \in Binding : b.bound >= 0
    BY DEF Binding
  <2>3. RequestsFit'
    BY <1>3, <2>1, <2>2, StickyBounds DEF RequestsFit, Tidy, Fresh
  <2>4. session \in Binding
    BY DEF Types
  <2> QED BY <1>2, <2>1, <2>2, <2>3, <2>4, StickyBounds
<1>7. ASSUME Passes PROVE Types' /\ InTime'
  <2>1. /\ revoked' \in {Never} \cup 0..SessionTtl + 2
        /\ \A b \in Binding : Fresh(b) => revoked' = Never \/ OlderBinding(b).bound >= revoked'
                                          \/ OlderBinding(b).bound > SessionTtl
    BY <1>7, OlderRevocation
  <2>2. /\ session' = OlderBinding(session) /\ session \in Binding
        /\ request' = [r \in Request |-> IF Phase(r) = "idle" THEN request[r]
                         ELSE [request[r] EXCEPT !.copy = OlderBinding(request[r].copy)]]
    BY <1>7 DEF Passes, Types
  <2>3. ASSUME NEW r \in Request
        PROVE  /\ request'[r] \in [work : Works, copy : Binding, swap : BOOLEAN]
               /\ WorkFits(request'[r].work)
               /\ Tidy(request[r].work, request[r].copy, request[r].swap)'
    <3> DEFINE w == request[r].work
               b == request[r].copy
    <3>1. /\ request[r] \in [work : Works, copy : Binding, swap : BOOLEAN]
          /\ w \in Works /\ b \in Binding
          /\ WorkFits(w) /\ Tidy(w, b, request[r].swap)
      BY DEF Types, InTime
    <3>2. w.phase \in {"idle", "relaying"}
      BY <1>7 DEF Passes, Phase
    <3>3. ~MayServe(w) /\ ~w.told.advised
      BY <3>1, <3>2 DEF MayServe, WorkFits
    <3>4. CASE w.phase = "idle"
      <4>1. request'[r] = request[r]
        BY <2>2, <3>4 DEF Phase
      <4> QED BY <3>1, <3>3, <3>4, <4>1 DEF Tidy
    <3>5. CASE w.phase # "idle"
      <4>1. request'[r] = [request[r] EXCEPT !.copy = OlderBinding(b)]
        BY <2>2, <3>5 DEF Phase
      <4>2. OlderBinding(b) \in Binding
        BY <3>1, OlderFit
      <4>3. request'[r] \in [work : Works, copy : Binding, swap : BOOLEAN]
            /\ request'[r].work = w /\ request'[r].copy = OlderBinding(b)
        BY <3>1, <4>1, <4>2
      <4>4. \/ revoked' = Never
            \/ OlderBinding(b).bound >= revoked' \/ OlderBinding(b).bound > SessionTtl
        BY <2>1, <3>1, <3>2, <3>5 DEF Tidy
      <4> HIDE DEF b, w
      <4> QED BY <3>1, <3>3, <4>3, <4>4 DEF Tidy, Fresh
    <3> QED BY <3>4, <3>5
  <2>4. RequestsFit'
    BY <2>2, <2>3 DEF RequestsFit, Tidy, Fresh
  <2>5. session' \in Binding /\ session'.live = session.live
    BY <2>2, OlderFit
  <2> QED BY <1>2, <2>1, <2>2, <2>4, <2>5 DEF InTime
<1>8. ASSUME \/ \E h \in Holder \ {Member}, c \in Cred : RivalSits(h, c)
             \/ \E p \in Pair : p[1] # Member /\ RivalLeaves(p)
             \/ MarksReset \/ CooldownOver \/ UNCHANGED stickyVars
      PROVE  UNCHANGED <<session, request, revoked>>
  BY <1>8 DEF RivalSits, RivalLeaves, MarksReset, CooldownOver, stickyVars
<1> QED BY <1>4, <1>5, <1>6, <1>7, <1>8 DEF StickyNext, SessionStep, Serves

LEMMA StartsFit == StickyInit => Types /\ InTime
<1> SUFFICES ASSUME StickyInit PROVE Types /\ InTime
  OBVIOUS
<1>1. PICK c \in Cred \cup {NoCred}, d \in Cred \cup {NoCred}, h \in Holder \ {Member} :
        /\ minted = (c # NoCred)
        /\ session = [NoBinding EXCEPT !.live = minted, !.slot["auto"].cred = c]
        /\ seats = Sitting(h, c, d)
  BY DEF StickyInit
<1>0. minted \in BOOLEAN
  BY <1>1
<1>2. Sitting(h, c, d) \in Book
  <2>1. \A x \in Cred \cup {NoCred} : [Blank EXCEPT !.cred = x] \in Seat
    BY BlankType DEF Seat
  <2> QED BY <2>1 DEF Sitting, Book
<1>3. session \in Binding /\ session.bound = 0
  <2> DEFINE e == [NoBinding.slot["auto"] EXCEPT !.cred = c]
             f == [NoBinding.slot EXCEPT !["auto"] = e]
  <2>1. NoBinding \in Binding /\ NoBinding.bound = 0 /\ "auto" \in QuotaPool
    BY NoBindingType, StickyBounds DEF NoBinding
  <2>2. NoBinding.slot["auto"] \in [cred : Cred \cup {NoCred}, age : 0..AgeBound]
    BY <2>1 DEF Binding
  <2>3. e \in [cred : Cred \cup {NoCred}, age : 0..AgeBound]
    BY <2>2
  <2>4. f \in Slots
    <3> HIDE DEF e
    <3> QED BY <2>1, <2>3 DEF Binding, Slots
  <2>5. session = [NoBinding EXCEPT !.live = minted, !.slot = f]
    BY <1>1
  <2> HIDE DEF f
  <2> QED BY <1>0, <2>1, <2>4, <2>5 DEF Binding, Slots
<1>4. request = [r \in Request |-> [work |-> Resting, copy |-> NoBinding, swap |-> FALSE]]
  BY DEF StickyInit
<1>5. /\ request \in [Request -> [work : Works, copy : Binding, swap : BOOLEAN]]
      /\ \A r \in Request : request[r].work = Resting
  BY <1>4, RestingFacts, NoBindingType
<1>6. \A swap : Tidy(Resting, NoBinding, swap)
  BY RestingFacts DEF Tidy
<1>7. revoked \in {Never, 0} /\ Fresh(session)
  BY <1>3 DEF StickyInit, Fresh
<1>8. revoked \in {Never} \cup 0..SessionTtl + 2
  BY <1>7, StickyBounds
<1>9. notes \in History
  BY DEF StickyInit, History
<1> QED BY <1>0, <1>1, <1>2, <1>3, <1>4, <1>5, <1>6, <1>7, <1>8, <1>9, RestingFacts
        DEF StickyInit, Types, InTime

LEMMA StickyHolds == StickySpec => [](Types /\ InTime)
BY StartsFit, KeptInTime, PTL DEF StickySpec

\* The slots, the copies requests work on, the seats and the marks are well formed, and
\* whoever is on the way to an upstream has a credential for it.
THEOREM StickyTyped == StickySpec => []StickyTypeOK
<1>1. Types /\ InTime => StickyTypeOK
  <2> SUFFICES ASSUME Types PROVE StickyTypeOK
    OBVIOUS
  <2>1. \A r \in Request : /\ request[r].copy \in Binding /\ request[r].swap \in BOOLEAN
                           /\ Phase(r) \in {"chosen", "relaying"} => request[r].work.cred \in Cred
    BY DEF Types, WorkFits, Phase
  <2> QED BY <2>1 DEF Types, StickyTypeOK, Book, History, RareThings
<1> QED BY <1>1, StickyHolds, PTL

\* Whoever is sent to an upstream by a step takes that step, and does not begin to swap.
LEMMA ServedSoon ==
  ASSUME Types, InTime, [StickyNext]_stickyVars, NEW r \in Request, Served(r)
  PROVE  UNCHANGED revoked /\ ~request'[r].swap
<1>1. ASSUME \/ \E h \in Holder \ {Member}, c \in Cred : RivalSits(h, c)
             \/ \E p \in Pair : p[1] # Member /\ RivalLeaves(p)
             \/ MarksReset \/ CooldownOver \/ Revoke \/ UNCHANGED stickyVars
      PROVE  FALSE
  <2>1. UNCHANGED request
    BY <1>1 DEF RivalSits, RivalLeaves, MarksReset, CooldownOver, Revoke, stickyVars
  <2> QED BY <2>1 DEF Served, Phase
<1>2. ASSUME Passes PROVE FALSE
  <2>1. request'[r] = IF Phase(r) = "idle" THEN request[r]
                      ELSE [request[r] EXCEPT !.copy = OlderBinding(request[r].copy)]
    BY <1>2 DEF Passes
  <2>2. request[r] \in [work : Works, copy : Binding, swap : BOOLEAN]
    BY DEF Types
  <2>3. request'[r].work = request[r].work
    BY <2>1, <2>2
  <2> QED BY <2>3 DEF Served, Phase
<1>3. ASSUME NEW q \in Request, NEW w \in Works, NEW b \in Binding, NEW swap \in BOOLEAN,
             Goes(q, w, b, swap), swap => request[q].swap \/ w.phase = "admitted"
      PROVE  ~request'[r].swap
  <2> DEFINE n == [work |-> w, copy |-> b, swap |-> swap]
  <2>1. request'[r] = IF r = q THEN n ELSE request[r]
    BY <1>3 DEF Goes, Types
  <2>2. n.work = w /\ n.swap = swap
    OBVIOUS
  <2>3. request'[r].work.phase = "chosen" /\ ~request[r].swap
    BY DEF Served
  <2> HIDE DEF n
  <2> QED BY <1>3, <2>1, <2>2, <2>3
<1>4. ASSUME NEW q \in Request, NEW w \in Works, NEW b \in Binding, Does(q, w, b)
      PROVE  ~request'[r].swap
  <2> DEFINE x == request[q].swap /\ w.phase # "idle"
  <2>1. x \in BOOLEAN /\ (x => request[q].swap) /\ Goes(q, w, b, x)
    BY <1>4 DEF Does, Goes
  <2> HIDE DEF x
  <2> QED BY <1>3, <2>1
<1>5. ASSUME NEW q \in Request, Serves(q) \/ BindsFresh(q) \/ Relays(q) \/ Finishes(q)
      PROVE  UNCHANGED revoked /\ ~request'[r].swap
  <2>1. UNCHANGED revoked
    BY <1>5, Timeless
  <2>2. CASE Serves(q) \/ BindsFresh(q)
    BY <1>3, <2>1, <2>2, Serving, BindingAfresh DEF Moves
  <2>3. CASE Relays(q)
    BY <1>4, <2>1, <2>3, Relaying DEF Counted
  <2>4. CASE Finishes(q)
    BY <1>4, <2>1, <2>4, Finishing, RestingFacts, NoBindingType DEF Uncounted, Ends
  <2> QED BY <1>5, <2>2, <2>3, <2>4
<1> QED BY <1>1, <1>2, <1>5 DEF StickyNext, SessionStep, Serves

\* After its key is revoked a session serves billed requests for at most SessionTtl, also
\* when a request under way has brought it back after it was deleted: no binding or copy
\* that can serve has been authorized since the revocation, and none is authorized any
\* more. Requests that only swap the token are outside it, as in the code.
THEOREM RevokedStops == StickySpec => RevokedSoon
<1>1. ASSUME Types, InTime, (Types /\ InTime)', [StickyNext]_stickyVars, NEW r \in Request,
             Served(r)
      PROVE  revoked <= SessionTtl
  <2>1. UNCHANGED revoked /\ ~request'[r].swap
    BY <1>1, ServedSoon
  <2>2. request'[r].swap \/ revoked' <= SessionTtl
    BY <1>1 DEF InTime, Tidy, MayServe, Served
  <2> QED BY <2>1, <2>2
<1>2. Types /\ InTime /\ (Types /\ InTime)' /\ [StickyNext]_stickyVars
      => [\A r \in Request : Served(r) => revoked <= SessionTtl]_stickyVars
  BY <1>1
<1> QED BY <1>2, StickyHolds, PTL DEF StickySpec, RevokedSoon

-----------------------------------------------------------------------------
(* The counts *)

\* The requests counted on a slot.
Tracked(p) == {r \in Request : request[r].work.counted /\ request[r].work.pool = p}

LEMMA TrackedFinite ==
  ASSUME NEW p
  PROVE  IsFiniteSet(Tracked(p)) /\ Cardinality(Tracked(p)) \in Nat
<1>1. IsFiniteSet(Tracked(p))
  BY FS_Subset DEF Tracked
<1> QED BY <1>1, FS_CardinalityType

\* A step of a request changes nobody else's being counted.
LEMMA OthersTracked ==
  ASSUME Types, NEW r \in Request, NEW w, NEW b, Does(r, w, b) \/ \E s : Goes(r, w, b, s), NEW p
  PROVE  Tracked(p)' = (Tracked(p) \ {r}) \cup (IF w.counted /\ w.pool = p THEN {r} ELSE {})
<1>1. \A q \in Request : request'[q].work = IF q = r THEN w ELSE request[q].work
  BY DEF Does, Goes, Types
<1> QED BY <1>1 DEF Tracked

\* Who moves is counted where it was.
LEMMA MovesTracked ==
  ASSUME Types, NEW r \in Request, Moves(r), NEW p
  PROVE  Tracked(p)' = Tracked(p)
<1>1. PICK w \in Works, b \in Binding, swap \in BOOLEAN :
        /\ Goes(r, w, b, swap)
        /\ w.counted <=> request[r].work.counted
        /\ w.counted => w.pool = request[r].work.pool
  BY DEF Moves
<1>2. Tracked(p)' = (Tracked(p) \ {r}) \cup (IF w.counted /\ w.pool = p THEN {r} ELSE {})
  BY <1>1, OthersTracked
<1>3. w.counted /\ w.pool = p <=> r \in Tracked(p)
  BY <1>1 DEF Tracked
<1> QED BY <1>2, <1>3

CountsHold ==
  session.live /\ notes.rare \cap {"revived", "rebound"} = {} =>
    \A p \in QuotaPool : session.busy[p] = Cardinality(Tracked(p))

LEMMA CountsKept ==
  ASSUME Types, InTime, CountsHold, [StickyNext]_stickyVars
  PROVE  CountsHold'
<1> SUFFICES ASSUME session'.live, notes'.rare \cap {"revived", "rebound"} = {}, NEW p \in QuotaPool
             PROVE  session'.busy[p] = Cardinality(Tracked(p)')
  BY DEF CountsHold, Tracked
<1>0. ASSUME NEW r \in Request, BindsFresh(r)
      PROVE  session'.busy[p] = Cardinality(Tracked(p)')
  <2> DEFINE rare == IF \E o \in Request : request[o].work.counted THEN {"rebound"} ELSE {}
             n == Noting(rare, {})
  <2>1. notes' = n /\ session'.busy[p] = 0 /\ Moves(r)
    BY <1>0, BindingAfresh
  <2>2. rare \in SUBSET RareThings
    BY DEF RareThings
  <2>3. n.rare = notes.rare \cup rare
    <3> HIDE DEF rare
    <3> QED BY <2>2, NotingType
  <2> HIDE DEF n
  <2>4. "rebound" \notin rare
    <3> HIDE DEF rare
    <3> QED BY <2>1, <2>3
  <2>5. Tracked(p) = {}
    BY <2>4 DEF Tracked
  <2>6. Tracked(p)' = {}
    BY <2>1, <2>5, MovesTracked
  <2> QED BY <2>1, <2>6, FS_EmptySet
<1> SUFFICES ASSUME \A r \in Request : ~BindsFresh(r)
             PROVE  session'.busy[p] = Cardinality(Tracked(p)')
  BY <1>0
<1>1. session.live /\ notes.rare \cap {"revived", "rebound"} = {}
  BY HistoryKept DEF Remembered
<1>2. session.busy[p] = Cardinality(Tracked(p)) /\ session.busy[p] \in Nat
  BY <1>1, TrackedFinite DEF CountsHold
<1>3. ASSUME session'.busy[p] = session.busy[p], Tracked(p)' = Tracked(p)
      PROVE  session'.busy[p] = Cardinality(Tracked(p)')
  BY <1>2, <1>3
<1>4. ASSUME NEW r \in Request, Serves(r)
      PROVE  session'.busy[p] = Cardinality(Tracked(p)')
  <2>1. session'.busy = session.busy
    BY <1>1, <1>4, Serving DEF Stays
  <2>2. Tracked(p)' = Tracked(p)
    BY <1>4, Serving, MovesTracked
  <2> QED BY <1>3, <2>1, <2>2
<1>5. ASSUME NEW r \in Request, Relays(r)
      PROVE  session'.busy[p] = Cardinality(Tracked(p)')
  <2> DEFINE q == request[r].work.pool
  <2>1. /\ ~request[r].work.counted /\ q \in QuotaPool
        /\ session'.busy = [session.busy EXCEPT ![q] = @ + 1]
    BY <1>1, <1>5, Relaying, Before DEF Counted, Works
  <2>2. PICK v \in Works, b \in Binding : Does(r, v, b) /\ v.counted /\ v.pool = q
    BY <1>1, <1>5, Relaying DEF Counted
  <2>3. r \notin Tracked(p)
    BY <2>1 DEF Tracked
  <2>4. DOMAIN session.busy = QuotaPool
    BY DEF Types, Binding
  <2>5. CASE p = q
    <3>1. Tracked(p)' = Tracked(p) \cup {r}
      BY <2>2, <2>3, <2>5, OthersTracked
    <3>2. Cardinality(Tracked(p) \cup {r}) = Cardinality(Tracked(p)) + 1
      BY <2>3, TrackedFinite, FS_AddElement
    <3> QED BY <1>2, <2>1, <2>4, <2>5, <3>1, <3>2
  <2>6. CASE p # q
    <3>1. Tracked(p)' = (Tracked(p) \ {r}) \cup (IF v.counted /\ v.pool = p THEN {r} ELSE {})
      BY <2>2, OthersTracked
    <3>2. ~(v.counted /\ v.pool = p)
      BY <2>2, <2>6
    <3>3. Tracked(p)' = Tracked(p)
      BY <2>3, <3>1, <3>2
    <3> QED BY <1>3, <2>1, <2>4, <2>6, <3>3
  <2> QED BY <2>5, <2>6
<1>6. ASSUME NEW r \in Request, Finishes(r)
      PROVE  session'.busy[p] = Cardinality(Tracked(p)')
  <2> DEFINE w == request[r].work
             q == w.pool
  <2>1. /\ Does(r, Resting, NoBinding) /\ ~Resting.counted /\ q \in QuotaPool
        /\ session'.busy = IF w.counted THEN [session.busy EXCEPT ![q] = IF @ > 0 THEN @ - 1 ELSE 0]
                                        ELSE session.busy
    BY <1>1, <1>6, Finishing, Before, RestingFacts DEF Uncounted, Ends, Works
  <2>2. Tracked(p)' = Tracked(p) \ {r}
    BY <2>1, OthersTracked
  <2>3. DOMAIN session.busy = QuotaPool
    BY DEF Types, Binding
  <2>4. CASE w.counted /\ p = q
    <3>1. r \in Tracked(p)
      BY <2>4 DEF Tracked
    <3>2. Cardinality(Tracked(p) \ {r}) = Cardinality(Tracked(p)) - 1
      BY <3>1, TrackedFinite, FS_RemoveElement
    <3>3. Cardinality(Tracked(p) \ {r}) \in Nat
      BY TrackedFinite, FS_Subset, FS_CardinalityType
    <3>4. session'.busy[p] = IF session.busy[p] > 0 THEN session.busy[p] - 1 ELSE 0
      BY <2>1, <2>3, <2>4
    <3> QED BY <1>2, <2>2, <3>2, <3>3, <3>4
  <2>5. CASE ~(w.counted /\ p = q)
    <3>1. Tracked(p)' = Tracked(p)
      BY <2>2, <2>5 DEF Tracked
    <3>2. session'.busy[p] = session.busy[p]
      BY <2>1, <2>3, <2>5
    <3> QED BY <1>3, <3>1, <3>2
  <2> QED BY <2>4, <2>5
<1>7. ASSUME UNCHANGED <<session, request>>
      PROVE  session'.busy[p] = Cardinality(Tracked(p)')
  BY <1>3, <1>7 DEF Tracked
<1>8. ASSUME Passes
      PROVE  session'.busy[p] = Cardinality(Tracked(p)')
  <2>1. session'.busy = session.busy
    BY <1>8, OlderFit DEF Passes, Types
  <2>2. ASSUME NEW r \in Request PROVE request'[r].work = request[r].work
    <3>1. request'[r] = IF Phase(r) = "idle" THEN request[r]
                        ELSE [request[r] EXCEPT !.copy = OlderBinding(request[r].copy)]
      BY <1>8 DEF Passes
    <3>2. request[r] \in [work : Works, copy : Binding, swap : BOOLEAN]
      BY DEF Types
    <3> QED BY <3>1, <3>2
  <2>3. Tracked(p)' = Tracked(p)
    BY <2>2 DEF Tracked
  <2> QED BY <1>3, <2>1, <2>3
<1>9. ASSUME \/ \E h \in Holder \ {Member}, c \in Cred : RivalSits(h, c)
             \/ \E x \in Pair : x[1] # Member /\ RivalLeaves(x)
             \/ MarksReset \/ CooldownOver \/ Revoke \/ UNCHANGED stickyVars
      PROVE  UNCHANGED <<session, request>>
  BY <1>9 DEF RivalSits, RivalLeaves, MarksReset, CooldownOver, Revoke, stickyVars
<1> QED BY <1>4, <1>5, <1>6, <1>7, <1>8, <1>9 DEF StickyNext, SessionStep, Serves

\* The in-flight count of a slot is the number of requests relayed on it, however copies
\* of the binding are written back and whichever of the first requests bind it, until a
\* deleted session comes back or one is bound over requests that are relayed.
THEOREM CountsAreRequests == StickySpec => []BusyMatches
<1>1. StickyInit => CountsHold
  <2> SUFFICES ASSUME StickyInit, NEW p \in QuotaPool
               PROVE  session.busy[p] = Cardinality(Tracked(p))
    BY DEF CountsHold
  <2>1. session.busy[p] = 0
    BY DEF StickyInit, NoBinding
  <2>2. Tracked(p) = {}
    BY RestingFacts DEF StickyInit, Tracked
  <2> QED BY <2>1, <2>2, FS_EmptySet
<1>2. CountsHold <=> BusyMatches
  BY DEF CountsHold, BusyMatches, Tracked
<1> QED BY <1>1, <1>2, CountsKept, StickyHolds, PTL DEF StickySpec
=============================================================================
