---------------------------- MODULE StickySelect ----------------------------
(***************************************************************************)
(* One Cursor session in the data plane: two sticky slots, one per Quota   *)
(* Pool, that concurrent requests fill, keep and rotate with Pulse's seat  *)
(* advice (proxy/sticky_select.go, session.go, mitm.go; seat_assignment.py *)
(* and SeatBook on the other side). A request works on its own copy of the *)
(* binding. A session is bound by the exchange that mints its token, or by *)
(* the first requests of a tunnel. A unit of time is longer than a         *)
(* selection takes.                                                        *)
(***************************************************************************)
EXTENDS SeatBook

CONSTANTS
  Request,      \* requests of the session
  Member,       \* the holder the session's seats are counted for
  Orders,       \* the orders Pulse may rank each Quota Pool in
  LocalOrder,   \* the order the data plane last fetched
  Cap,          \* max_concurrent_users
  SeatTtl,      \* concurrent_ttl_seconds
  SlotIdleAfter, SessionTtl, MinDwell,
  MaxMishaps    \* bound on mishaps: failures of upstreams, exchanges, binds and advice, the
                \* key's revocation, a tunnel's move to another key of the member, other
                \* members coming and going

QuotaPool == {"auto", "api"}

\* The orders are lists of the credentials in the pool, whoever ranks them.
ASSUME StickyAssumption ==
  /\ IsFiniteSet(Request) /\ Member \in Holder /\ Cap \in Nat
  /\ \A p \in QuotaPool : Orders[p] \subseteq Seq(Cred) /\ LocalOrder[p] \in Seq(Cred)
  /\ SeatTtl \in 1..MaxTtl /\ SessionTtl \in Nat
  /\ SlotIdleAfter \in Nat /\ MinDwell \in Nat /\ MaxMishaps \in Nat

OtherPool(p) == IF p = "auto" THEN "api" ELSE "auto"
AgeBound == Larger(SlotIdleAfter, MinDwell)
\* Bound on a slot's in-flight count, which a session bound again may overstate.
BusyBound == Cardinality(Request) + 1
EmptySlot == [cred |-> NoCred, age |-> 0]

VARIABLES
  seats,      \* the seat book of Pulse Web
  session,    \* the binding stored in the SessionMap
  minted,     \* the session's token is one the data plane minted (sessionTokens.owns)
  request,    \* what each request is doing, its copy of the binding, and whether it only
              \* swaps the token (authSessionSwap)
  exhausted,  \* runtime marks: <<credential, pool>>
  cooling,    \* credentials in auth cooldown
  revoked,    \* time since the key was revoked
  mishaps,    \* mishaps so far
  notes       \* history: which rare things have happened, and the slots whose
              \* credential their own rotation released or Pulse gave no advice on

stickyVars == <<seats, session, minted, request, exhausted, cooling, revoked, mishaps, notes>>

Never == -1
NoAnswer == [assigned |-> NoCred, blocked |-> {}, advised |-> FALSE]
Resting == [phase |-> "idle", pool |-> "auto", why |-> "none", cred |-> NoCred,
            current |-> NoCred, release |-> FALSE, seen |-> {}, told |-> NoAnswer,
            counted |-> FALSE]
Binding == [live : BOOLEAN, bound : 0..SessionTtl + 1, blocked : SUBSET Cred,
            busy : [QuotaPool -> 0..BusyBound],
            slot : [QuotaPool -> [cred : Cred \cup {NoCred}, age : 0..AgeBound]]]

NoBinding == [live |-> FALSE, bound |-> 0, blocked |-> {},
              busy |-> [p \in QuotaPool |-> 0], slot |-> [p \in QuotaPool |-> EmptySlot]]

\* Member and another sit on c and d, where there is one.
Sitting(h, c, d) ==
  [p \in Pair |-> [Blank EXCEPT !.cred =
     IF c # NoCred /\ p = <<Member, AccountOf[c]>> THEN c
     ELSE IF d # NoCred /\ p = <<h, AccountOf[d]>> THEN d ELSE NoCred]]

\* An exchange has bound the session to the credential it seated the member on, or no
\* request of the tunnel has bound it yet. Other sessions have left marks and cooldowns
\* on the credentials, and the key may just have been revoked.
StickyInit ==
  /\ \E c, d \in Cred \cup {NoCred}, h \in Holder \ {Member} :
       /\ minted = (c # NoCred)
       /\ session = [NoBinding EXCEPT !.live = minted, !.slot["auto"].cred = c]
       /\ seats = Sitting(h, c, d)
  /\ request = [r \in Request |-> [work |-> Resting, copy |-> NoBinding, swap |-> FALSE]]
  /\ exhausted \in SUBSET (Cred \X QuotaPool) /\ cooling \in SUBSET Cred
  /\ revoked \in {Never, 0} /\ mishaps \in 0..MaxMishaps /\ notes = [rare |-> {}, unseated |-> {}]

Mishap == mishaps < MaxMishaps /\ mishaps' = mishaps + 1
NoMishap == UNCHANGED mishaps

\* Once something rare has happened, the unseated slots no longer matter.
Noting(rare, slots) ==
  LET all == notes.rare \cup rare
  IN [rare |-> all, unseated |-> IF all = {} THEN notes.unseated \cup slots ELSE {}]
-----------------------------------------------------------------------------
(* Slots and credentials *)

Filled(b, p) == b.slot[p].cred # NoCred

\* slotActive and dwellActive
Active(b, p) == Filled(b, p) /\ (b.busy[p] > 0 \/ b.slot[p].age < SlotIdleAfter)
DwellActive(b, p) == b.busy[p] > 0 \/ b.slot[p].age < MinDwell

\* Slip: the other slot is never mentioned.
NothingHeld(b, p) == NoCred
HeldOutside(b, p) ==
  IF Active(b, OtherPool(p)) THEN b.slot[OtherPool(p)].cred ELSE NoCred

AvailableFor(c, p) == <<c, p>> \notin exhausted
Unavailable(c) == c \in cooling \/ \A p \in QuotaPool : ~AvailableFor(c, p)

\* Slip: the whole copy goes back over the stored binding.
PersistAll(b, p, withBlocked) == session' = [b EXCEPT !.live = TRUE]

\* Slip: serving renews the authorization.
PersistRenewing(b, p, withBlocked) ==
  session' = [session EXCEPT !.live = TRUE, !.slot[p] = b.slot[p], !.bound = 0]

\* persist: only the pool's slot, and the advice; a session that has been deleted
\* meanwhile comes back as the copy.
Persist(b, p, withBlocked) ==
  session' = IF session.live
             THEN [session EXCEPT !.slot[p] = b.slot[p],
                                  !.blocked = IF withBlocked THEN b.blocked ELSE @]
             ELSE [b EXCEPT !.live = TRUE]

Touched(b, p) == [b EXCEPT !.slot[p].age = 0]
BoundTo(b, p, c) == [b EXCEPT !.slot[p] = [cred |-> c, age |-> 0]]

Does(r, work, copy) ==
  request' = [request EXCEPT ![r] = [work |-> work, copy |-> copy,
                                     swap |-> @.swap /\ work.phase # "idle"]]
Ends(r) == Does(r, Resting, NoBinding)
Phase(r) == request[r].work.phase
Refreshed(r) ==
  IF session.live THEN [request[r].copy EXCEPT !.slot = session.slot, !.busy = session.busy]
  ELSE request[r].copy

Asking(p, why, c, release) ==
  [Resting EXCEPT !.phase = "asking", !.pool = p, !.why = why, !.current = c,
                  !.release = release]
Ending(w) == [Resting EXCEPT !.phase = "ending", !.pool = w.pool, !.counted = w.counted]
Chosen(p, c) == [Resting EXCEPT !.phase = "chosen", !.pool = p, !.cred = c]

\* The rest of Select once the sticky credential c of copy b is settled: use it, hold it
\* within the dwell, or rotate; the exchange of its key may fail.
Exchanges(r, b, p, c) ==
  LET usable == c \notin cooling /\ AvailableFor(c, p)
      held == c \notin cooling /\ ~usable /\ DwellActive(b, p) /\ ~Unavailable(c)
      rotate == Does(r, Asking(p, "rotate", c, TRUE), b)
  IN \/ /\ usable \/ held
        /\ Persist(Touched(b, p), p, FALSE) /\ Does(r, Chosen(p, c), Touched(b, p))
        /\ NoMishap /\ UNCHANGED cooling
     \/ /\ usable /\ Mishap
        /\ \/ Ends(r) /\ UNCHANGED cooling
           \/ cooling' = cooling \cup {c} /\ rotate
        /\ UNCHANGED session
     \/ held /\ Mishap /\ rotate /\ UNCHANGED <<session, cooling>>
     \/ ~usable /\ ~held /\ rotate /\ NoMishap /\ UNCHANGED <<session, cooling>>

\* Select up to its first question or its answer.
Selects(r, p) ==
  LET b == Refreshed(r)
      c == b.slot[p].cred
  IN \/ /\ ~Filled(b, p) /\ Does(r, Asking(p, "fill", NoCred, FALSE), b)
        /\ NoMishap /\ UNCHANGED <<session, cooling>>
     \/ /\ Filled(b, p) /\ ~Active(b, p) /\ Does(r, Asking(p, "reseat", c, FALSE), b)
        /\ NoMishap /\ UNCHANGED <<session, cooling>>
     \/ Active(b, p) /\ Exchanges(r, b, p, c)
-----------------------------------------------------------------------------
(* A request *)

ReauthPool(b) ==
  IF Filled(b, "api") /\ (~Filled(b, "auto") \/ (~Active(b, "auto") /\ Active(b, "api")))
  THEN "api" ELSE "auto"

\* Looks the session up; one bound longer than SessionTtl ago is authorized again, by
\* the copy looked up.
LooksUp(r, p, b) ==
  IF b.bound > SessionTtl
  THEN LET q == ReauthPool(b)
       IN Does(r, [Asking(p, "reauth", b.slot[q].cred, FALSE) EXCEPT !.cred = q], b)
  ELSE Does(r, [Resting EXCEPT !.phase = "admitted", !.pool = p], b)
Arrives(r, p) ==
  /\ Phase(r) = "idle" /\ session.live
  /\ LooksUp(r, p, session)
  /\ UNCHANGED <<seats, session, exhausted, cooling, revoked, mishaps, notes>>

\* The session is not found, or the tunnel now shows another key of the member, for
\* which it is deleted. It is to be bound (bindIDESession).
Misses(r, p) ==
  /\ Phase(r) = "idle"
  /\ \/ ~session.live /\ NoMishap
     \/ session.live /\ ~minted /\ revoked = Never /\ Mishap
  /\ session' = NoBinding
  /\ Does(r, [Resting EXCEPT !.phase = "binding", !.pool = p], NoBinding)
  /\ UNCHANGED <<seats, exhausted, cooling, revoked, notes>>

\* What is bound has no slot and no count, whatever another request has bound and
\* filled meanwhile. The copy that comes back has no time in it: it is authorized again.
BindsFresh(r) ==
  /\ Phase(r) = "binding" /\ revoked = Never
  /\ session' = [NoBinding EXCEPT !.live = TRUE]
  /\ LooksUp(r, request[r].work.pool, [session' EXCEPT !.bound = SessionTtl + 1])
  /\ notes' = Noting(IF \E o \in Request : request[o].work.counted THEN {"rebound"} ELSE {}, {})
  /\ UNCHANGED <<seats, exhausted, cooling, revoked, mishaps>>
BindFails(r) ==
  /\ Phase(r) = "binding" /\ Ends(r)
  /\ IF revoked = Never THEN Mishap ELSE NoMishap
  /\ UNCHANGED <<seats, session, exhausted, cooling, revoked, notes>>

\* A request outside the billed paths carries a minted token: a credential is selected
\* for it on the auto slot, and the session is not authorized again.
Swaps(r) ==
  /\ Phase(r) = "idle" /\ session.live /\ minted
  /\ request' = [request EXCEPT ![r] =
       [work |-> [Resting EXCEPT !.phase = "admitted"], copy |-> session, swap |-> TRUE]]
  /\ UNCHANGED <<seats, session, exhausted, cooling, revoked, mishaps, notes>>

StartsSelect(r) ==
  /\ Phase(r) = "admitted"
  /\ Selects(r, request[r].work.pool)
  /\ notes' = IF session'.live /\ ~session.live THEN Noting({"revived"}, {}) ELSE notes
  /\ UNCHANGED <<seats, exhausted, revoked>>

\* The pool the question is about.
AskedPool(w) == IF w.why = "reauth" THEN w.cred ELSE w.pool

Asked(w, b, order) ==
  [holder |-> Member, ranked |-> order, table |-> AccountOf, current |-> w.current,
   release |-> w.release, pinned |-> FALSE, pin |-> NoCred,
   held |-> HeldOutside(b, AskedPool(w)), cap |-> Cap]

\* include_seat_advice
AdvisedBy(q, s) == q.release \/ Assigned(s, q) # NoCred \/ BlockedAfter(s, q) # {}

\* Another request of the session has a question or its answer in hand, or has changed
\* what the other slot holds since this one copied the binding.
Crossed(r, p) ==
  \/ \E o \in Request \ {r} : Phase(o) \in {"asking", "told", "settled"}
  \/ HeldOutside(session, p) # HeldOutside(request[r].copy, p)

JustSeen(seat) == seat.cred # NoCred /\ seat.idle = 0

\* Pulse answers; the request has not seen the answer yet.
Advise(r, order) ==
  LET w == request[r].work
      q == Asked(w, request[r].copy, order)
      s == Expired(seats, NoBoots, SeatTtl)
  IN /\ Phase(r) = "asking" /\ revoked = Never /\ order \in Orders[AskedPool(w)]
     /\ seats' = SeatsAfter(s, q)
     /\ Does(r, [w EXCEPT !.phase = "told",
                          !.told = [assigned |-> Assigned(s, q), blocked |-> BlockedAfter(s, q),
                                    advised |-> AdvisedBy(q, s)]],
             request[r].copy)
     /\ LET rare == IF q.release /\ Crossed(r, w.pool) THEN {"crossed"} ELSE {}
            all == Noting(rare, IF q.release THEN {<<q.current, w.pool>>} ELSE {})
        IN notes' = [all EXCEPT !.unseated =
                       {x \in @ : ~JustSeen(seats'[<<Member, AccountOf[x[1]]>>])}]
     /\ UNCHANGED <<session, exhausted, cooling, revoked, mishaps>>

\* Pulse cannot be reached, has no advice, or (once revoked) refuses.
AdviseFails(r) ==
  /\ Phase(r) = "asking"
  /\ IF revoked = Never THEN Mishap ELSE NoMishap
  /\ Does(r, [request[r].work EXCEPT !.phase = "told"], request[r].copy)
  /\ UNCHANGED <<seats, session, exhausted, cooling, revoked, notes>>

Told(r, why) == Phase(r) = "told" /\ request[r].work.why \in why
Stale(r, p) == session.live /\ session.slot[p].cred # request[r].copy.slot[p].cred
FilledSlots(b) == {<<b.slot[p].cred, p>> : p \in {q \in QuotaPool : Filled(b, q)}}
\* A slot is written back, slots without Pulse's advice.
NotingWrite(r, p, slots) ==
  notes' = Noting((IF Stale(r, p) THEN {"crossed"} ELSE {})
                  \cup (IF session.live THEN {} ELSE {"revived"}),
                  IF request[r].work.told.advised THEN {} ELSE slots)

\* The re-authorization: errors and empty assignments end the request, a refusal
\* ends the session.
Reauthorized(r) ==
  LET w == request[r].work
      t == w.told
      move == t.advised /\ t.assigned # w.current
      stored(b) == [b EXCEPT !.live = TRUE, !.bound = 0,
                     !.blocked = IF t.advised THEN t.blocked ELSE @,
                     !.slot[w.cred] = IF move THEN [cred |-> t.assigned, age |-> 0] ELSE @]
  IN /\ Told(r, {"reauth"})
     /\ \/ /\ revoked # Never /\ ~t.advised
           /\ session' = NoBinding /\ Ends(r) /\ UNCHANGED notes
        \/ /\ t.advised => t.assigned # NoCred
           /\ revoked # Never => t.advised
           /\ session' = stored(IF session.live THEN session ELSE request[r].copy)
           /\ Does(r, [Resting EXCEPT !.phase = "admitted", !.pool = w.pool],
                   stored(request[r].copy))
           /\ NotingWrite(r, w.cred, FilledSlots(session))
        \/ /\ t.assigned = NoCred
           /\ Ends(r) /\ UNCHANGED <<session, notes>>
     /\ UNCHANGED <<seats, exhausted, cooling, revoked, mishaps>>

\* reseat: the idle slot keeps its credential or moves; exhausted when Pulse has none.
Reseats(r) ==
  LET w == request[r].work
      p == w.pool
      c == IF w.told.advised THEN w.told.assigned ELSE w.current
      b == [request[r].copy EXCEPT !.blocked = IF w.told.advised THEN w.told.blocked ELSE @]
      settled == [Chosen(p, c) EXCEPT !.phase = "settled"]
  IN /\ Told(r, {"reseat"})
     /\ \/ c = NoCred /\ Ends(r) /\ UNCHANGED <<session, notes>>
        \/ c = w.current /\ c # NoCred /\ Does(r, settled, b) /\ UNCHANGED session
           /\ notes' = Noting({}, IF w.told.advised THEN {} ELSE {<<c, p>>})
        \/ /\ c \notin {w.current, NoCred}
           /\ Persist(BoundTo(b, p, c), p, TRUE) /\ Does(r, settled, BoundTo(b, p, c))
           /\ NotingWrite(r, p, {})
     /\ UNCHANGED <<seats, exhausted, cooling, revoked, mishaps>>

UsesSettled(r) ==
  LET w == request[r].work
  IN /\ Phase(r) = "settled"
     /\ Exchanges(r, request[r].copy, w.pool, w.cred)
     /\ IF session' = session THEN UNCHANGED notes ELSE NotingWrite(r, w.pool, {})
     /\ UNCHANGED <<seats, exhausted, revoked>>

\* errAllExhausted; after a failure only the rotation is given up.
FindsNone(r) ==
  LET w == request[r].work
  IN /\ IF w.why = "after" THEN Does(r, Ending(w), request[r].copy)
                           ELSE Ends(r)
     /\ UNCHANGED <<session, notes, mishaps>>

\* bindSticky, then the exchange of the new credential's key.
Binds(r, b, c) ==
  LET w == request[r].work
      bound == BoundTo(b, w.pool, c)
  IN /\ Persist(bound, w.pool, TRUE) /\ NotingWrite(r, w.pool, {<<c, w.pool>>})
     /\ IF w.why = "after" THEN Does(r, Ending(w), bound) /\ NoMishap
        ELSE \/ c \notin cooling /\ Does(r, Chosen(w.pool, c), bound) /\ NoMishap
             \/ c \in cooling /\ Ends(r) /\ NoMishap
             \/ c \notin cooling /\ Ends(r) /\ Mishap

\* Slip: an answer without an assignment is taken for one.
HopelessButEmpty(w, a) == a \in w.seen \/ (w.why = "after" /\ a = w.cred)
Hopeless(w, a) == a \in {NoCred} \cup w.seen \/ (w.why = "after" /\ a = w.cred)

\* chooseAssigned: an assignment this side cannot use is released, and Pulse is asked
\* again, at most once per credential of the pool.
Assigns(r) ==
  LET w == request[r].work
      a == w.told.assigned
      tried == w.seen \cup {a}
      b == [request[r].copy EXCEPT !.blocked = w.told.blocked]
  IN /\ Told(r, {"fill", "rotate", "after"}) /\ w.told.advised
     /\ IF Hopeless(w, a) THEN FindsNone(r)
        ELSE IF AvailableFor(a, w.pool) THEN Binds(r, b, a)
        ELSE IF tried = Cred THEN FindsNone(r)
        ELSE /\ Does(r, [w EXCEPT !.phase = "asking", !.current = a, !.release = TRUE,
                                  !.seen = tried, !.told = NoAnswer], b)
             /\ UNCHANGED <<session, notes, mishaps>>
     /\ UNCHANGED <<seats, exhausted, cooling, revoked>>

\* Without advice: places in the local order neither left, marked nor blocked.
Fit(r) ==
  LET w == request[r].work
      b == request[r].copy
  IN {i \in DOMAIN LocalOrder[w.pool] :
        LET c == LocalOrder[w.pool][i]
        IN /\ c \notin b.blocked \cup {b.slot[w.pool].cred}
           /\ AvailableFor(c, w.pool) /\ ~Unavailable(c)}

\* An empty slot takes the first whose key can be exchanged.
FillsLocally(r) ==
  LET order == LocalOrder[request[r].work.pool]
      p == request[r].work.pool
      fails == {cooling, cooling \cup {order[i] : i \in Fit(r)}}
  IN /\ Told(r, {"fill"}) /\ ~request[r].work.told.advised
     /\ \/ Fit(r) = {} /\ FindsNone(r) /\ UNCHANGED cooling
        \/ Fit(r) # {} /\ Mishap /\ cooling' \in fails /\ Ends(r) /\ UNCHANGED <<session, notes>>
        \/ \E i \in Fit(r) :
             LET bound == BoundTo(request[r].copy, p, order[i])
             IN /\ Persist(bound, p, TRUE) /\ NotingWrite(r, p, {<<order[i], p>>})
                /\ Does(r, Chosen(p, order[i]), bound)
                /\ IF i = Min(Fit(r)) THEN NoMishap /\ UNCHANGED cooling
                   ELSE Mishap /\ cooling' \in {cooling, cooling \cup
                                                {order[k] : k \in {x \in Fit(r) : x < i}}}
     /\ UNCHANGED <<seats, exhausted, revoked>>

\* A rotation takes the first there is.
RotatesLocally(r) ==
  LET w == request[r].work
  IN /\ Told(r, {"rotate", "after"}) /\ ~w.told.advised
     /\ IF Fit(r) = {} THEN FindsNone(r)
        ELSE Binds(r, request[r].copy, LocalOrder[w.pool][Min(Fit(r))])
     /\ UNCHANGED <<seats, exhausted, cooling, revoked>>

\* The upstream accepts; Track.
Relays(r) ==
  LET w == request[r].work
  IN /\ Phase(r) = "chosen" /\ ~request[r].swap /\ session.busy[w.pool] < BusyBound
     /\ Does(r, [w EXCEPT !.phase = "relaying", !.counted = session.live], request[r].copy)
     /\ session' = IF session.live THEN [session EXCEPT !.busy[w.pool] = @ + 1] ELSE session
     /\ UNCHANGED <<seats, exhausted, cooling, revoked, mishaps, notes>>

\* RoundTrip fails: selected again, or given up.
NoUpstream(r) ==
  /\ Phase(r) = "chosen" /\ ~request[r].swap /\ Mishap
  /\ \/ Does(r, [Resting EXCEPT !.phase = "admitted", !.pool = request[r].work.pool],
             request[r].copy)
     \/ Ends(r)
  /\ UNCHANGED <<seats, session, exhausted, cooling, revoked, notes>>

\* A swapped request is relayed once, neither counted nor blamed on the credential.
SwapEnds(r) ==
  /\ Phase(r) = "chosen" /\ request[r].swap /\ Ends(r)
  /\ UNCHANGED <<seats, session, exhausted, cooling, revoked, mishaps, notes>>

\* The upstream's answer blames the key, the bucket, or the account; the last makes the
\* slot rotate at once if it still is on that credential (RotateOnExhaustion).
Blames(r) ==
  LET w == request[r].work
      b == Refreshed(r)
      mark == exhausted' = exhausted \cup {<<w.cred, w.pool>>} /\ UNCHANGED cooling
      ending == Does(r, Ending(w), request[r].copy)
  IN /\ Phase(r) = "relaying" /\ Mishap
     /\ \/ cooling' = cooling \cup {w.cred} /\ UNCHANGED exhausted /\ ending
        \/ mark /\ ending
        \/ /\ mark /\ b.slot[w.pool].cred = w.cred
           /\ Does(r, [Asking(w.pool, "after", w.cred, TRUE) EXCEPT !.cred = w.cred,
                                                    !.counted = w.counted], b)
     /\ UNCHANGED <<seats, session, revoked, notes>>

\* The relay is over, and with it Track.
Finishes(r) ==
  LET w == request[r].work
      p == w.pool
  IN /\ Phase(r) \in {"relaying", "ending"}
     /\ session' = IF w.counted /\ session.live
                   THEN [session EXCEPT !.busy[p] = IF @ > 0 THEN @ - 1 ELSE 0,
                                        !.slot[p].age = 0]
                   ELSE session
     /\ Ends(r)
     /\ UNCHANGED <<seats, exhausted, cooling, revoked, mishaps, notes>>
-----------------------------------------------------------------------------
(* The surroundings *)

\* Another member is steered to a credential, or its seat goes; between the two it is
\* kept fresh (see Passes).
RivalSits(h, c) ==
  LET s == Expired(seats, NoBoots, SeatTtl)
      p == <<h, AccountOf[c]>>
  IN /\ ~Taken(s, p) /\ Room(s, h, AccountOf[c], Cap)
     /\ Mishap /\ seats' = [s EXCEPT ![p].cred = c]
     /\ UNCHANGED <<session, request, exhausted, cooling, revoked, notes>>
RivalLeaves(p) ==
  /\ Taken(seats, p) /\ seats' = [seats EXCEPT ![p] = Blank] /\ Mishap
  /\ UNCHANGED <<session, request, exhausted, cooling, revoked, notes>>

\* pollExhaustedReset; cooldowns run out or a fetch of the pool clears them.
MarksReset ==
  /\ exhausted # {} /\ exhausted' = {}
  /\ UNCHANGED <<seats, session, request, cooling, revoked, mishaps, notes>>
CooldownOver ==
  /\ cooling # {} /\ cooling' = {}
  /\ UNCHANGED <<seats, session, request, exhausted, revoked, mishaps, notes>>

Revoke ==
  /\ revoked = Never /\ revoked' = 0 /\ Mishap
  /\ UNCHANGED <<seats, session, request, exhausted, cooling, notes>>

OlderSlot(slot) == IF slot.cred = NoCred THEN slot ELSE [slot EXCEPT !.age = OneOlder(@, AgeBound)]
OlderBinding(b) ==
  [b EXCEPT !.bound = OneOlder(@, SessionTtl + 1), !.slot = [p \in QuotaPool |-> OlderSlot(@[p])]]

\* A seat is swept when the book is next asked, before it is looked at.
Passes ==
  /\ \A r \in Request : Phase(r) \in {"idle", "relaying"}
  /\ seats' = LET older == Expired(Aged(seats), NoBoots, SeatTtl)
              IN [p \in Pair |-> IF p[1] = Member THEN older[p] ELSE seats[p]]
  /\ session' = OlderBinding(session)
  /\ request' = [r \in Request |-> IF Phase(r) = "idle" THEN request[r]
                                   ELSE [request[r] EXCEPT !.copy = OlderBinding(@)]]
  /\ revoked' = IF revoked = Never THEN Never ELSE OneOlder(revoked, SessionTtl + 2)
  /\ UNCHANGED <<exhausted, cooling, mishaps, notes>>

SessionStep ==
  \/ \E r \in Request :
       \/ \E p \in QuotaPool : Arrives(r, p) \/ Misses(r, p)
       \/ BindsFresh(r) \/ BindFails(r) \/ Swaps(r) \/ SwapEnds(r)
       \/ StartsSelect(r)
       \/ \E order \in Orders["auto"] \cup Orders["api"] : Advise(r, order)
       \/ AdviseFails(r) \/ Reauthorized(r) \/ Reseats(r) \/ UsesSettled(r)
       \/ Assigns(r) \/ FillsLocally(r) \/ RotatesLocally(r)
       \/ Relays(r) \/ NoUpstream(r) \/ Blames(r) \/ Finishes(r)
  \/ \E h \in Holder \ {Member}, c \in Cred : RivalSits(h, c)
  \/ \E p \in Pair : p[1] # Member /\ RivalLeaves(p)
  \/ MarksReset
  \/ CooldownOver
  \/ Revoke
  \/ Passes

StickyNext == SessionStep /\ UNCHANGED minted

StickySpec == StickyInit /\ [][StickyNext]_stickyVars
-----------------------------------------------------------------------------
(* What must hold *)

StickyTypeOK ==
  /\ seats \in [Pair -> Seat]
  /\ session \in Binding /\ minted \in BOOLEAN
  /\ \A r \in Request :
       /\ request[r].copy \in Binding /\ request[r].swap \in BOOLEAN
       /\ Phase(r) \in {"chosen", "relaying"} => request[r].work.cred \in Cred
  /\ exhausted \subseteq Cred \X QuotaPool /\ cooling \subseteq Cred
  /\ revoked \in {Never} \cup 0..SessionTtl + 2
  /\ mishaps \in 0..MaxMishaps /\ notes.rare \subseteq {"crossed", "revived", "rebound"}
  /\ notes.unseated \subseteq Cred \X QuotaPool

\* The billed request gets the credential it is sent to.
Served(r) == Phase(r) # "chosen" /\ request'[r].work.phase = "chosen" /\ ~request[r].swap

\* Whoever is sent to a credential holds a live seat on its account at that moment: a
\* session reports its slots often enough (sessionTTL, slotIdleAfter, reseat), and
\* rotating one slot never gives up the seat of the other. Left out are a slot whose own
\* rotation released the credential it is still on, and one Pulse gave no advice on,
\* until they are next reported; everything after two selections have crossed or a
\* session was bound over its requests; and a request that only swaps the token, which
\* reports nothing.
ServedSeated ==
  [][\A r \in Request :
       Served(r) /\ notes'.rare = {} =>
         LET w == request'[r].work
             seat == seats'[<<Member, AccountOf[w.cred]>>]
         IN \/ seat.cred # NoCred /\ seat.idle < SeatTtl
            \/ <<w.cred, w.pool>> \in notes'.unseated]_stickyVars

\* The slot's in-flight count is the number of requests being relayed on it, whatever
\* copies are written back and whichever first requests bind the session, unless a
\* deleted session has come back or one was bound while requests of it were relayed.
BusyMatches ==
  session.live /\ notes.rare \cap {"revived", "rebound"} = {} =>
    \A p \in QuotaPool :
      session.busy[p] = Cardinality({r \in Request : request[r].work.counted
                                                     /\ request[r].work.pool = p})

\* A billed request is not served for longer than SessionTtl after the key was revoked,
\* even in a session that was deleted and brought back by a request that had been under
\* way. One that only swaps the token is, for as long as its session is found.
RevokedSoon ==
  [][\A r \in Request :
       Served(r) => revoked <= SessionTtl]_stickyVars
=============================================================================
