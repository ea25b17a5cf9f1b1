--------------------------- MODULE MCStickySelect ---------------------------
(***************************************************************************)
(* Two concurrent requests of one session, two credentials of an account   *)
(* each, one mishap, and perhaps another member in the way.                *)
(***************************************************************************)
EXTENDS StickySelect, TLC

CONSTANTS h1, h2, a1, a2, c1, c2

TwoAccounts == c1 :> a1 @@ c2 :> a2
PulseOrders == "auto" :> {<<c1, c2>>} @@ "api" :> {<<c2, c1>>}
FetchedOrder == "auto" :> <<c1, c2>> @@ "api" :> <<c1, c2>>

\* The session is bound to the first credential, or to be bound by its first requests; it
\* reaches the other one by rotation. The other member is on the second account, beside a
\* bound session, or on none. With the key already revoked, the first credential is
\* cooling and no other mishap happens.
MCInit ==
  /\ StickyInit
  /\ session.slot["auto"].cred # c2
  /\ ~Taken(seats, <<h2, a1>>)
  /\ exhausted = {}
  /\ \/ /\ cooling = {} /\ revoked = Never /\ mishaps = 0
        /\ minted \/ ~Taken(seats, <<h2, a2>>)
     \/ cooling = {c1} /\ revoked = 0 /\ mishaps = MaxMishaps /\ minted

\* Bounds: one request swaps the token at a time; and requests on both pools overlap only in
\* a minted session with no other member about, and if neither swaps.
Under(r) == request'[r].work.phase # "idle"
OnePool == \A r, o \in Request : Under(r) /\ Under(o) => request'[r].work.pool = request'[o].work.pool
MCNext ==
  /\ StickyNext
  /\ Cardinality({r \in Request : request'[r].swap}) <= 1
  /\ \/ OnePool
     \/ /\ minted /\ \A r \in Request : ~request'[r].swap
        /\ \A a \in Account : ~Taken(seats', <<h2, a>>)
MCSpec == MCInit /\ [][MCNext]_stickyVars

Symmetry == Permutations(Request)
=============================================================================
