---------------------------- MODULE MCOccupancy ----------------------------
(***************************************************************************)
(* Two small instances of Occupancy in one run, told apart by the scene    *)
(* chosen at the start: "steering" has two accounts, every shape of        *)
(* question and few clocks; "clocks" has one account and every clock.      *)
(***************************************************************************)
EXTENDS Occupancy, TLC

CONSTANTS h1, h2, a1, a2, c1, c2, b1

VARIABLE scene

TwoAccounts == c1 :> a1 @@ c2 :> a2

\* The shapes of the callers: a Cursor session walking its pool's order with
\* or without a current credential, one leaving it, one whose other slot is
\* held, a pinned loan, and a gateway failover whose credential is no longer
\* in the pool.
Ask(h, ranked, cur, release, pinned, held, cap, table) ==
  [holder |-> h, ranked |-> ranked, table |-> table, current |-> cur,
   release |-> release, pinned |-> pinned, pin |-> IF pinned THEN cur ELSE NoCred,
   held |-> held, cap |-> cap]

Unlisted(c) == [TwoAccounts EXCEPT ![c] = NoAccount]

SteeringQuestions ==
  UNION {
    {Ask(h, r, cur, FALSE, FALSE, NoCred, 1, TwoAccounts) :
       r \in {<<c1, c2>>, <<c2, c1>>, <<c1>>}, cur \in {NoCred, c1}}
    \cup {Ask(h, <<c1, c2>>, cur, TRUE, FALSE, held, 1, TwoAccounts) :
       cur \in Cred, held \in Cred \cup {NoCred}}
    \cup {Ask(h, <<>>, c1, FALSE, TRUE, NoCred, 1, TwoAccounts),
          Ask(h, <<c2>>, c2, TRUE, FALSE, NoCred, 1, Unlisted(c2))}
    : h \in Holder}

ClockQuestions ==
  UNION {
    {Ask(h, <<c1>>, c1, release, FALSE, NoCred, 1, TwoAccounts) : release \in BOOLEAN}
    \cup {Ask(h, <<>>, c1, FALSE, TRUE, NoCred, 1, TwoAccounts)}
    : h \in Holder}

AllQuestions == SteeringQuestions \cup ClockQuestions

\* Occupancy's Next, for a smaller choice of its parameters.
NextWithin(questions, ttls, holds, boot, creds) ==
  \/ \E q \in questions, ttl \in ttls : Choose(q, ttl)
  \/ \E ttl \in ttls : CountByAccount(ttl)
  \/ \E h \in Holder, c \in creds, x \in boot, keep \in holds : BeginCall(h, c, x, keep)
  \/ \E h \in Holder, c \in creds, x \in boot, keep \in holds, recreate \in BOOLEAN :
       EndCall(h, c, x, keep, recreate)
  \/ \E h \in Holder, c \in creds : ReleaseIdle(h, AccountOf[c])
  \/ \E h \in Holder, c \in creds, left \in holds : Hold(h, c, left)
  \/ \E x \in boot : NoteBoot(x)
  \/ Reset
  \/ Tick

SceneInit == Init /\ scene \in {"steering", "clocks"}
SceneNext ==
  \/ /\ scene = "steering" /\ UNCHANGED scene
     /\ NextWithin(SteeringQuestions, {1}, {0}, {b1}, Cred)
  \/ /\ scene = "clocks" /\ UNCHANGED scene
     /\ NextWithin(ClockQuestions, Ttls, Holds, Boot, {c1})
SceneSpec == SceneInit /\ [][SceneNext]_<<vars, scene>>

Symmetry == Permutations(Holder)
=============================================================================
