----------------------------- MODULE MCBilling -----------------------------
(***************************************************************************)
(* Instances of UsageReport and of the ledger under it: two members, two   *)
(* request threads of Pulse. "reports" and "requests" are two scenes of    *)
(* one run: in the first the data plane reports three turns with one       *)
(* goroutine beside the ticker; in the second it is silent, and every kind *)
(* of request reaches the ledger.                                          *)
(***************************************************************************)
EXTENDS UsageReport

CONSTANTS ann, bob

VARIABLE scene

\* The keys of the two members, and one that is gone.
Key(m) == IF m = ann THEN "key_a" ELSE "key_b"

Bill(key, m, cost) == [payer |-> key, member |-> m, cost |-> cost]

ThreeTurns == <<Bill("key_a", ann, 2), Bill("lost", bob, 1), Bill("key_a", ann, 0)>>
OneTurn == <<Bill("key_a", ann, 2)>>

Use(turn, m, cost, request) ==
  [turn |-> turn, payer |-> Key(m), member |-> m, cost |-> cost, request |-> request]

TwoBatches == {<<Use(1, ann, 2, NoRequest), Use(2, bob, 0, "q1")>>,
               <<Use(3, bob, 3, "q1"), Use(4, ann, 1, "q1")>>}

Corrections == {-3}

\* The second scene starts without memberships or with one, and sees three requests: a
\* charge can be made and refunded twice.
SceneInit ==
  \/ scene = "reports" /\ ReportInit
  \/ /\ scene = "requests" /\ ProxyInit
     /\ Init \/ Fresh([m \in Member |-> IF m = ann THEN 1 ELSE 0])

SceneNext ==
  /\ UNCHANGED scene
  /\ \/ scene = "reports" /\ ReportNext
     \/ scene = "requests" /\ Next /\ UNCHANGED proxyVars /\ requests' <= 3

SceneSpec == SceneInit /\ [][SceneNext]_<<reportVars, scene>> /\ ReportFairness

\* The findings' instances.
PlainReports ==
  /\ ReportInit /\ scene = "reports"
  /\ [][ReportNext /\ UNCHANGED scene]_<<reportVars, scene>>

PlainRequests ==
  /\ Init /\ ProxyInit /\ scene = "requests"
  /\ [][Next /\ UNCHANGED <<proxyVars, scene>>]_<<reportVars, scene>>
=============================================================================
