------------------------------- MODULE Wallet -------------------------------
(***************************************************************************)
(* What the member credit wallet promises (docs/adr/0006): statements only *)
(* grow, every line carries the balance after it, a usage is charged at    *)
(* most once and a charge refunded at most once.                           *)
(***************************************************************************)
EXTENDS Integers, Sequences

CONSTANTS Member, NoRef

VARIABLE statement   \* per member, the lines in the order they are listed

\* ref: the usage row a charge is for, or the charge a refund is for.
FollowsOn(lines) ==
  \A i \in DOMAIN lines :
    lines[i].after = lines[i].amount + IF i = 1 THEN 0 ELSE lines[i - 1].after

RefsOnce(lines) ==
  \A i, j \in DOMAIN lines :
    lines[i].ref # NoRef /\ lines[i].ref = lines[j].ref => i = j

Init == statement = [m \in Member |-> <<>>]

Post ==
  \A m \in Member :
    /\ Len(statement[m]) <= Len(statement'[m])
    /\ statement[m] = SubSeq(statement'[m], 1, Len(statement[m]))
    /\ FollowsOn(statement'[m])
    /\ RefsOnce(statement'[m])

Spec == Init /\ [][Post]_statement
=============================================================================
