------------------------------ MODULE MCTurns ------------------------------
(***************************************************************************)
(* Instances of Turns.                                                     *)
(***************************************************************************)
EXTENDS Turns

CONSTANTS w1, w2, b

\* Two interactive threads, or one and the background thread.
TwoPools == {{w1, w2}, {w1, b}}

\* Two scenes. With two interactive threads both messages come, the session stays open,
\* and replies go through at once. With one interactive and the background thread there is
\* one message, and everything else: closing, every fault of a delivery, and jobs whose
\* attempts are all still to come or at their last, so that the next failure is final.
MCInit == FreshSession(0) \/ (FreshSession(MaxAttempts - 1) /\ worker[b] # Absent)

DeliveryFault ==
  \/ \E r \in Replies :
       \/ DeliveryFails(r) \/ SlotExpires(r)
       \/ \E w \in Worker : StopWaiting(w, r) \/ Unreachable(w, r) \/ Skip(w, r)
  \/ WebRestart

MCNext ==
  /\ Next
  /\ IF worker[b] = Absent THEN open' /\ ~DeliveryFault ELSE arrived' <= 1

MCSpec == MCInit /\ [][MCNext]_vars /\ Fairness
=============================================================================
