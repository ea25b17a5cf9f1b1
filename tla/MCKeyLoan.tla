----------------------------- MODULE MCKeyLoan -----------------------------
(***************************************************************************)
(* Two borrowers, two accounts, two threads; nothing is lent yet, or the   *)
(* first borrower has a loan.                                              *)
(***************************************************************************)
EXTENDS KeyLoan

CONSTANTS b1, b2, a1, a2

AllFaults == FaultKinds

\* b1 has helped himself to a loan of a1, or was given one.
Lent(auto) ==
  /\ keys = [k \in Key |-> IF k = 1 THEN [at |-> a1, name |-> b1, live |-> TRUE] ELSE NoKey]
  /\ creds = [k \in Key |-> IF k = 1 THEN [remote |-> 1, status |-> "active"] ELSE NoCredRow]
  /\ loans = [l \in Loan |-> IF l = 1
       THEN [NoLoanRow EXCEPT !.status = "active", !.borrower = b1, !.account = a1, !.cred = 1,
                              !.auto = auto, !.reset = TRUE]
       ELSE NoLoanRow]
  /\ lock = [row \in Borrower \cup Account \cup Loan |-> Nobody]
  /\ thread = [t \in Thread |-> Resting]
  /\ requests = 0 /\ resets = 0 /\ faults = 0 /\ marks = {}

MCInit == LoanInit \/ Lent(TRUE)
MCSpec == MCInit /\ [][LoanNext]_loanVars /\ LoanFairness
=============================================================================
