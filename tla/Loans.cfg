SPECIFICATION MCSpec
CONSTANTS
  b1 = b1
  b2 = b2
  a1 = a1
  a2 = a2
  Borrower = {b1, b2}
  NoBorrower = NoBorrower
  Account = {a1, a2}
  NoAccount = NoAccount
  MaxThreads = 2
  LoanCap = 1
  MaxLoans = 3
  MaxKeys = 3
  MaxRequests = 2
  MaxResets = 1
  Faults <- AllFaults
  MaxFaults = 1
INVARIANTS LoanTypeOK LentKeysWork KeysAreLent OneSelfLoan
PROPERTIES SelfWithinCap DueLoansEnd
CHECK_DEADLOCK FALSE
