SPECIFICATION PlainSpec
CONSTANTS
  a1 = a1
  a2 = a2
  c1 = c1
  c2 = c2
  Holder = {p1}
  Account = {a1, a2}
  Cred = {c1, c2}
  Boot = {b1, b2}
  NoCred = NoCred
  NoAccount = NoAccount
  NoBoot = NoBoot
  AccountOf <- TwoAccounts
  MaxInflight = 3
  BootStale = 2
  MaxTtl = 1
  MaxHold = 1
  CallBound = 2
  k1 = k1
  k2 = k2
  Call = {k1, k2}
  Flaky = {}
  Hangs = FALSE
  Ttl = 1
  Dwell = 1
  Cap = 1
  EndAttempts = 2
  Limit <- LostAckLimit
  Spent <- NothingSpent
INVARIANTS
  CallKeepsSeat
