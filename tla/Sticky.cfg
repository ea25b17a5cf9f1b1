SPECIFICATION MCSpec
CONSTANTS
  h1 = h1
  h2 = h2
  a1 = a1
  a2 = a2
  c1 = c1
  c2 = c2
  Holder = {h1, h2}
  NoCred = NoCred
  NoAccount = NoAccount
  NoBoot = NoBoot
  CallBound = 1
  Account = {a1, a2}
  Cred = {c1, c2}
  Boot = {NoBoot}
  AccountOf <- TwoAccounts
  MaxInflight = 1
  BootStale = 1
  MaxTtl = 2
  MaxHold = 0
  Request = {r1, r2}
  Member = h1
  Orders <- PulseOrders
  LocalOrder <- FetchedOrder
  Cap = 1
  SeatTtl = 2
  SlotIdleAfter = 2
  SessionTtl = 1
  MinDwell = 2
  MaxMishaps = 1
INVARIANTS StickyTypeOK BusyMatches
PROPERTIES ServedSeated RevokedSoon
SYMMETRY Symmetry
