SPECIFICATION SceneSpec
CONSTANTS
  h1 = h1
  h2 = h2
  a1 = a1
  a2 = a2
  c1 = c1
  c2 = c2
  b1 = b1
  Holder = {h1, h2}
  NoCred = NoCred
  NoAccount = NoAccount
  NoBoot = NoBoot
  CallBound = 1
  MaxCap = 1
  Account = {a1, a2}
  Cred = {c1, c2}
  Boot = {b1, NoBoot}
  AccountOf <- TwoAccounts
  MaxInflight = 2
  BootStale = 2
  MaxTtl = 1
  MaxHold = 2
  Questions <- AllQuestions
  Ttls = {0, 1}
  Holds = {0, 2}
SYMMETRY Symmetry
INVARIANTS
  TypeOK
  SteeredWithinCap
  AdviceSound
  CallsAreWatched
PROPERTIES
  OnlyTheHolderGivesUp
