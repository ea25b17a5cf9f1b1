\* A buffer of two and a route that takes one at a time, two posts lost, a death; and every kind of request.
SPECIFICATION SceneSpec
CONSTANTS
  ann = ann
  bob = bob
  Tx = {t1, t2}
  Nobody = Nobody
  RequestId = {"q1"}
  NoRequest = NoRequest
  Goroutine = {g1}
  Ticker = ticker
  usageBatchMax = 1
  usageMaxRetries = 2
  usageBufMax = 2
  MaxItems = 1
  Payer = {"key_a", "key_b", "lost"}
  Gone = {"lost"}
  Member = {ann, bob}
  Prepaid = {ann}
  Batches <- TwoBatches
  Grants = {5}
  Adjustments <- Corrections
  OpeningCredit = 4
  MaxRequests = 9
  BilledTo <- ThreeTurns
  Losses = 2
  Deaths = 1
INVARIANTS ReportTypeOK StatementAddsUp ChargesMatchUsage NoTurnMislaid
PROPERTIES WalletSpec EveryTurnIsReported
CHECK_DEADLOCK FALSE
