\* One turn, one lost answer.
SPECIFICATION PlainReports
CONSTANTS
  ann = ann
  bob = bob
  Tx = {t1, t2}
  Nobody = Nobody
  RequestId = {"q1"}
  NoRequest = NoRequest
  Goroutine = {g1}
  Ticker = ticker
  usageBatchMax = 1
  usageMaxRetries = 2
  usageBufMax = 1
  MaxItems = 1
  Payer = {"key_a", "key_b", "lost"}
  Gone = {"lost"}
  Member = {ann, bob}
  Prepaid = {ann}
  Batches = {}
  Grants = {}
  Adjustments = {}
  OpeningCredit = 0
  MaxRequests = 9
  BilledTo <- OneTurn
  Losses = 1
  Deaths = 0
INVARIANT ChargedOnce
CHECK_DEADLOCK FALSE
