\* Two PUTs of the same membership at a time.
SPECIFICATION PlainRequests
CONSTANTS
  ann = ann
  bob = bob
  Tx = {t1, t2}
  Nobody = Nobody
  RequestId = {"q1"}
  NoRequest = NoRequest
  Goroutine = {g1}
  Ticker = ticker
  usageBatchMax = 1
  usageMaxRetries = 2
  usageBufMax = 1
  MaxItems = 1
  Payer = {"key_a", "key_b", "lost"}
  Gone = {"lost"}
  Member = {ann, bob}
  Prepaid = {ann}
  Batches = {}
  Grants = {}
  Adjustments = {}
  OpeningCredit = 4
  MaxRequests = 2
  BilledTo <- OneTurn
  Losses = 0
  Deaths = 0
INVARIANT OpeningOnce
CHECK_DEADLOCK FALSE
