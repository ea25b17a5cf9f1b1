\* A reply job is done although its reply never arrived.
SPECIFICATION Spec
CONSTANTS
  Reply <- Replies
  NMsg = 1
  w1 = w1
  w2 = w2
  b = b
  Pools <- TwoPools
  Interactive = {w1, w2}
  Background = {b}
  Keeper = w1
  NoWorkerJob = NoWorkerJob
  MaxAttempts = 3
  Faults = {"timeout", "send"}
  MaxFaults = 2
INVARIANT NoSilentLoss
CHECK_DEADLOCK FALSE
