SPECIFICATION MCSpec
CONSTANTS
  Reply <- Replies
  NMsg = 2
  w1 = w1
  w2 = w2
  b = b
  Pools <- TwoPools
  Interactive = {w1, w2}
  Background = {b}
  Keeper = w1
  NoWorkerJob = NoWorkerJob
  MaxAttempts = 2
  Faults <- FaultKinds
  MaxFaults = 1
INVARIANTS TurnsTypeOK OneFinal NotStranded TurnsSerial NoOtherLoss DeliveredOnce NothingSwallowed
PROPERTIES EveryMessageSettles
CHECK_DEADLOCK FALSE
