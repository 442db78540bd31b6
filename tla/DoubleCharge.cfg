SPECIFICATION SettlementSpec
CONSTANTS
  Consultations = {c1}
  Cards = {k1, k2}
  OneCard = k1
  NoCard = NoCard
  NoCall = NoCall
  RateCents = 1500
  CallSeconds <- AllLengths
  Requests = {}
  MissingTimeout = FALSE
  ZegoRetries = FALSE
  Jobs = {j1, j2}
  OneJob = j1
  MayDecline = {}
  FaultKinds = {}
  MaxFaults = 0
INVARIANT NeverDoubleCharged
CHECK_DEADLOCK FALSE
