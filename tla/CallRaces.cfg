SPECIFICATION ScenesSpec
CONSTANTS
  Consultations = {c1}
  Cards = {k1, k2}
  OneCard = k1
  NoCard = NoCard
  NoCall = NoCall
  RateCents = 1500
  CallSeconds <- AllLengths
  Requests = {r1, r2}
  MissingTimeout = FALSE
  ZegoRetries = FALSE
  Jobs = {j1, j2}
  OneJob = j1
  MayDecline = {k1}
  FaultKinds = {"lost", "restart", "expiry"}
  MaxFaults = 3
INVARIANTS TypeOK ConnectedCallHasHold ChargeBackedByStripe NeverDoubleCharged
PROPERTY RecordedChargeIsFinal
SYMMETRY RequestSymmetry
CHECK_DEADLOCK FALSE
