SPECIFICATION CallsSpec
CONSTANTS
  Consultations = {c1}
  Cards = {k1}
  OneCard = k1
  NoCard = NoCard
  NoCall = NoCall
  RateCents = 1500
  CallSeconds <- ShortLengths
  Requests = {r1}
  MissingTimeout = TRUE
  ZegoRetries = TRUE
  Jobs = {j1}
  OneJob = j1
  MayDecline = {}
  FaultKinds = {"stripe", "lost", "restart", "expiry"}
  MaxFaults = 1
PROPERTIES NoCallWaitsForever BillableCallIsCharged FailedCallReleasesHold
CHECK_DEADLOCK FALSE
