SPECIFICATION FairSpec
CONSTANTS
  Consultations = {c1}
  ChargeKinds = {"hold"}
  MaxParts = 0
  MaxPayouts = 1
  GrossCents = 4
  CommissionPercent = 25
  FaultKinds <- ExpiryFaults
  MaxFaults = 2
  Runs = {w1}
  CustomCents = {}
  MayMarkPaid = FALSE
  Takebacks = {"portal", "part", "dashboard", "dispute"}
  Tasks = {k1}
INVARIANTS DisputedEarningIsHeld RefundedCallWasRefunded
PROPERTIES EarningComesToRest FailedPayoutRecovers
CHECK_DEADLOCK FALSE
