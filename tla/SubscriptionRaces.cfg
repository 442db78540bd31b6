SPECIFICATION Spec
CONSTANTS
  Experts = {e1, e2}
  NoExpert = NoExpert
  a1 = a1
  g1 = g1
  s1 = s1
  s2 = s2
  Purchases = {a1, g1}
  NoPurchase = NoPurchase
  StoreOf <- InAppStores
  Tiers = {1, 2}
  Jobs = {j1, j2}
  StoreEvents = {"renew"}
  MaxPeriods = 2
  MaxHooks = 1
  MaxFaults = 1
  Traffic = {"verify"}
INVARIANTS OneActiveRow
PROPERTY LivePurchaseStays
CHECK_DEADLOCK FALSE
SYMMETRY ExpertSymmetry
