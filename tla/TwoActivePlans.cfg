SPECIFICATION Spec
CONSTANTS
  Experts = {e1}
  NoExpert = NoExpert
  a1 = a1
  g1 = g1
  s1 = s1
  s2 = s2
  Purchases = {a1, s1}
  NoPurchase = NoPurchase
  StoreOf <- AppAndWeb
  Tiers = {1}
  Jobs = {j1, j2}
  Traffic = {"verify", "checkout"}
  StoreEvents = {}
  MaxPeriods = 1
  MaxHooks = 1
  MaxFaults = 0
INVARIANT OneActiveRow
CHECK_DEADLOCK FALSE
