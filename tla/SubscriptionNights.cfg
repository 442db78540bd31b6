SPECIFICATION OneStoreSpec
CONSTANTS
  Experts = {e1}
  NoExpert = NoExpert
  a1 = a1
  g1 = g1
  s1 = s1
  s2 = s2
  Purchases = {a1, g1, s1, s2}
  NoPurchase = NoPurchase
  StoreOf <- AllStores
  Tiers = {1}
  Jobs = {j1}
  Traffic = {"verify", "checkout", "notify", "look", "cancel", "night", "submit", "approve", "reject", "edit", "remove"}
  StoreEvents = {"renew", "fail", "revoke", "switch"}
  MaxPeriods = 2
  MaxHooks = 1
  MaxFaults = 1
PROPERTIES UnsubscribedIsUnlisted
CHECK_DEADLOCK FALSE
