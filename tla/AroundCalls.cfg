SPECIFICATION SceneSpec
CONSTANTS
  Quotes = {q1}
  CustomerDevices = {d1, d3}
  ExpertDevices = {d2, d4}
  Prices = {1, 2}
  MaxEdits = 1
  NoQuote = NoQuote
  Reviewed = {c1, c2}
  Writers = {w1, w2}
  NoReview = NoReview
  LoginCallbacks = {l1, l2}
  Sentences = {e1}
  FinalRevision = 2
  WordCallbacks = {w2, w3}
  CustomerClients = {k1, k4}
  SpareClient = k4
  ExpertClients = {x1}
  MaxMessages = 2
  MaxClock = 3
  NoClient = NoClient
  Assets = {f1, f2}
  Senders = {g1, g2}
  NoAsset = NoAsset
  Tokens = {t1, t2, t3}
  Threads = {r1, r2}
  Processes = {p1}
  Sockets = {s1, s2}
  MaxSwitches = 2
  NoToken = NoToken
INVARIANTS FileAtItsKey UnreadIsListed AcceptedAtSeenPrice FinalWordsKept OpenThreadIsComplete UnreadUntilLookedAt SessionSurvives PresenceSettles
PROPERTIES PricedWordsStay RecordingEnds SuspendedIsCutOff
CHECK_DEADLOCK FALSE
