SPECIFICATION SceneSpec
CONSTANTS
  Consultations = {c1}
  ChargeKinds = {"hold"}
  MaxParts = 1
  MaxPayouts = 2
  GrossCents = 4
  CommissionPercent = 25
  FaultKinds <- AllFaults
  MaxFaults = 3
  Runs = {w1, w2}
  CustomCents = {2}
  MayMarkPaid = TRUE
  Takebacks = {"portal", "dispute"}
  Tasks = {k1}
  Invites = {i1, i2}
  Handlers = {h1, h2}
  Passwords = {p1, p2}
  Modules = {m1, m2}
  Levels = {view, edit}
  NoAdmin = NoAdmin
  Pairs = {t1, t2, t3}
  Tabs = {b1, b2}
  MaxStandings = 1
  NoPair = NoPair
  Domains = 2
  Polls = {p1, p2}
  Streams = {t1}
  MaxTime = 2
  Cards = {t1, t2}
  Retokenized = {t1, t2}
  StripeCustomers = {u1, u2}
  Errands = {h1, h2}
  NoCustomer = NoCustomer
  Accounts = {u1, u2}
  Visits = {h1, h2}
  MaxLosses = 2
  NoConnected = NoConnected
  Plans = {y1, y2}
  Products = {u1, u2}
  PriceIds = {m1, m2, m3}
  Amounts = {1, 2}
  Pricings = {h1, h2}
  NoPrice = NoPrice
  BannerIds = {b1, b2}
  Uploads = {u1, u2}
  Viewers = {v1, v2}
  Taps = {h1, h2}
  MaxBanners = 1
  Week = 1
  Month = 2
  Days = 2
  MaxCount = 2
  Users = {x1, x2}
  Phones = {f1}
  Notes = {n1}
  NoteKinds = {y1}
  Requests = {h1, h2}
  MaxFolds = 1
  Nobody = Nobody
INVARIANTS EarningPaidOnce BooksBalance AcceptedOwnerSignsIn AdminStaysSignedIn EventsReachTabs SavedCardCanBeCharged SentToOneAccount PriceShownIsCharged PaidPlanIsGranted ClicksAddUp DeviceHasOneOwner
PROPERTY EarningsAreIdeal
CHECK_DEADLOCK FALSE
