-------------------------- MODULE MCAroundAccounts --------------------------
(***************************************************************************)
(* Small instances of AroundAccounts, and of the payouts in Earnings.      *)
(* These parts do not touch each other, so each behaviour is about one of  *)
(* them, its scene, and the larger parts have a scene for each half of     *)
(* what they do.                                                           *)
(***************************************************************************)
EXTENDS MCEarnings, AroundAccounts

VARIABLE scene

\* Requests are alike, and so are the ids of what they create: of those that are
\* free, the first in an arbitrary order is taken.
Rank(S) == CHOOSE f \in [S -> 1..Cardinality(S)] : IsInjective(f)
InTurn(f, g, free) ==
    \A x \in DOMAIN f : f[x] = free /\ g[x] # free =>
       \A y \in DOMAIN f : Rank(DOMAIN f)[y] < Rank(DOMAIN f)[x] => f[y] # free

\* Both plans have a price, known to Stripe's search.
Nth(S, n) == CHOOSE x \in S : Rank(S)[x] = n
ProductOf(p) == Nth(Products, Rank(Plans)[p])
PriceOf(p)   == Nth(PriceIds, Rank(Plans)[p])

PlansSoldInit ==
    LET cents == Nth(Amounts, 1) IN
    /\ webPlan = [p \in Plans |-> [product |-> ProductOf(p), price |-> PriceOf(p), cents |-> cents]]
    /\ product = [x \in Products |-> CHOOSE p \in Plans : ProductOf(p) = x]
    /\ searchable = Products
    /\ stripePrice = [i \in PriceIds |->
          IF \E p \in Plans : PriceOf(p) = i
          THEN [product |-> ProductOf(CHOOSE p \in Plans : PriceOf(p) = i), cents |-> cents]
          ELSE Unmade]
    /\ pricing = [a \in Pricings |-> Done]
    /\ offered = {} /\ paying = [now |-> NoPrice, next |-> NoPrice]
    /\ granted = NoPrice /\ switched = NoPrice /\ unanswered = FALSE

SceneInit ==
    \/ /\ Init /\ AccountsInit
       /\ scene \in {"payouts", "takebacks", "invites", "staff", "portal", "events", "cards", "firstCards",
                     "onboarding", "prices", "uploads", "clicks", "phones", "feed"}
    \/ Init /\ BesidesPlansInit /\ PlansSoldInit /\ scene = "switches"

\* Payouts meet faults, or refunds and disputes.  Beside a second fault no admin
\* settles a payout by hand, beside a third no row is split and some transfer is
\* reversed, and a dispute meets none.
EarningsScene ==
    \/ /\ scene = "payouts" /\ (Settlement \/ PayoutSide \/ BillingRestarts)
       /\ faults' > 1 => \A w \in Runs : run'[w].op # "mark"
       /\ faults' > 2 => /\ \A r \in Rows : r[2] > 0 => ledger'[r].status = "none"
                         /\ {p \in Payouts : Reversed(p)'} # {}
    \/ scene = "takebacks" /\ Next /\ faults' <= IF disputes' = [m \in Charges |-> "none"] THEN 1 ELSE 0

\* The account comes to be, or it is there and managed.
AdminScene ==
    \/ /\ scene = "invites" /\ \A h \in Handlers : clerk'[h].op \notin {"change", "grant"}
       /\ Cardinality({h \in Handlers : clerk'[h].op \in {"expire", "insert"}}) <= 1
    \/ scene = "staff" /\ invite' = invite

\* The customer exists at Stripe and at most one card is removed, or there is no
\* customer yet and the cards are only added.
WalletScene ==
    /\ InTurn(errand, errand', Unsent)
    /\ InTurn([c \in StripeCustomers |-> c \in made],
              [c \in StripeCustomers |-> c \in made'], FALSE)
    /\ \/ /\ scene = "cards" /\ Cardinality(made') <= 1 /\ Cardinality(unwanted') <= 1
          /\ Cardinality({e \in Errands : "makeDefault" \in DOMAIN errand'[e]}) <= 1
       \/ /\ scene = "firstCards" /\ unwanted' = {}
          /\ \A e \in Errands : errand'[e].op \notin {"clear", "promote", "clearAll"}
          /\ \A e \in Errands : errand'[e] = Unsent => errand[e].op \in {"idle", "find", "insert"}

\* One plan gets a price twice at once, or prices change while the subscriber is on
\* the portal.
WebPlanScene ==
    /\ InTurn(pricing, pricing', Done)
    /\ InTurn(product, product', NoPrice) /\ InTurn(stripePrice, stripePrice', Unmade)
    /\ \/ /\ scene = "prices" /\ granted' = granted
          /\ Cardinality({i \in PriceIds : stripePrice'[i] # Unmade}) <= 2
          /\ \A a \in Pricings : pricing'[a] # Done => Rank(Plans)[pricing'[a].plan] = 1
       \/ scene = "switches" /\ Cardinality({a \in Pricings : pricing'[a] # Done}) <= 1

\* The expert's banners pass moderation, or viewers tap on one.
BannerScene ==
    /\ InTurn(upload, upload', "idle") /\ InTurn(tap, tap', NotNow)
    /\ \/ scene = "uploads" /\ tap' = tap /\ (shownNow' # {} => today = 1)
       \/ /\ scene = "clicks" /\ shownNow' = {} /\ listedPlan'
          /\ Cardinality({b \in BannerIds : banner'[b].status # "none"}) <= 1
          /\ Cardinality({u \in Uploads : upload'[u] # "idle"}) <= 1

\* Phones change hands and get pushes, or a user reads them.
NoticeScene ==
    \/ /\ scene = "phones"
       /\ \A q \in Requests : notifying'[q].op \notin {"read", "clear", "prefer"}
       /\ Cardinality({q \in Requests : notifying'[q].op \in {"insert", "devices", "push"}}) <= 1
       /\ \A q \in Requests : notifying'[q].op = "insert" => notifying'[q].audience # "expert"
       /\ \A i \in Notes : note'[i].unread = (note'[i] # NoNote) /\ ~note'[i].cleared
    \/ /\ scene = "feed" /\ deviceToken' = deviceToken /\ uninstalled' = {}
       /\ \A q \in Requests : notifying'[q].op # "upsert"

\* Pairs are alike.  The browser gets three of them, or two and the account is suspended.
PortalScene ==
    /\ InTurn(refreshRow, refreshRow', "none")
    /\ standings' > 0 => Cardinality({t \in Pairs : refreshRow'[t] # "none"}) <= 2

AroundAccountsScene ==
    /\ \/ scene \in {"invites", "staff"} /\ AdminsMove /\ AdminScene
       \/ scene = "portal" /\ AdminSessionsMove /\ PortalScene
       \/ /\ scene = "events" /\ AdminFeedMove
          /\ Cardinality(UNION {{k} \X stamped'[k] : k \in Kinds}) <= 2
       \/ scene \in {"cards", "firstCards"} /\ WalletMove /\ WalletScene
       \/ /\ scene = "onboarding" /\ PayoutAccountsMove
          /\ InTurn(visit, visit', Away) /\ InTurn(connected, connected', Uncreated)
          /\ Cardinality(updates') <= 1
       \/ scene \in {"prices", "switches"} /\ WebPlansMove /\ WebPlanScene
       \/ scene \in {"uploads", "clicks"} /\ BannersMove /\ BannerScene
       \/ scene \in {"phones", "feed"} /\ NoticesMove /\ NoticeScene
    /\ UNCHANGED vars

SceneNext ==
    /\ \/ EarningsScene /\ UNCHANGED accountVars
       \/ AroundAccountsScene
    /\ UNCHANGED scene

SceneSpec == SceneInit /\ [][SceneNext]_<<vars, accountVars, scene>>
=============================================================================
