------------------------------ MODULE WebPlans ------------------------------
(***************************************************************************)
(* The plans sold on the website (billing-service).  A plan is a product   *)
(* at Stripe and its price an object there that never changes: an admin    *)
(* who sets another price puts another object on the plan's row, and who   *)
(* subscribed keeps the old one.  One subscriber checks out, switches      *)
(* plans on Stripe's portal, and has the plan of a row that follows the    *)
(* price Stripe charges.  Products are found by the plan's code, which the *)
(* search at Stripe knows a little after they are created.                 *)
(***************************************************************************)
EXTENDS Naturals, FiniteSets

CONSTANTS
    Plans,       \* codes of plans
    Products,    \* ids of products Stripe may create
    PriceIds,    \* ids of price objects Stripe may create
    Amounts,     \* what a month may cost
    Pricings,    \* requests of admins handled at a time
    NoPrice      \* no plan, product or price

ASSUME WebPlansAssumption ==
    NoPrice \notin Plans \cup Products \cup PriceIds \cup Amounts

VARIABLES
    webPlan,     \* rows of subscription_plans
    product,     \* Stripe: the plan in each product's metadata
    searchable,  \* Stripe: products its search finds
    stripePrice, \* Stripe: the prices
    pricing,     \* where each request of an admin is
    offered,     \* Stripe: the prices on the subscriber's open portal
    paying,      \* Stripe: the price of the subscription, and the one it goes over to
    granted,     \* expert_subscriptions: the plan of the subscriber's row
    switched,    \* the price of customer.subscription.updated, to deliver
    unanswered   \* history: Stripe did not answer while that was handled

webPlanVars ==
    <<webPlan, product, searchable, stripePrice, pricing, offered, paying, granted,
      switched, unanswered>>

Unpriced == [product |-> NoPrice, price |-> NoPrice, cents |-> NoPrice]
Unmade   == [product |-> NoPrice, cents |-> NoPrice]
Done     == [op |-> "idle"]

WebPlansTypeOK ==
    /\ webPlan \in [Plans -> {Unpriced} \cup
                      [product : Products, price : PriceIds, cents : Amounts]]
    /\ product \in [Products -> Plans \cup {NoPrice}] /\ searchable \subseteq Products
    /\ stripePrice \in [PriceIds -> {Unmade} \cup [product : Products, cents : Amounts]]
    /\ pricing \in [Pricings -> {Done}
          \cup [op : {"search", "product"}, plan : Plans, cents : Amounts]
          \cup [op : {"list", "price"}, plan : Plans, cents : Amounts, product : Products]
          \cup [op : {"write"}, plan : Plans, cents : Amounts, product : Products,
                price : PriceIds]]
    /\ offered \subseteq PriceIds
    /\ paying \in [now : PriceIds \cup {NoPrice}, next : PriceIds \cup {NoPrice}]
    /\ switched \in PriceIds \cup {NoPrice}
    /\ granted \in Plans \cup {NoPrice} /\ unanswered \in BOOLEAN

WebPlansInit ==
    /\ webPlan = [p \in Plans |-> Unpriced]
    /\ product = [x \in Products |-> NoPrice] /\ searchable = {}
    /\ stripePrice = [x \in PriceIds |-> Unmade]
    /\ pricing = [a \in Pricings |-> Done]
    /\ offered = {} /\ paying = [now |-> NoPrice, next |-> NoPrice]
    /\ granted = NoPrice /\ switched = NoPrice /\ unanswered = FALSE

(***************************************************************************)
(* setPlanWebPricing reads the plan; ensureMonthlyPrice takes its product, *)
(* or searches for one, or creates it, takes a price of the amount, or     *)
(* creates it; and one UPDATE writes product, price and amount.            *)
(***************************************************************************)
setPlanWebPricing(a, p, c) ==
    /\ pricing[a] = Done
    /\ pricing' = [pricing EXCEPT ![a] =
         IF webPlan[p] = Unpriced
         THEN [op |-> "search", plan |-> p, cents |-> c]
         ELSE [op |-> "list", plan |-> p, cents |-> c, product |-> webPlan[p].product]]
    /\ UNCHANGED <<webPlan, product, searchable, stripePrice, offered, paying, granted,
                   switched, unanswered>>

ListPricesOf(a, x) ==
    pricing' = [pricing EXCEPT ![a] = [op |-> "list", plan |-> pricing[a].plan,
                                       cents |-> pricing[a].cents, product |-> x]]

searchProduct(a) ==
    LET found == {x \in searchable : product[x] = pricing[a].plan} IN
    /\ pricing[a].op = "search"
    /\ \/ \E x \in found : ListPricesOf(a, x)
       \/ found = {} /\ pricing' = [pricing EXCEPT ![a].op = "product"]
    /\ UNCHANGED <<webPlan, product, searchable, stripePrice, offered, paying, granted,
                   switched, unanswered>>

createProduct(a, x) ==
    /\ pricing[a].op = "product" /\ product[x] = NoPrice
    /\ product' = [product EXCEPT ![x] = pricing[a].plan]
    /\ ListPricesOf(a, x)
    /\ UNCHANGED <<webPlan, searchable, stripePrice, offered, paying, granted, switched,
                   unanswered>>

WritePriced(a, i) ==
    pricing' = [pricing EXCEPT ![a] =
      [op |-> "write", plan |-> pricing[a].plan, cents |-> pricing[a].cents,
       product |-> pricing[a].product, price |-> i]]

Monthly(x) == {i \in PriceIds : stripePrice[i].product = x}

\* Mutant: any monthly price of the product will do.
listPricesAny(a) ==
    LET found == Monthly(pricing[a].product) IN
    /\ pricing[a].op = "list"
    /\ \/ \E i \in found : WritePriced(a, i)
       \/ found = {} /\ pricing' = [pricing EXCEPT ![a].op = "price"]
    /\ UNCHANGED <<webPlan, product, searchable, stripePrice, offered, paying, granted,
                   switched, unanswered>>

listPrices(a) ==
    LET found == {i \in Monthly(pricing[a].product) : stripePrice[i].cents = pricing[a].cents} IN
    /\ pricing[a].op = "list"
    /\ \/ \E i \in found : WritePriced(a, i)
       \/ found = {} /\ pricing' = [pricing EXCEPT ![a].op = "price"]
    /\ UNCHANGED <<webPlan, product, searchable, stripePrice, offered, paying, granted,
                   switched, unanswered>>

createPrice(a, i) ==
    /\ pricing[a].op = "price" /\ stripePrice[i] = Unmade
    /\ stripePrice' = [stripePrice EXCEPT ![i] = [product |-> pricing[a].product,
                                                 cents |-> pricing[a].cents]]
    /\ WritePriced(a, i)
    /\ UNCHANGED <<webPlan, product, searchable, offered, paying, granted, switched, unanswered>>

updatePlan(a) ==
    /\ pricing[a].op = "write"
    /\ webPlan' = [webPlan EXCEPT ![pricing[a].plan] =
         [product |-> pricing[a].product, price |-> pricing[a].price, cents |-> pricing[a].cents]]
    /\ pricing' = [pricing EXCEPT ![a] = Done]
    /\ UNCHANGED <<product, searchable, stripePrice, offered, paying, granted, switched,
                   unanswered>>

\* A refusal of Stripe, a lost answer or a restart.
PricingFails(a) ==
    /\ pricing[a] # Done
    /\ pricing' = [pricing EXCEPT ![a] = Done]
    /\ UNCHANGED <<webPlan, product, searchable, stripePrice, offered, paying, granted,
                   switched, unanswered>>

SearchCatchesUp(x) ==
    /\ product[x] # NoPrice /\ x \notin searchable /\ searchable' = searchable \cup {x}
    /\ UNCHANGED <<webPlan, product, stripePrice, pricing, offered, paying, granted, switched,
                   unanswered>>

(***************************************************************************)
(* The subscriber.  A checkout is for the price on the plan's row, and the *)
(* row of the subscription gets the plan of the checkout.  The portal      *)
(* offers the price of each plan, except of the product subscribed to,     *)
(* where it is the subscriber's own.  A switch is charged at once, or at   *)
(* the end of the period.                                                  *)
(***************************************************************************)
createCheckoutSession(p) ==
    /\ paying.now = NoPrice /\ webPlan[p] # Unpriced
    /\ paying' = [now |-> webPlan[p].price, next |-> NoPrice]
    /\ granted' = p
    /\ UNCHANGED <<webPlan, product, searchable, stripePrice, pricing, offered, switched,
                   unanswered>>

buildPortalProducts ==
    {webPlan[p].price : p \in {p \in Plans : webPlan[p] # Unpriced
                                 /\ webPlan[p].product # stripePrice[paying.now].product}}
      \cup {paying.now}

createStripePortalSession ==
    /\ paying.now # NoPrice
    /\ offered' = buildPortalProducts
    /\ UNCHANGED <<webPlan, product, searchable, stripePrice, pricing, paying, granted, switched,
                   unanswered>>

SwitchPlan(i) ==
    /\ i \in offered /\ paying.next = NoPrice /\ switched = NoPrice
    /\ paying' = [paying EXCEPT !.next = i]
    /\ offered' = {}
    /\ UNCHANGED <<webPlan, product, searchable, stripePrice, pricing, granted, switched,
                   unanswered>>

SwitchIsCharged ==
    /\ paying.next # NoPrice
    /\ paying' = [now |-> paying.next, next |-> NoPrice]
    /\ switched' = paying.next
    /\ UNCHANGED <<webPlan, product, searchable, stripePrice, pricing, offered, granted,
                   unanswered>>

(***************************************************************************)
(* planForStripePrice: the plan that has the price; or else one whose      *)
(* price is of the same product, if Stripe answers; or none.               *)
(***************************************************************************)
\* Mutant: only the plan that has the price.
planForStripePriceExact(i, answered) == {p \in Plans : webPlan[p].price = i}

planForStripePrice(i, answered) ==
    LET exact == {p \in Plans : webPlan[p].price = i} IN
    IF exact # {} THEN exact
    ELSE {p \in Plans : answered /\ webPlan[p] # Unpriced
                          /\ stripePrice[webPlan[p].price].product = stripePrice[i].product}

\* customer.subscription.updated: a price of no plan changes nothing.
subscriptionUpdated(answered) ==
    LET found == planForStripePrice(switched, answered) IN
    /\ switched # NoPrice /\ switched' = NoPrice
    /\ \/ \E p \in found : granted' = p
       \/ found = {} /\ UNCHANGED granted
    /\ unanswered' = ~answered
    /\ UNCHANGED <<webPlan, product, searchable, stripePrice, pricing, offered, paying>>

WebPlansNext ==
    \/ \E a \in Pricings :
          \/ \E p \in Plans, c \in Amounts : setPlanWebPricing(a, p, c)
          \/ searchProduct(a) \/ listPrices(a) \/ updatePlan(a) \/ PricingFails(a)
          \/ \E x \in Products : createProduct(a, x)
          \/ \E i \in PriceIds : createPrice(a, i)
    \/ \E x \in Products : SearchCatchesUp(x)
    \/ \E p \in Plans : createCheckoutSession(p)
    \/ createStripePortalSession \/ \E i \in PriceIds : SwitchPlan(i)
    \/ SwitchIsCharged \/ \E b \in BOOLEAN : subscriptionUpdated(b)

(***************************************************************************)
(* The price shown is the price charged: the amount on a plan's row is     *)
(* that of the Stripe price on it, and both are of the product on it,      *)
(* whatever admins do at once and whichever answers of Stripe are lost.    *)
(***************************************************************************)
PriceShownIsCharged ==
    \A p \in Plans : webPlan[p] # Unpriced =>
       stripePrice[webPlan[p].price] = [product |-> webPlan[p].product, cents |-> webPlan[p].cents]

(***************************************************************************)
(* The expert has the plan that is paid for, although a plan's price may   *)
(* change after the portal offered it or after the switch was scheduled.   *)
(* Exceptions: the plan has got two products, or Stripe did not answer.    *)
(***************************************************************************)
OneProductEach == \A x, y \in Products : product[x] = product[y] => x = y \/ product[x] = NoPrice

PaidPlanIsGranted ==
    paying.now # NoPrice /\ switched = NoPrice /\ ~unanswered /\ OneProductEach
       => granted = product[stripePrice[paying.now].product]
=============================================================================
