------------------------------- MODULE Stores -------------------------------
(***************************************************************************)
(* Apple, Google and Stripe as far as the code sees them: purchases that   *)
(* renew, lapse, are cancelled or revoked, and the notifications about     *)
(* them, which arrive late, twice (a fault) and in any order.              *)
(***************************************************************************)
EXTENDS SubscriptionTable

CONSTANTS
    Traffic,       \* which kinds of requests are made
    StoreEvents,   \* which of the events below happen
    MaxPeriods,    \* bound on the billing periods of a purchase
    MaxHooks,      \* bound on the notifications under way when a store acts
    MaxFaults      \* bound on failed calls and repeated deliveries together

ASSUME StoreBounds ==
    /\ StoreEvents \subseteq {"renew", "fail", "revoke", "switch"}
    /\ MaxPeriods \in Nat /\ MaxHooks \in Nat /\ MaxFaults \in Nat

ASSUME TrafficAssumption ==
    Traffic \subseteq {"verify", "checkout", "notify", "look", "cancel",
                      "night", "submit", "approve", "reject", "edit", "remove"}

VARIABLES
    store,      \* the purchases at the stores
    checkout,   \* Stripe Checkout sessions still open
    hooks,      \* notifications not yet delivered
    faults      \* how many faults there have been

storeVars == <<store, checkout, hooks, faults>>

Store == [st     : {"none", "live", "grace", "hold", "ended", "revoked"},
          plan   : Tiers,
          period : Nat,        \* the period the purchase is in
          paidTo : Nat,        \* the last period covered
          renews : BOOLEAN,
          linked : Purchases \cup {NoPurchase}]

Session == [expert : Experts \cup {NoExpert}, plan : Tiers]
NoSession == [expert |-> NoExpert, plan |-> NoSub.plan]

Hook == [type : {"subscribed", "renewed", "upgraded", "grace", "hold", "expired", "revoked",
                 "renewOff", "renewOn", "checkout", "updated", "deleted"},
         p : Purchases, plan : Tiers, until : Nat, renews : BOOLEAN,
         status : {"active", "canceled", "expired"}, expert : Experts \cup {NoExpert}]

StoresTypeOK ==
    /\ store \in [Purchases -> Store]
    /\ checkout \in [Purchases -> Session]
    /\ hooks \subseteq Hook
    /\ faults \in Nat

Unsold == [st |-> "none", plan |-> NoSub.plan, period |-> 0, paidTo |-> 0,
           renews |-> FALSE, linked |-> NoPurchase]

StoresIdle ==
    /\ checkout = [p \in Purchases |-> NoSession]
    /\ hooks = {}
    /\ faults = 0

StoresInit == store = [p \in Purchases |-> Unsold] /\ StoresIdle

Fault == faults < MaxFaults /\ faults' = faults + 1

\* A notification carries the purchase as it is when it is sent.
StripeStatus(s) ==
    CASE s.st = "live" -> "active" [] s.st = "ended" -> "canceled"
      [] OTHER -> "expired"
Note(type, p, s) ==
    [type |-> type, p |-> p, plan |-> s.plan, until |-> s.paidTo, renews |-> s.renews,
     status |-> StripeStatus(s), expert |-> NoExpert]

\* What Stripe calls an event of each kind; Apple and Google name each change
Told(type, p) == IF StoreOf[p] # "stripe" THEN type
                 ELSE IF type = "expired" THEN "deleted" ELSE "updated"

\* Without traffic of that kind nothing is ever delivered
Sent(notes) == IF "notify" \in Traffic THEN hooks \cup notes ELSE hooks

Becomes(type, p, s) ==
    /\ store' = [store EXCEPT ![p] = s]
    /\ hooks' = Sent({Note(Told(type, p), p, s)})
    /\ UNCHANGED <<checkout, faults>>

\* An in-app purchase; Google gives every purchase a token of its own and names
\* the token it replaces, Apple keeps the original transaction.
Buys(p, tier, q) ==
    /\ StoreOf[p] # "stripe"
    /\ store[p].st = "none" \/ (StoreOf[p] = "apple" /\ store[p].st \in {"ended", "revoked"})
    /\ store[p].period < MaxPeriods
    /\ q # NoPurchase => q # p /\ StoreOf[p] = "google" /\ StoreOf[q] = "google"
                         /\ store[q].st \in {"live", "grace", "hold"}
    /\ LET s == [st |-> "live", plan |-> tier, period |-> store[p].period + 1,
                 paidTo |-> store[p].period + 1, renews |-> TRUE, linked |-> q]
           replaced == IF q = NoPurchase THEN store ELSE [store EXCEPT ![q].st = "ended"]
       IN  /\ store' = [replaced EXCEPT ![p] = s]
           /\ hooks' = Sent({Note("subscribed", p, s)}
                  \cup IF q = NoPurchase THEN {} ELSE {Note("expired", q, replaced[q])})
           /\ UNCHANGED <<checkout, faults>>

\* The customer completes an open Checkout page
Pays(p) ==
    /\ checkout[p] # NoSession /\ store[p].period < MaxPeriods
    /\ LET s == [store[p] EXCEPT !.st = "live", !.plan = checkout[p].plan, !.renews = TRUE,
                         !.period = @ + 1, !.paidTo = store[p].period + 1]
       IN  /\ store' = [store EXCEPT ![p] = s]
           /\ hooks' = hooks \cup {[Note("checkout", p, s) EXCEPT !.expert = checkout[p].expert]}
    /\ checkout' = [checkout EXCEPT ![p] = NoSession]
    /\ UNCHANGED faults

PeriodEnds(p) ==
    LET next == [store[p] EXCEPT !.period = @ + 1]
    IN  /\ store[p].st = "live" /\ store[p].period < MaxPeriods
        /\ \/ /\ store[p].renews /\ "renew" \in StoreEvents
              /\ Becomes("renewed", p, [next EXCEPT !.paidTo = next.period])
           \/ \* billing fails; in grace Google extends the expiry, Apple does not
              /\ store[p].renews /\ "fail" \in StoreEvents
              /\ Becomes("grace", p, [next EXCEPT !.st = "grace",
                   !.paidTo = IF StoreOf[p] = "google" THEN next.period ELSE @])
           \/ /\ ~store[p].renews
              /\ Becomes("expired", p, [next EXCEPT !.st = "ended"])

\* The failed payment goes through after all, or the store gives up in two steps
Recovers(p) ==
    /\ store[p].st \in {"grace", "hold"}
    /\ Becomes("renewed", p, [store[p] EXCEPT !.st = "live", !.paidTo = store[p].period])

GivesUp(p) ==
    \/ store[p].st = "grace" /\ Becomes("hold", p, [store[p] EXCEPT !.st = "hold"])
    \/ store[p].st = "hold" /\ Becomes("expired", p, [store[p] EXCEPT !.st = "ended"])

Revokes(p) ==
    /\ "revoke" \in StoreEvents
    /\ StoreOf[p] # "stripe" /\ store[p].st \in {"live", "grace", "hold"}
    /\ Becomes("revoked", p, [store[p] EXCEPT !.st = "revoked", !.renews = FALSE])

TurnsRenewal(p) ==
    /\ store[p].st = "live"
    /\ Becomes(IF store[p].renews THEN "renewOff" ELSE "renewOn", p,
               [store[p] EXCEPT !.renews = ~@])

\* An upgrade inside Apple's subscription group, or any change in Stripe's portal
SwitchesPlan(p, tier) ==
    /\ "switch" \in StoreEvents
    /\ store[p].st = "live"
    /\ StoreOf[p] # "google" /\ tier # store[p].plan
    /\ StoreOf[p] = "apple" => tier > store[p].plan
    /\ Becomes("upgraded", p, [store[p] EXCEPT !.plan = tier])

\* The code cancels at the store: Google stops renewing, Stripe ends at once
CancelAt(p) ==
    LET s == IF StoreOf[p] = "google" THEN [store[p] EXCEPT !.renews = FALSE]
             ELSE [store[p] EXCEPT !.st = "ended", !.renews = FALSE]
    IN  IF store[p].st \in {"live", "grace", "hold"}
        THEN /\ store' = [store EXCEPT ![p] = s]
             /\ hooks' = Sent({Note(IF StoreOf[p] = "google" THEN "renewOff" ELSE "deleted", p, s)})
        ELSE UNCHANGED <<store, hooks>>
=============================================================================
