------------------------- MODULE SubscriptionTable --------------------------
(***************************************************************************)
(* The rows an expert's plan is made of: expert_subscriptions, keyed by    *)
(* the store's purchase id, and the two columns of expert_profiles that    *)
(* decide whether customers see the expert.  billing-service, expert- *)
(* service and admin-service all write them.                               *)
(*                                                                         *)
(* Time is counted in billing periods of each purchase: a row is paid      *)
(* until the end of a period, and `now' is the period the store is in.     *)
(***************************************************************************)
EXTENDS Naturals, FiniteSets

CONSTANTS
    Experts, NoExpert,
    Purchases, NoPurchase,   \* original transactions, tokens, Stripe subscriptions
    StoreOf,                 \* the store of each purchase
    Tiers,                   \* the plans by rank: core < professional < elite
    Jobs                     \* slots for concurrently running requests

ASSUME StoreAssumption == StoreOf \in [Purchases -> {"apple", "google", "stripe"}]
ASSUME TierAssumption  == Tiers \subseteq Nat /\ Tiers # {}
ASSUME NoneAssumption  == NoExpert \notin Experts /\ NoPurchase \notin Purchases

VARIABLES
    sub,       \* expert_subscriptions
    profile    \* expert_profiles

ENTITLED_STATUSES == {"active", "grace_period", "on_hold"}

SubscriptionStatus == ENTITLED_STATUSES \cup {"none", "canceled", "expired"}

Sub == [expert      : Experts \cup {NoExpert},
        status      : SubscriptionStatus,
        plan        : Tiers,
        until       : Nat,       \* currentPeriodEnd
        grace       : Nat,       \* gracePeriodEnd, 0 if there is none
        cancelAtEnd : BOOLEAN]

\* verificationStatus counts as far as it is "approved" or not
Profile == [approved : BOOLEAN, eligible : BOOLEAN]    \* eligible: searchEligible

NoSub == [expert |-> NoExpert, status |-> "none", plan |-> CHOOSE t \in Tiers : TRUE,
          until |-> 0, grace |-> 0, cancelAtEnd |-> FALSE]

TableTypeOK ==
    /\ sub \in [Purchases -> Sub]
    /\ profile \in [Experts -> Profile]

\* Sign-up has happened; nothing is bought and nothing submitted.
TableInit ==
    /\ sub = [p \in Purchases |-> NoSub]
    /\ profile = [e \in Experts |-> [approved |-> FALSE, eligible |-> FALSE]]

-----------------------------------------------------------------------------
(* subscriptionRules.js *)

hasActiveEntitlement(r, now) ==
    /\ r.status \in ENTITLED_STATUSES
    /\ r.until >= now \/ (r.status = "grace_period" /\ r.grace >= now)

\* A plan may follow another plan of the same account only upwards
evaluatePlanChange(current, next) == next > current

RowsOf(e)   == {p \in Purchases : sub[p].expert = e}
ActiveOf(e) == {p \in RowsOf(e) : sub[p].status = "active"}

\* Statuses that keep an expert listed when a webhook takes one row away
Surviving(p) == IF StoreOf[p] = "stripe" THEN {"active"} ELSE ENTITLED_STATUSES

\* PUBLIC_WHERE: what search and public profiles show
Public(e) == profile[e].eligible /\ profile[e].approved

\* updateMany where approved and not listed: one statement
Relisted(e) == [profile EXCEPT ![e].eligible = @ \/ profile[e].approved]
Unlisted(e) == [profile EXCEPT ![e].eligible = FALSE]
=============================================================================
