------------------------- MODULE SubscriptionSystem -------------------------
(***************************************************************************)
(* An expert's way into and out of search: plans (Subscriptions), bought   *)
(* at three stores (Stores), and the verification, repair and removal of   *)
(* the listing in expert-service and admin-service (below).                *)
(***************************************************************************)
EXTENDS Subscriptions


VARIABLE heals    \* listings an expert's own profile page is about to repair

vars == <<subscriptionVars, heals>>

TypeOK == SubscriptionsTypeOK /\ heals \subseteq Experts

Init == SubscriptionsInit /\ heals = {}

Sets(e, change) == profile' = [profile EXCEPT ![e] = change]
Desks(kind)     == kind \in Traffic /\ UNCHANGED <<storeVars, sweep, heals>>

-----------------------------------------------------------------------------
(* expert-service                                                            *)

\* Onboarding and documents put the account back to review whatever it was; the
\* listing column is left as it is.
BackToReview(e) ==
    /\ Desks("submit")
    /\ Sets(e, [profile[e] EXCEPT !.approved = FALSE])
    /\ UNCHANGED <<sub, job>>

submitOnboarding(e)            == BackToReview(e)
submitVerificationDocuments(e) == BackToReview(e)

\* Asks for a rejection before the transaction: the portal may approve in between.
resubmitVerificationDocuments(e) == BackToReview(e)

\* getExpertProfileOrThrow repairs a listing without waiting for the write
getExpertProfile(e) ==
    /\ profile[e].approved /\ ActiveOf(e) # {} /\ ~profile[e].eligible
    /\ heals' = heals \cup {e}
    /\ UNCHANGED subscriptionVars

HealWrites(e) ==
    /\ e \in heals
    /\ profile' = [profile EXCEPT ![e].eligible = TRUE]
    /\ heals' = heals \ {e}
    /\ UNCHANGED <<sub, storeVars, job, sweep>>

\* Plans are left as they are
deleteExpertAccount(e) ==
    /\ Desks("remove")
    /\ Sets(e, [profile[e] EXCEPT !.eligible = FALSE])
    /\ UNCHANGED <<sub, job>>

-----------------------------------------------------------------------------
(* admin-service                                                             *)

\* The approval reads the active plan and then writes the profile
ApproveReads(j, e) ==
    /\ "approve" \in Traffic
    /\ Begins(j, [IdleJob EXCEPT !.op = "approve", !.e = e, !.retire = ActiveOf(e)])
    /\ UNCHANGED <<sub, profile, storeVars, sweep, heals>>

ApproveWrites(j) ==
    /\ job[j].op = "approve"
    /\ Sets(job[j].e, [profile[job[j].e] EXCEPT !.approved = TRUE, !.eligible = job[j].retire # {}])
    /\ Completes(j)
    /\ UNCHANGED <<sub, storeVars, sweep, heals>>

reject(e) ==
    /\ Desks("reject")
    /\ Sets(e, [profile[e] EXCEPT !.approved = FALSE, !.eligible = FALSE])
    /\ UNCHANGED <<sub, job>>

\* An edit of the account may list or hide the expert by hand
update(e) ==
    /\ Desks("edit")
    /\ \E listed \in BOOLEAN : Sets(e, [profile[e] EXCEPT !.eligible = listed])
    /\ UNCHANGED <<sub, job>>

remove(e) ==
    /\ Desks("remove")
    /\ Sets(e, [profile[e] EXCEPT !.eligible = FALSE])
    /\ sub' = [p \in Purchases |-> IF p \in ActiveOf(e) THEN [sub[p] EXCEPT !.status = "canceled"]
                                   ELSE sub[p]]
    /\ UNCHANGED job

-----------------------------------------------------------------------------
AccountStep ==
    \/ \E e \in Experts :
          \/ submitOnboarding(e) \/ submitVerificationDocuments(e)
          \/ resubmitVerificationDocuments(e) \/ getExpertProfile(e) \/ HealWrites(e)
          \/ deleteExpertAccount(e) \/ reject(e) \/ update(e) \/ remove(e)
          \/ \E j \in Jobs : ApproveReads(j, e)
    \/ \E j \in Jobs : ApproveWrites(j)

StoreStep ==
    /\ Cardinality(hooks) < MaxHooks
    /\ \E p \in Purchases :
       \/ \E tier \in Tiers, q \in Purchases \cup {NoPurchase} : Buys(p, tier, q)
       \/ \E tier \in Tiers : SwitchesPlan(p, tier)
       \/ Pays(p) \/ PeriodEnds(p) \/ Recovers(p) \/ GivesUp(p) \/ Revokes(p) \/ TurnsRenewal(p)

\* What a running request does next
Continues(j) ==
    \/ ActivateReads(j) \/ ActivateUndecided(j) \/ ActivateCommits(j)
    \/ cancelSupersededSubscriptions(j)
    \/ CheckoutCancelsOther(j) \/ CheckoutRetires(j) \/ CheckoutCommits(j)
    \/ NotificationUpdates(j) \/ NotificationLists(j) \/ RevokeChecks(j) \/ RevokeWrites(j)
    \/ MySubscriptionExpires(j) \/ ReconcileWrites(j) \/ CancelTellsStripe(j) \/ CancelUntold(j)

Requested(j) ==
    \/ \E e \in Experts, p \in Purchases : verifyPurchase(j, e, p)
    \/ \E h \in hooks : CheckoutCompleted(j, h) \/ NotificationReads(j, h)
                        \/ NotificationReadsBlind(j, h)
    \/ \E p \in Purchases : MySubscriptionReads(j, p) \/ ReconcileReads(j, p)
                            \/ cancelSubscription(j, p)

BillingStep ==
    \/ \E j \in Jobs : Requested(j) \/ Continues(j)
    \/ \E e \in Experts, p \in Purchases, tier \in Tiers : createStripeCheckoutSession(e, p, tier)
    \/ expireSubscriptions \/ SweepWrites
    \/ BillingRestarts

Next == \/ AccountStep
        \/ StoreStep /\ UNCHANGED <<sub, profile, job, sweep, heals>>
        \/ BillingStep /\ UNCHANGED heals

Spec == Init /\ [][Next]_vars

\* The overnight job runs every night and finishes; nothing else is assumed.
Fairness == WF_vars((expireSubscriptions \/ SweepWrites) /\ UNCHANGED heals)

FairSpec == Spec /\ Fairness

-----------------------------------------------------------------------------
(* Properties                                                                *)

\* A store purchase moves to another account only when its row there was no
\* longer entitled or the store says it is no longer paid: two accounts that
\* claim one purchase at the same time cannot both have it
\* (activateStoreSubscription).  Stated for runs in which the store revives no
\* lapsed row while it is claimed.
LivePurchaseStays ==
    [][\A p \in Purchases :
         (sub[p].expert # NoExpert /\ sub'[p].expert # sub[p].expert)
            => ~entitled(p, sub[p]) \/ StoreLapsed(p)]_vars

\* Only one row of an account is active, however many in-app purchases are
\* verified at the same time and whatever is read before the locks are taken
\* ("only one live row per account").
OneActiveRow == \A e \in Experts : Cardinality(ActiveOf(e)) <= 1

\* An expert without an active plan does not stay in search: whatever webhooks,
\* late repairs and admin edits list again is taken out by the next night's job
\* (expireSubscriptions, the safety sweep).
UnsubscribedIsUnlisted ==
    \A e \in Experts : []<>(Public(e) => ActiveOf(e) # {})
=============================================================================
