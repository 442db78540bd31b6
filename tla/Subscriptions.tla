---------------------------- MODULE Subscriptions ---------------------------
(***************************************************************************)
(* billing-service: expert plans.  In-app purchases are verified and       *)
(* attached to an account under advisory locks; a Checkout webhook does    *)
(* the same for Stripe without them; store notifications and an overnight  *)
(* job keep the rows and the listing of the expert up to date.             *)
(*                                                                         *)
(* A request runs in a slot of Jobs and is split between what it reads and *)
(* what it writes.  A transaction takes effect when it commits; the locks  *)
(* it holds until then are the "activate" jobs.                            *)
(***************************************************************************)
EXTENDS Stores

VARIABLES
    job,      \* the requests in progress
    sweep     \* the overnight job

subscriptionVars == <<sub, profile, storeVars, job, sweep>>

NoHook == [type |-> "none"]

Job == [op     : {"idle", "verify", "activate", "supersede", "notified", "list", "revoke",
                  "unlist", "checkout", "retire", "expire", "reconcile", "cancel", "approve"},
        e      : Experts \cup {NoExpert},
        p      : Purchases \cup {NoPurchase},
        h      : Hook \cup {NoHook},
        plan   : Tiers,                \* the plan bought, or the one read in the row
        live   : BOOLEAN,              \* whether the row was entitled when read
        until  : Nat,
        stops  : BOOLEAN,              \* the store says it will not renew
        retire : SUBSET Purchases,     \* rows a transaction found active
        cross  : SUBSET Purchases]     \* rows to cancel at another store

IdleJob == [op |-> "idle", e |-> NoExpert, p |-> NoPurchase, h |-> NoHook,
            plan |-> NoSub.plan, live |-> FALSE, until |-> 0, stops |-> FALSE, retire |-> {}, cross |-> {}]

NoSweep == <<>>
Sweep   == {NoSweep} \cup {<<found>> : found \in SUBSET Experts}   \* listed without a plan

SubscriptionsTypeOK ==
    /\ TableTypeOK
    /\ StoresTypeOK
    /\ job \in [Jobs -> Job]
    /\ sweep \in Sweep

RequestsIdle == job = [j \in Jobs |-> IdleJob] /\ sweep = NoSweep

SubscriptionsInit == TableInit /\ StoresInit /\ RequestsIdle

Begins(j, r) == job[j].op = "idle" /\ job' = [job EXCEPT ![j] = r]
Goes(j, r)   == job' = [job EXCEPT ![j] = r]
Completes(j) == job' = [job EXCEPT ![j] = IdleJob]

entitled(p, r) == hasActiveEntitlement(r, store[p].period)

\* What a verified purchase is good for.  One that has less than a day left, or
\* has ended, is taken for a test purchase and granted thirty days from now.
PeriodEnd(p) == IF store[p].paidTo < store[p].period THEN store[p].period
                ELSE store[p].paidTo

-----------------------------------------------------------------------------
(* POST /verify/apple and /verify/google, activateStoreSubscription          *)

CrossStoreRows(e, p) == {q \in ActiveOf(e) : /\ StoreOf[q] # StoreOf[p]
                                             /\ sub[q].until >= store[q].period}

\* The store vouches for the purchase, whoever of the experts presents it
verifyPurchase(j, e, p) ==
    /\ "verify" \in Traffic
    /\ StoreOf[p] # "stripe" /\ store[p].st # "none"
    /\ StoreOf[p] = "apple" => store[p].st # "revoked"
    /\ Begins(j, [IdleJob EXCEPT !.op = "verify", !.e = e, !.p = p, !.plan = store[p].plan,
                                 !.until = PeriodEnd(p), !.cross = CrossStoreRows(e, p)])
    /\ UNCHANGED <<sub, profile, storeVars, sweep>>

\* Mutant: only the purchase is locked, and not the account
UnlockedExpert(e, p) ==
    \A i \in Jobs : job[i].op = "activate" => job[i].p # p

\* The advisory locks on the purchase and on the account
Unlocked(e, p) ==
    \A i \in Jobs : job[i].op = "activate" => job[i].p # p /\ job[i].e # e

\* The store of a foreign owner's row, asked whether it is still paid
StoreLapsed(p) == store[p].st \in {"ended", "revoked"} \/ store[p].paidTo < store[p].period

\* Mutant: the store is not asked, and the stored row not looked at
OwnerHasLapsedUnasked(e, p) == TRUE

OwnerHasLapsed(e, p) ==
    \/ sub[p].expert \in {e, NoExpert}
    \/ ~entitled(p, sub[p])
    \/ StoreLapsed(p)

\* The account's other live plans, but for the one this purchase replaces
Others(e, p) == {q \in RowsOf(e) \ {p} :
                    /\ entitled(q, sub[q])
                    /\ ~(StoreOf[q] = StoreOf[p] /\ q = store[p].linked)}

ActivateReads(j) ==
    LET e == job[j].e
        p == job[j].p
    IN  /\ job[j].op = "verify"
        /\ Unlocked(e, p)
        /\ IF /\ OwnerHasLapsed(e, p)
              /\ \A q \in Others(e, p) : evaluatePlanChange(sub[q].plan, job[j].plan)
           THEN Goes(j, [job[j] EXCEPT !.op = "activate", !.retire = ActiveOf(e) \ {p}])
           ELSE Completes(j)                            \* 409
        /\ UNCHANGED <<sub, profile, storeVars, sweep>>

\* The owner's row is entitled and the store does not answer: 503, try again
ActivateUndecided(j) ==
    /\ job[j].op = "verify"
    /\ sub[job[j].p].expert \notin {job[j].e, NoExpert} /\ entitled(job[j].p, sub[job[j].p])
    /\ Fault
    /\ Completes(j)
    /\ UNCHANGED <<sub, profile, store, checkout, hooks, sweep>>

\* Every retired row that is still the account's is cancelled, and the purchase is
\* its active plan
Activated(e, p, plan, until, retire) ==
    [q \in Purchases |->
        IF q = p THEN [expert |-> e, status |-> "active", plan |-> plan, until |-> until,
                       grace |-> sub[p].grace, cancelAtEnd |-> FALSE]
        ELSE IF q \in retire /\ sub[q].expert = e
             THEN [sub[q] EXCEPT !.status = "canceled", !.cancelAtEnd = FALSE]
        ELSE sub[q]]

ActivateCommits(j) ==
    /\ job[j].op = "activate"
    /\ sub' = Activated(job[j].e, job[j].p, job[j].plan, job[j].until, job[j].retire)
    /\ profile' = Relisted(job[j].e)
    /\ Goes(j, [IdleJob EXCEPT !.op = IF job[j].cross = {} THEN "idle" ELSE "supersede",
                               !.cross = job[j].cross])
    /\ UNCHANGED <<storeVars, sweep>>

\* Apple cannot be cancelled from here; another store may refuse
cancelSupersededSubscriptions(j) ==
    \E q \in job[j].cross :
       /\ job[j].op = "supersede"
       /\ \/ StoreOf[q] # "apple" /\ CancelAt(q) /\ UNCHANGED faults
          \/ StoreOf[q] # "apple" /\ Fault /\ UNCHANGED <<store, hooks>>
          \/ StoreOf[q] = "apple" /\ UNCHANGED <<store, hooks, faults>>
       /\ IF job[j].cross = {q} THEN Completes(j)
          ELSE Goes(j, [job[j] EXCEPT !.cross = @ \ {q}])
       /\ UNCHANGED <<sub, profile, checkout, sweep>>

-----------------------------------------------------------------------------
(* Stripe Checkout                                                           *)

\* Asking again for the same plan returns the session that is open.
createStripeCheckoutSession(e, p, tier) ==
    LET s == [expert |-> e, plan |-> tier]
    IN  /\ "checkout" \in Traffic
        /\ StoreOf[p] = "stripe" /\ store[p].st = "none" /\ checkout[p] = NoSession
        /\ \A q \in RowsOf(e) : sub[q].status \notin ENTITLED_STATUSES
        /\ \A q \in Purchases : checkout[q] # s
        /\ checkout' = [checkout EXCEPT ![p] = s]
        /\ UNCHANGED <<sub, profile, store, hooks, faults, job, sweep>>

Takes(h) == \/ hooks' = hooks \ {h} /\ UNCHANGED faults
            \/ hooks' = hooks /\ Fault            \* delivered once more later

\* checkout.session.completed: other Stripe subscriptions of the expert are
\* cancelled at Stripe, then one transaction, without a lock, retires and upserts.
CheckoutCompleted(j, h) ==
    LET others == {q \in ActiveOf(h.expert) \ {h.p} : StoreOf[q] = "stripe"}
    IN  /\ h \in hooks /\ h.type = "checkout"
        /\ Takes(h)
        /\ Begins(j, [IdleJob EXCEPT !.op = "checkout", !.e = h.expert, !.p = h.p, !.plan = h.plan,
                                     !.until = store[h.p].paidTo, !.cross = others])
        /\ UNCHANGED <<sub, profile, store, checkout, sweep>>

CheckoutCancelsOther(j) ==
    \E q \in job[j].cross :
       /\ job[j].op = "checkout"
       /\ CancelAt(q)
       /\ Goes(j, [job[j] EXCEPT !.cross = @ \ {q}])
       /\ UNCHANGED <<sub, profile, checkout, faults, sweep>>

CheckoutRetires(j) ==
    /\ job[j].op = "checkout" /\ job[j].cross = {}
    /\ Goes(j, [job[j] EXCEPT !.op = "retire", !.retire = ActiveOf(job[j].e)])
    /\ UNCHANGED <<sub, profile, storeVars, sweep>>

CheckoutCommits(j) ==
    /\ job[j].op = "retire"
    /\ sub' = Activated(job[j].e, job[j].p, job[j].plan, job[j].until, job[j].retire)
    /\ profile' = Relisted(job[j].e)
    /\ Completes(j)
    /\ UNCHANGED <<storeVars, sweep>>

-----------------------------------------------------------------------------
(* Store notifications: the row is read, Google's purchase is fetched, the   *)
(* row is written by id, the listing follows.                                *)

Renewal(h) == \/ h.type = "renewed"
              \/ StoreOf[h.p] = "google" /\ h.type \in {"subscribed", "renewOn"}

NotificationReads(j, h) ==
    /\ "notify" \in Traffic
    /\ h \in hooks /\ h.type # "checkout"
    /\ Takes(h)
    /\ IF sub[h.p].expert = NoExpert
       THEN UNCHANGED job                               \* unknown purchase
       ELSE Begins(j, [IdleJob EXCEPT !.op = "notified", !.e = sub[h.p].expert, !.p = h.p,
                !.h = h, !.plan = sub[h.p].plan, !.live = entitled(h.p, sub[h.p]),
                !.until = IF StoreOf[h.p] # "google" THEN h.until
                          ELSE IF Renewal(h) THEN PeriodEnd(h.p) ELSE store[h.p].paidTo])
    /\ UNCHANGED <<sub, profile, store, checkout, sweep>>

\* Google cannot be asked: a month is added to the period that was read
NotificationReadsBlind(j, h) ==
    /\ "notify" \in Traffic
    /\ h \in hooks /\ StoreOf[h.p] = "google" /\ Renewal(h) /\ sub[h.p].expert # NoExpert
    /\ Fault
    /\ hooks' = hooks \ {h}
    /\ Begins(j, [IdleJob EXCEPT !.op = "notified", !.e = sub[h.p].expert, !.p = h.p, !.h = h,
                                 !.plan = sub[h.p].plan, !.until = sub[h.p].until + 1])
    /\ UNCHANGED <<sub, profile, store, checkout, sweep>>

\* The plan follows the product the store names, if it is not the one read
Patched(h, seen, plan) == IF StoreOf[h.p] # "google" /\ h.plan # seen THEN h.plan ELSE plan

Paid(r, plan, until) == [r EXCEPT !.status = "active", !.plan = plan, !.until = until,
                                  !.grace = 0, !.cancelAtEnd = FALSE]

\* A purchase of a lapsed row is left for a verification to attribute
PaidFor(h, live) == Renewal(h) \/ h.type = "upgraded" \/ (h.type = "subscribed" /\ live)

Notified(n, r) ==
    LET h    == n.h
        plan == Patched(h, n.plan, r.plan)
    IN  IF PaidFor(h, n.live) THEN Paid(r, plan, n.until)
        ELSE CASE h.type = "subscribed" -> r
               [] h.type = "grace"   -> [r EXCEPT !.status = "grace_period", !.grace = n.until]
               [] h.type = "hold"    -> [r EXCEPT !.status = "on_hold",
                                            !.grace = IF StoreOf[h.p] = "apple" THEN 0 ELSE @]
               [] h.type = "expired" -> [r EXCEPT !.status = "expired"]
               [] h.type \in {"revoked", "deleted"} ->
                                        [r EXCEPT !.status = "canceled", !.cancelAtEnd = FALSE]
               [] h.type = "renewOff" -> [r EXCEPT !.cancelAtEnd = TRUE, !.until = n.until]
               [] h.type = "renewOn" -> [r EXCEPT !.cancelAtEnd = FALSE]
               [] h.type = "updated" -> [r EXCEPT !.status = h.status, !.plan = plan,
                                            !.until = n.until, !.cancelAtEnd = ~h.renews]

\* What the handler does about the listing once the row is written
Afterwards(h, live) ==
    IF (PaidFor(h, live) /\ h.type # "upgraded") \/ (h.type = "updated" /\ h.status = "active")
    THEN "list"
    ELSE IF h.type \in {"hold", "expired", "revoked", "deleted", "updated"} THEN "revoke"
    ELSE "idle"

NotificationUpdates(j) ==
    LET p    == job[j].p
        next == Afterwards(job[j].h, job[j].live)
    IN  /\ job[j].op = "notified"
        /\ sub' = [sub EXCEPT ![p] = Notified(job[j], @)]
        /\ IF next = "idle" THEN Completes(j)
           ELSE Goes(j, [IdleJob EXCEPT !.op = next, !.e = job[j].e, !.p = p])
        /\ UNCHANGED <<profile, storeVars, sweep>>

NotificationLists(j) ==
    /\ job[j].op = "list"
    /\ profile' = Relisted(job[j].e)
    /\ Completes(j)
    /\ UNCHANGED <<sub, storeVars, sweep>>

\* maybeRevokeSearch: is another row left, and only then the write
RevokeChecks(j) ==
    /\ job[j].op = "revoke"
    /\ IF \E q \in RowsOf(job[j].e) : sub[q].status \in Surviving(job[j].p) THEN Completes(j)
       ELSE Goes(j, [IdleJob EXCEPT !.op = "unlist", !.e = job[j].e])
    /\ UNCHANGED <<sub, profile, storeVars, sweep>>

RevokeWrites(j) ==
    /\ job[j].op = "unlist"
    /\ profile' = Unlisted(job[j].e)
    /\ Completes(j)
    /\ UNCHANGED <<sub, storeVars, sweep>>

-----------------------------------------------------------------------------
(* The expert looks at or cancels the plan                                   *)

\* The row is read as active and over, and expired by id
MySubscriptionReads(j, p) ==
    /\ "look" \in Traffic
    /\ sub[p].status = "active" /\ sub[p].until < store[p].period
    /\ Begins(j, [IdleJob EXCEPT !.op = "expire", !.p = p])
    /\ UNCHANGED <<sub, profile, storeVars, sweep>>

MySubscriptionExpires(j) ==
    /\ job[j].op = "expire"
    /\ sub' = [sub EXCEPT ![job[j].p].status = "expired"]
    /\ Completes(j)
    /\ UNCHANGED <<profile, storeVars, sweep>>

\* reconcileSubscription: renewal and expiry are fetched, then written by id
ReconcileReads(j, p) ==
    /\ "look" \in Traffic
    /\ StoreOf[p] # "stripe" /\ sub[p].status \in ENTITLED_STATUSES
    /\ Begins(j, [IdleJob EXCEPT !.op = "reconcile", !.p = p, !.until = store[p].paidTo,
                                 !.stops = ~store[p].renews])
    /\ UNCHANGED <<sub, profile, storeVars, sweep>>

ReconcileWrites(j) ==
    /\ job[j].op = "reconcile"
    /\ sub' = [sub EXCEPT ![job[j].p] = [@ EXCEPT !.until = job[j].until,
                                                  !.cancelAtEnd = job[j].stops]]
    /\ Completes(j)
    /\ UNCHANGED <<profile, storeVars, sweep>>

\* A Stripe plan is marked first, then Stripe is told; a failure is reported
cancelSubscription(j, p) ==
    /\ "cancel" \in Traffic
    /\ StoreOf[p] = "stripe" /\ sub[p].status = "active" /\ ~sub[p].cancelAtEnd
    /\ Begins(j, [IdleJob EXCEPT !.op = "cancel", !.p = p])
    /\ sub' = [sub EXCEPT ![p].cancelAtEnd = TRUE]
    /\ UNCHANGED <<profile, storeVars, sweep>>

CancelTellsStripe(j) ==
    LET p == job[j].p
        s == [store[p] EXCEPT !.renews = FALSE]
    IN  /\ job[j].op = "cancel"
        /\ IF store[p].st = "live" THEN Becomes("renewOff", p, s)
           ELSE UNCHANGED storeVars
        /\ Completes(j)
        /\ UNCHANGED <<sub, profile, sweep>>

CancelUntold(j) ==
    /\ job[j].op = "cancel"
    /\ Fault
    /\ Completes(j)
    /\ UNCHANGED <<sub, profile, store, checkout, hooks, sweep>>

-----------------------------------------------------------------------------
(* expireSubscriptions, every night                                          *)

RunsOut(p) == sub[p].status = "active" /\ sub[p].cancelAtEnd /\ sub[p].until < store[p].period

Expired == [p \in Purchases |-> IF RunsOut(p) THEN [sub[p] EXCEPT !.status = "canceled"]
                                ELSE sub[p]]

\* Mutant: only the experts whose plan ran out tonight are looked at
OrphanedTonight(rows) ==
    {e \in Experts : /\ \E p \in RowsOf(e) : RunsOut(p)
                     /\ \A p \in RowsOf(e) : rows[p].status # "active"}

\* Listed experts without an active row: those affected and the safety sweep
Orphaned(rows) ==
    {e \in Experts : profile[e].eligible /\ \A p \in RowsOf(e) : rows[p].status # "active"}

expireSubscriptions ==
    /\ "night" \in Traffic
    /\ sweep = NoSweep
    /\ sub' = Expired
    /\ sweep' = <<Orphaned(Expired)>>
    /\ UNCHANGED <<profile, storeVars, job>>

SweepWrites ==
    /\ sweep # NoSweep
    /\ profile' = [e \in Experts |-> IF e \in sweep[1]
                      THEN [profile[e] EXCEPT !.eligible = FALSE] ELSE profile[e]]
    /\ sweep' = NoSweep
    /\ UNCHANGED <<sub, storeVars, job>>

BillingRestarts ==
    /\ Fault
    /\ job' = [j \in Jobs |-> IF job[j].op = "approve" THEN job[j] ELSE IdleJob]
    /\ sweep' = NoSweep
    /\ UNCHANGED <<sub, profile, store, checkout, hooks>>
=============================================================================
