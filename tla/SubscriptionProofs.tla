-------------------------- MODULE SubscriptionProofs --------------------------
(***************************************************************************)
(* What holds of the expert plans for every number of experts, purchases,  *)
(* plans, requests, periods and notifications.                             *)
(***************************************************************************)
EXTENDS SubscriptionSystem, FiniteSetTheorems, TLAPS

-----------------------------------------------------------------------------
(* What is true of the rows, the stores and the requests under any traffic. *)

\* Who a Checkout page is for is known, and so is it of the notification about it.
SessionsKnow ==
    /\ \A p \in Purchases : checkout[p] # NoSession => checkout[p].expert \in Experts
    /\ \A h \in hooks : h.type = "checkout" => h.expert \in Experts

\* What a request carries to its next step.
Knows(r) ==
    /\ r.op \in {"verify", "activate", "notified", "list", "revoke", "unlist", "checkout", "retire",
                 "approve"} => r.e \in Experts
    /\ r.op \in {"verify", "activate", "notified", "list", "revoke", "checkout", "retire", "expire",
                 "reconcile", "cancel"} => r.p \in Purchases
    /\ r.op = "notified" => r.h \in Hook /\ r.h.type # "checkout"

StoresSound == StoresTypeOK /\ SessionsKnow

RequestsSound ==
    /\ job \in [Jobs -> Job] /\ sweep \in Sweep /\ heals \subseteq Experts
    /\ \A j \in Jobs : Knows(job[j])

PlansInv == TableTypeOK /\ StoresSound /\ RequestsSound

(* What nothing is done with yet has the fields it should have. *)
LEMMA BlanksTyped ==
    /\ NoSub \in Sub /\ NoSub.plan \in Tiers
    /\ Unsold \in Store /\ NoSession \in Session
    /\ IdleJob \in Job /\ IdleJob.op = "idle"
<1>1. NoSub.plan \in Tiers
  BY TierAssumption DEF NoSub
<1>2. NoSub \in Sub
  BY TierAssumption DEF NoSub, Sub, SubscriptionStatus
<1>3. Unsold \in Store
  BY <1>1 DEF Unsold, Store
<1>4. NoSession \in Session
  BY <1>1 DEF NoSession, Session
<1>5. IdleJob \in Job /\ IdleJob.op = "idle"
  BY <1>1 DEF IdleJob, Job
<1> QED
  BY <1>1, <1>2, <1>3, <1>4, <1>5

(* Nothing is bought and no request made. *)
LEMMA PlansStart == Init => PlansInv
<1> SUFFICES ASSUME Init PROVE PlansInv
  OBVIOUS
<1>1. TableTypeOK
  BY BlanksTyped DEF Init, SubscriptionsInit, TableInit, TableTypeOK, Profile
<1>2. StoresSound
  BY BlanksTyped
  DEF Init, SubscriptionsInit, StoresInit, StoresIdle, StoresSound, StoresTypeOK, SessionsKnow
<1>3. RequestsSound
  BY BlanksTyped
  DEF Init, SubscriptionsInit, RequestsIdle, RequestsSound, Knows, Sweep
<1> QED
  BY <1>1, <1>2, <1>3 DEF PlansInv

-----------------------------------------------------------------------------
(* Requests.                                                                *)

(* A request that goes to a step for which it knows enough. *)
LEMMA RequestGoes ==
    ASSUME RequestsSound, NEW j \in Jobs, NEW r \in Job, Knows(r), job' = [job EXCEPT ![j] = r],
           sweep' \in Sweep, heals' \subseteq Experts
    PROVE  RequestsSound'
<1>1. job' \in [Jobs -> Job]
  BY DEF RequestsSound
<1>2. ASSUME NEW i \in Jobs PROVE Knows(job'[i])
  <2>1. CASE i = j
    <3>1. job'[i] = r
      BY <2>1 DEF RequestsSound
    <3> QED
      BY <3>1
  <2>2. CASE i # j
    <3>1. job'[i] = job[i] /\ Knows(job[i])
      BY <2>2 DEF RequestsSound
    <3> QED
      BY <3>1
  <2> QED
    BY <2>1, <2>2
<1> QED
  BY <1>1, <1>2 DEF RequestsSound, Knows

(* A request that ends. *)
LEMMA RequestEnds ==
    ASSUME RequestsSound, NEW j \in Jobs, Completes(j), UNCHANGED <<sweep, heals>>
    PROVE  RequestsSound'
<1>1. Knows(IdleJob)
  BY BlanksTyped DEF Knows
<1> QED
  BY <1>1, BlanksTyped, RequestGoes DEF Completes, RequestsSound

(* Requests that do not change. *)
LEMMA RequestsStay ==
    ASSUME RequestsSound, UNCHANGED job, sweep' \in Sweep, heals' \subseteq Experts
    PROVE  RequestsSound'
BY DEF RequestsSound, Knows

(* What a request carries. *)
LEMMA Carried ==
    ASSUME RequestsSound, NEW j \in Jobs
    PROVE  /\ job[j] \in Job /\ Knows(job[j])
           /\ job[j].e \in Experts \cup {NoExpert} /\ job[j].p \in Purchases \cup {NoPurchase}
           /\ job[j].plan \in Tiers /\ job[j].until \in Nat /\ job[j].live \in BOOLEAN
           /\ job[j].retire \subseteq Purchases /\ job[j].cross \subseteq Purchases
           /\ sweep \in Sweep /\ heals \subseteq Experts
BY DEF RequestsSound, Job

-----------------------------------------------------------------------------
(* The stores.                                                              *)

\* What a store calls a change of a purchase.
Changes == {"subscribed", "renewed", "upgraded", "grace", "hold", "expired", "revoked",
            "renewOff", "renewOn", "updated", "deleted"}

(* A notification of a change has the fields of one, and is of no Checkout page. *)
LEMMA NoteTyped ==
    ASSUME NEW p \in Purchases, NEW s \in Store, NEW type \in Changes
    PROVE  /\ Note(type, p, s) \in Hook /\ Note(type, p, s).type # "checkout"
           /\ Told(type, p) \in Changes
<1>1. StripeStatus(s) \in {"active", "canceled", "expired"}
  BY DEF StripeStatus
<1>2. s.plan \in Tiers /\ s.paidTo \in Nat /\ s.renews \in BOOLEAN
  BY DEF Store
<1>3. Note(type, p, s) \in Hook /\ Note(type, p, s).type # "checkout"
  BY <1>1, <1>2 DEF Note, Hook, Changes
<1>4. Told(type, p) \in Changes
  BY DEF Told, Changes
<1> QED
  BY <1>3, <1>4

(* Notifications of changes are sent, or none are. *)
LEMMA HooksSent ==
    ASSUME StoresSound, store' \in [Purchases -> Store], UNCHANGED checkout, faults' \in Nat,
           NEW notes \in SUBSET Hook, \A h \in notes : h.type # "checkout",
           hooks' = hooks \/ hooks' = Sent(notes)
    PROVE  StoresSound'
<1>1. hooks' \subseteq hooks \cup notes
  BY DEF Sent
<1>2. StoresTypeOK'
  BY <1>1 DEF StoresSound, StoresTypeOK
<1>3. SessionsKnow'
  BY <1>1 DEF StoresSound, SessionsKnow
<1> QED
  BY <1>2, <1>3 DEF StoresSound

(* Notifications are taken, and may come again. *)
LEMMA HooksTaken ==
    ASSUME StoresSound, UNCHANGED <<store, checkout>>, hooks' \subseteq hooks, faults' \in Nat
    PROVE  StoresSound'
BY DEF StoresSound, StoresTypeOK, SessionsKnow

(* A purchase changes. *)
LEMMA BecomesKept ==
    ASSUME StoresSound, NEW p \in Purchases, NEW s \in Store, NEW type \in Changes,
           Becomes(type, p, s)
    PROVE  StoresSound'
<1>1. PICK n : n = Note(Told(type, p), p, s)
  OBVIOUS
<1>2. Told(type, p) \in Changes
  BY NoteTyped
<1>3. n \in Hook /\ n.type # "checkout"
  BY <1>1, <1>2, NoteTyped
<1>4. hooks' = Sent({n}) /\ store' \in [Purchases -> Store] /\ UNCHANGED checkout /\ faults' \in Nat
  BY <1>1 DEF Becomes, StoresSound, StoresTypeOK
<1> QED
  BY <1>3, <1>4, HooksSent

(* An in-app purchase. *)
LEMMA BuysKept ==
    ASSUME StoresSound, NEW p \in Purchases, NEW tier \in Tiers,
           NEW q \in Purchases \cup {NoPurchase}, Buys(p, tier, q)
    PROVE  StoresSound'
<1>1. store \in [Purchases -> Store] /\ store[p].period \in Nat
  BY DEF StoresSound, StoresTypeOK, Store
<1>2. PICK s : s = [st |-> "live", plan |-> tier, period |-> store[p].period + 1,
                    paidTo |-> store[p].period + 1, renews |-> TRUE, linked |-> q]
  OBVIOUS
<1>3. s \in Store
  BY <1>1, <1>2 DEF Store
<1>4. PICK m : m = Note("subscribed", p, s)
  OBVIOUS
<1>5. m \in Hook /\ m.type # "checkout"
  BY <1>3, <1>4, NoteTyped DEF Changes
<1>6. CASE q = NoPurchase
  <2>1. store' = [store EXCEPT ![p] = s] /\ hooks' = Sent({m} \cup {}) /\ UNCHANGED <<checkout, faults>>
    BY <1>2, <1>4, <1>6 DEF Buys
  <2>2. store' \in [Purchases -> Store] /\ faults' \in Nat
    BY <1>1, <1>3, <2>1 DEF StoresSound, StoresTypeOK
  <2> QED
    BY <1>5, <2>1, <2>2, HooksSent
<1>7. CASE q # NoPurchase
  <2>1. PICK replaced : replaced = [store EXCEPT ![q].st = "ended"]
    OBVIOUS
  <2>2. q \in Purchases /\ replaced \in [Purchases -> Store]
    BY <1>1, <1>7, <2>1 DEF Store
  <2>3. PICK n : n = Note("expired", q, replaced[q])
    OBVIOUS
  <2>4. n \in Hook /\ n.type # "checkout"
    BY <2>2, <2>3, NoteTyped DEF Changes
  <2>5. /\ store' = [replaced EXCEPT ![p] = s] /\ hooks' = Sent({m} \cup {n})
        /\ UNCHANGED <<checkout, faults>>
    BY <1>2, <1>4, <1>7, <2>1, <2>3 DEF Buys
  <2>6. store' \in [Purchases -> Store] /\ faults' \in Nat
    BY <1>3, <2>2, <2>5 DEF StoresSound, StoresTypeOK
  <2> QED
    BY <1>5, <2>4, <2>5, <2>6, HooksSent
<1> QED
  BY <1>6, <1>7

(* A Checkout page is completed. *)
LEMMA PaysKept ==
    ASSUME StoresSound, NEW p \in Purchases, Pays(p)
    PROVE  StoresSound'
<1>1. /\ store \in [Purchases -> Store] /\ store[p] \in Store
      /\ checkout \in [Purchases -> Session] /\ checkout[p].plan \in Tiers
      /\ checkout[p].expert \in Experts /\ faults \in Nat /\ hooks \subseteq Hook
      /\ store[p].period \in Nat
  BY DEF StoresSound, StoresTypeOK, SessionsKnow, Session, Pays, Store
<1>2. PICK s : s = [store[p] EXCEPT !.st = "live", !.plan = checkout[p].plan, !.renews = TRUE,
                                    !.period = store[p].period + 1, !.paidTo = store[p].period + 1]
  OBVIOUS
<1>3. s \in Store
  <2>1. PICK n \in Nat, plan \in Tiers : n = store[p].period + 1 /\ plan = checkout[p].plan
    BY <1>1
  <2>2. PICK a : a = [store[p] EXCEPT !.st = "live", !.plan = plan, !.renews = TRUE]
    OBVIOUS
  <2>3. a \in Store
    BY <1>1, <2>2 DEF Store
  <2>4. s = [a EXCEPT !.period = n, !.paidTo = n]
    BY <1>2, <2>1, <2>2
  <2> QED
    BY <2>3, <2>4 DEF Store
<1>4. PICK h : h = [Note("checkout", p, s) EXCEPT !.expert = checkout[p].expert]
  OBVIOUS
<1>5. h \in Hook /\ h.expert \in Experts
  <2>1. StripeStatus(s) \in {"active", "canceled", "expired"}
    BY DEF StripeStatus
  <2>2. s.plan \in Tiers /\ s.paidTo \in Nat /\ s.renews \in BOOLEAN
    BY <1>3 DEF Store
  <2>3. Note("checkout", p, s) \in Hook
    BY <2>1, <2>2 DEF Note, Hook
  <2> QED
    BY <1>1, <1>4, <2>3 DEF Hook
<1>6. /\ store' = [store EXCEPT ![p] = s] /\ hooks' = hooks \cup {h}
      /\ checkout' = [checkout EXCEPT ![p] = NoSession] /\ faults' = faults
  BY <1>1, <1>2, <1>4 DEF Pays
<1>7. StoresTypeOK'
  BY <1>1, <1>3, <1>5, <1>6, BlanksTyped DEF StoresTypeOK
<1>8. SessionsKnow'
  BY <1>1, <1>5, <1>6, BlanksTyped DEF StoresSound, SessionsKnow
<1> QED
  BY <1>7, <1>8 DEF StoresSound

(* Everything the stores do. *)
LEMMA StoresKept ==
    ASSUME StoresSound, StoreStep
    PROVE  StoresSound'
<1> SUFFICES ASSUME NEW p \in Purchases,
                    \/ \E tier \in Tiers, q \in Purchases \cup {NoPurchase} : Buys(p, tier, q)
                    \/ \E tier \in Tiers : SwitchesPlan(p, tier)
                    \/ Pays(p) \/ PeriodEnds(p) \/ Recovers(p) \/ GivesUp(p) \/ Revokes(p) \/ TurnsRenewal(p)
             PROVE  StoresSound'
  BY DEF StoreStep
<1>1. store[p] \in Store /\ store[p].period \in Nat /\ store[p].renews \in BOOLEAN
  BY DEF StoresSound, StoresTypeOK, Store
<1>2. \A type \in Changes, s \in Store : Becomes(type, p, s) => StoresSound'
  BY BecomesKept
<1>3. ASSUME NEW tier \in Tiers, SwitchesPlan(p, tier) PROVE StoresSound'
  <2>1. [store[p] EXCEPT !.plan = tier] \in Store
    BY <1>1 DEF Store
  <2> QED
    BY <1>2, <1>3, <2>1 DEF SwitchesPlan, Changes
<1>4. CASE PeriodEnds(p)
  <2>1. PICK next : next = [store[p] EXCEPT !.period = store[p].period + 1]
    OBVIOUS
  <2>2. next \in Store /\ next.period \in Nat
    BY <1>1, <2>1 DEF Store
  <2>3. [next EXCEPT !.paidTo = next.period] \in Store /\ [next EXCEPT !.st = "ended"] \in Store
    BY <2>2 DEF Store
  <2>4. [next EXCEPT !.st = "grace",
                     !.paidTo = IF StoreOf[p] = "google" THEN next.period ELSE next.paidTo] \in Store
    BY <2>2 DEF Store
  <2>5. \/ Becomes("renewed", p, [next EXCEPT !.paidTo = next.period])
        \/ Becomes("grace", p, [next EXCEPT !.st = "grace",
                     !.paidTo = IF StoreOf[p] = "google" THEN next.period ELSE next.paidTo])
        \/ Becomes("expired", p, [next EXCEPT !.st = "ended"])
    BY <1>4, <2>1 DEF PeriodEnds
  <2> QED
    BY <1>2, <2>3, <2>4, <2>5 DEF Changes
<1>5. CASE Recovers(p)
  <2>1. [store[p] EXCEPT !.st = "live", !.paidTo = store[p].period] \in Store
    BY <1>1 DEF Store
  <2> QED
    BY <1>2, <1>5, <2>1 DEF Recovers, Changes
<1>6. CASE GivesUp(p)
  <2>1. [store[p] EXCEPT !.st = "hold"] \in Store /\ [store[p] EXCEPT !.st = "ended"] \in Store
    BY <1>1 DEF Store
  <2> QED
    BY <1>2, <1>6, <2>1 DEF GivesUp, Changes
<1>7. CASE Revokes(p)
  <2>1. [store[p] EXCEPT !.st = "revoked", !.renews = FALSE] \in Store
    BY <1>1 DEF Store
  <2> QED
    BY <1>2, <1>7, <2>1 DEF Revokes, Changes
<1>8. CASE TurnsRenewal(p)
  <2>1. PICK s : s = [store[p] EXCEPT !.renews = ~store[p].renews]
    OBVIOUS
  <2>2. s \in Store
    BY <1>1, <2>1 DEF Store
  <2>3. Becomes(IF store[p].renews THEN "renewOff" ELSE "renewOn", p, s)
    BY <1>8, <2>1 DEF TurnsRenewal
  <2> QED
    BY <1>2, <2>2, <2>3 DEF Changes
<1> QED
  BY <1>3, <1>4, <1>5, <1>6, <1>7, <1>8, BuysKept, PaysKept

(* A purchase is cancelled at its store. *)
LEMMA CancelAtKept ==
    ASSUME StoresSound, NEW p \in Purchases, CancelAt(p), UNCHANGED checkout, faults' \in Nat
    PROVE  StoresSound'
<1>1. store \in [Purchases -> Store] /\ store[p] \in Store
  BY DEF StoresSound, StoresTypeOK
<1>2. CASE store[p].st \notin {"live", "grace", "hold"}
  <2>1. UNCHANGED <<store, hooks>>
    BY <1>2 DEF CancelAt
  <2> QED
    BY <2>1, HooksTaken
<1>3. CASE store[p].st \in {"live", "grace", "hold"}
  <2>1. PICK s \in Store, type \in Changes :
           store' = [store EXCEPT ![p] = s] /\ hooks' = Sent({Note(type, p, s)})
    <3>1. PICK s : s = IF StoreOf[p] = "google" THEN [store[p] EXCEPT !.renews = FALSE]
                       ELSE [store[p] EXCEPT !.st = "ended", !.renews = FALSE]
      OBVIOUS
    <3>2. PICK type : type = IF StoreOf[p] = "google" THEN "renewOff" ELSE "deleted"
      OBVIOUS
    <3>3. store' = [store EXCEPT ![p] = s] /\ hooks' = Sent({Note(type, p, s)})
      BY <1>3, <3>1, <3>2, Zenon DEF CancelAt
    <3>4. s \in Store
      BY <1>1, <3>1 DEF Store
    <3>5. type \in Changes
      BY <3>2 DEF Changes
    <3> QED
      BY <3>3, <3>4, <3>5
  <2>3. PICK n : n = Note(type, p, s)
    OBVIOUS
  <2>4. n \in Hook /\ n.type # "checkout"
    BY <2>3, NoteTyped
  <2>5. store' \in [Purchases -> Store] /\ hooks' = Sent({n})
    BY <1>1, <2>1, <2>3
  <2> QED
    BY <2>4, <2>5, HooksSent
<1> QED
  BY <1>2, <1>3

(* A failure is one more. *)
LEMMA FaultCounted == StoresSound /\ Fault => faults' \in Nat
BY DEF StoresSound, StoresTypeOK, Fault

(* Nothing happens at the stores. *)
LEMMA StoresStay == StoresSound /\ UNCHANGED storeVars => StoresSound'
BY DEF StoresSound, StoresTypeOK, SessionsKnow, storeVars

-----------------------------------------------------------------------------
(* The rows.                                                                *)

(* Whether a row is entitled is yes or no. *)
LEMMA EntitledOrNot ==
    ASSUME NEW p, NEW r PROVE entitled(p, r) \in BOOLEAN
BY DEF entitled, hasActiveEntitlement

(* An expert is put into search, or taken out of it. *)
LEMMA ListingTyped ==
    ASSUME TableTypeOK, NEW e \in Experts
    PROVE  Relisted(e) \in [Experts -> Profile] /\ Unlisted(e) \in [Experts -> Profile]
<1>1. profile \in [Experts -> Profile] /\ profile[e] \in Profile
  BY DEF TableTypeOK
<1>2. PICK b \in BOOLEAN : b = (profile[e].eligible \/ profile[e].approved)
  OBVIOUS
<1>3. [profile[e] EXCEPT !.eligible = b] \in Profile /\ [profile[e] EXCEPT !.eligible = FALSE] \in Profile
  BY <1>1, <1>2 DEF Profile
<1>4. Relisted(e) = [profile EXCEPT ![e] = [profile[e] EXCEPT !.eligible = b]]
  BY <1>2 DEF Relisted
<1>5. Unlisted(e) = [profile EXCEPT ![e] = [profile[e] EXCEPT !.eligible = FALSE]]
  BY DEF Unlisted
<1> QED
  BY <1>1, <1>3, <1>4, <1>5

(* One row is written. *)
LEMMA RowWritten ==
    ASSUME TableTypeOK, NEW p \in Purchases, NEW r \in Sub, sub' = [sub EXCEPT ![p] = r],
           UNCHANGED profile
    PROVE  TableTypeOK'
BY DEF TableTypeOK

(* A purchase is activated and the other rows of the account retired. *)
LEMMA ActivatedTyped ==
    ASSUME TableTypeOK, NEW e \in Experts, NEW p \in Purchases, NEW plan \in Tiers,
           NEW until \in Nat, NEW retire
    PROVE  Activated(e, p, plan, until, retire) \in [Purchases -> Sub]
<1>1. sub \in [Purchases -> Sub]
  BY DEF TableTypeOK
<1>2. [expert |-> e, status |-> "active", plan |-> plan, until |-> until,
       grace |-> sub[p].grace, cancelAtEnd |-> FALSE] \in Sub
  BY <1>1 DEF Sub, SubscriptionStatus, ENTITLED_STATUSES
<1>3. \A q \in Purchases : [sub[q] EXCEPT !.status = "canceled", !.cancelAtEnd = FALSE] \in Sub
  BY <1>1 DEF Sub, SubscriptionStatus
<1> QED
  BY <1>1, <1>2, <1>3 DEF Activated

(* A notification leaves a row of the table, whichever change it tells of. *)
LEMMA NotifiedTyped ==
    ASSUME NEW r \in Sub, NEW n \in Job, n.h \in Hook, n.h.type # "checkout"
    PROVE  Notified(n, r) \in Sub
<1>1. PICK h \in Hook : h = n.h
  OBVIOUS
<1>2. h.type \in Changes /\ h.plan \in Tiers /\ h.status \in SubscriptionStatus /\ h.renews \in BOOLEAN
  BY <1>1 DEF Hook, Changes, SubscriptionStatus, ENTITLED_STATUSES
<1>3. n.until \in Nat /\ r.plan \in Tiers /\ r.grace \in Nat
  BY DEF Job, Sub
<1>4. PICK plan \in Tiers : plan = Patched(h, n.plan, r.plan)
  BY <1>2, <1>3 DEF Patched
<1>5. PICK b \in BOOLEAN : b = ~h.renews
  OBVIOUS
<1>6. PICK g \in Nat : g = IF StoreOf[h.p] = "apple" THEN 0 ELSE r.grace
  BY <1>3
<1>7. Paid(r, plan, n.until) \in Sub
  BY <1>3 DEF Paid, Sub, SubscriptionStatus, ENTITLED_STATUSES
<1>8. /\ [r EXCEPT !.status = "grace_period", !.grace = n.until] \in Sub
      /\ [r EXCEPT !.status = "on_hold", !.grace = g] \in Sub
      /\ [r EXCEPT !.status = "expired"] \in Sub
      /\ [r EXCEPT !.status = "canceled", !.cancelAtEnd = FALSE] \in Sub
      /\ [r EXCEPT !.cancelAtEnd = TRUE, !.until = n.until] \in Sub
      /\ [r EXCEPT !.cancelAtEnd = FALSE] \in Sub
  BY <1>3 DEF Sub, SubscriptionStatus, ENTITLED_STATUSES
<1>9. [r EXCEPT !.status = h.status, !.plan = plan, !.until = n.until, !.cancelAtEnd = b] \in Sub
  BY <1>2, <1>3 DEF Sub
<1>10. CASE PaidFor(h, n.live)
  BY <1>1, <1>4, <1>7, <1>10 DEF Notified
<1>11. CASE ~PaidFor(h, n.live) /\ h.type = "subscribed"
  BY <1>1, <1>11 DEF Notified
<1>12. CASE ~PaidFor(h, n.live) /\ h.type = "grace"
  BY <1>1, <1>8, <1>12 DEF Notified
<1>13. CASE ~PaidFor(h, n.live) /\ h.type = "hold"
  BY <1>1, <1>6, <1>8, <1>13 DEF Notified
<1>14. CASE ~PaidFor(h, n.live) /\ h.type = "expired"
  BY <1>1, <1>8, <1>14 DEF Notified
<1>15. CASE ~PaidFor(h, n.live) /\ h.type \in {"revoked", "deleted"}
  BY <1>1, <1>8, <1>15 DEF Notified
<1>16. CASE ~PaidFor(h, n.live) /\ h.type = "renewOff"
  BY <1>1, <1>8, <1>16 DEF Notified
<1>17. CASE ~PaidFor(h, n.live) /\ h.type = "renewOn"
  BY <1>1, <1>8, <1>17 DEF Notified
<1>18. CASE ~PaidFor(h, n.live) /\ h.type = "updated"
  BY <1>1, <1>4, <1>5, <1>9, <1>18 DEF Notified
<1>19. PaidFor(h, n.live) \/ h.type \notin {"renewed", "upgraded"}
  BY DEF PaidFor, Renewal
<1> QED
  BY <1>2, <1>10, <1>11, <1>12, <1>13, <1>14, <1>15, <1>16, <1>17, <1>18, <1>19 DEF Changes

-----------------------------------------------------------------------------
(* In-app purchases.                                                        *)

(* The types of what is read most. *)
LEMMA PlansTyped ==
    ASSUME PlansInv
    PROVE  /\ sub \in [Purchases -> Sub] /\ profile \in [Experts -> Profile]
           /\ store \in [Purchases -> Store] /\ checkout \in [Purchases -> Session]
           /\ hooks \subseteq Hook /\ faults \in Nat
           /\ job \in [Jobs -> Job] /\ sweep \in Sweep /\ heals \subseteq Experts
           /\ \A j \in Jobs : Knows(job[j])
           /\ TableTypeOK /\ StoresSound /\ RequestsSound
BY DEF PlansInv, TableTypeOK, StoresSound, StoresTypeOK, RequestsSound

(* The end of a period is a number. *)
LEMMA PeriodEndTyped ==
    ASSUME StoresSound, NEW p \in Purchases PROVE PeriodEnd(p) \in Nat /\ store[p].plan \in Tiers
BY DEF StoresSound, StoresTypeOK, PeriodEnd, Store

(* A step that writes nothing but requests. *)
LEMMA OnlyRequests ==
    ASSUME PlansInv, UNCHANGED <<sub, profile, storeVars>>, RequestsSound'
    PROVE  PlansInv'
<1>1. StoresSound'
  BY StoresStay DEF PlansInv
<1> QED
  BY <1>1 DEF PlansInv, TableTypeOK

(* verifyPurchase *)
LEMMA verifyPurchaseKept ==
    ASSUME PlansInv, NEW j \in Jobs, NEW e \in Experts, NEW p \in Purchases,
           verifyPurchase(j, e, p), UNCHANGED heals
    PROVE  PlansInv'
<1>1. PICK cross \in SUBSET Purchases, until \in Nat, plan \in Tiers :
         cross = CrossStoreRows(e, p) /\ until = PeriodEnd(p) /\ plan = store[p].plan
  BY PlansTyped, PeriodEndTyped DEF CrossStoreRows, ActiveOf, RowsOf
<1>2. PICK r : r = [IdleJob EXCEPT !.op = "verify", !.e = e, !.p = p, !.plan = plan,
                                   !.until = until, !.cross = cross]
  OBVIOUS
<1>3. r \in Job /\ Knows(r)
  BY <1>2, BlanksTyped DEF Job, Knows
<1>4. job' = [job EXCEPT ![j] = r]
  BY <1>1, <1>2 DEF verifyPurchase, Begins
<1>5. RequestsSound'
  BY <1>3, <1>4, PlansTyped, RequestGoes DEF verifyPurchase
<1> QED
  BY <1>5, OnlyRequests DEF verifyPurchase

(* The locks are taken and the checks made. *)
LEMMA ActivateReadsKept ==
    ASSUME PlansInv, NEW j \in Jobs, ActivateReads(j), UNCHANGED heals
    PROVE  PlansInv'
<1>1. CASE Completes(j)
  BY <1>1, PlansTyped, RequestEnds, OnlyRequests DEF ActivateReads
<1>2. CASE Goes(j, [job[j] EXCEPT !.op = "activate", !.retire = ActiveOf(job[j].e) \ {job[j].p}])
  <2>1. PICK retire \in SUBSET Purchases : retire = ActiveOf(job[j].e) \ {job[j].p}
    BY DEF ActiveOf, RowsOf
  <2>2. PICK r : r = [job[j] EXCEPT !.op = "activate", !.retire = retire]
    OBVIOUS
  <2>3. job[j] \in Job /\ job[j].e \in Experts /\ job[j].p \in Purchases
    BY PlansTyped DEF Knows, ActivateReads
  <2>4. r \in Job /\ Knows(r)
    BY <2>2, <2>3 DEF Job, Knows
  <2>5. RequestsSound'
    BY <1>2, <2>1, <2>2, <2>4, PlansTyped, RequestGoes DEF ActivateReads, Goes
  <2> QED
    BY <2>5, OnlyRequests DEF ActivateReads
<1> QED
  BY <1>1, <1>2 DEF ActivateReads

(* The store does not answer. *)
LEMMA ActivateUndecidedKept ==
    ASSUME PlansInv, NEW j \in Jobs, ActivateUndecided(j), UNCHANGED heals
    PROVE  PlansInv'
<1>1. StoresSound'
  BY PlansTyped, FaultCounted, HooksTaken DEF ActivateUndecided
<1>2. RequestsSound'
  BY PlansTyped, RequestEnds DEF ActivateUndecided
<1> QED
  BY <1>1, <1>2 DEF PlansInv, TableTypeOK, ActivateUndecided

(* The transaction of an activation: of a verified purchase or a Checkout page. *)
LEMMA ActivationTyped ==
    ASSUME PlansInv, NEW j \in Jobs, job[j].op \in {"activate", "retire"},
           sub' = Activated(job[j].e, job[j].p, job[j].plan, job[j].until, job[j].retire),
           profile' = Relisted(job[j].e)
    PROVE  TableTypeOK'
<1>1. PICK e \in Experts, p \in Purchases, plan \in Tiers, until \in Nat :
         e = job[j].e /\ p = job[j].p /\ plan = job[j].plan /\ until = job[j].until
  BY PlansTyped, Carried DEF Knows
<1>2. PICK retire : retire = job[j].retire
  OBVIOUS
<1>3. Activated(e, p, plan, until, retire) \in [Purchases -> Sub]
  BY PlansTyped, ActivatedTyped
<1>4. Relisted(e) \in [Experts -> Profile]
  BY PlansTyped, ListingTyped
<1> QED
  BY <1>1, <1>2, <1>3, <1>4 DEF TableTypeOK

(* The transaction commits. *)
LEMMA ActivateCommitsKept ==
    ASSUME PlansInv, NEW j \in Jobs, ActivateCommits(j), UNCHANGED heals
    PROVE  PlansInv'
<1>1. TableTypeOK'
  BY ActivationTyped DEF ActivateCommits
<1>2. PICK cross \in SUBSET Purchases : cross = job[j].cross
  BY PlansTyped, Carried
<1>3. PICK op \in {"idle", "supersede"} : op = IF cross = {} THEN "idle" ELSE "supersede"
  OBVIOUS
<1>4. PICK r : r = [IdleJob EXCEPT !.op = op, !.cross = cross]
  OBVIOUS
<1>5. r \in Job /\ Knows(r)
  BY <1>3, <1>4, BlanksTyped DEF Job, Knows
<1>6. job' = [job EXCEPT ![j] = r]
  BY <1>2, <1>3, <1>4 DEF ActivateCommits, Goes
<1>7. RequestsSound'
  BY <1>5, <1>6, PlansTyped, RequestGoes DEF ActivateCommits
<1>8. StoresSound'
  BY PlansTyped, StoresStay DEF ActivateCommits
<1> QED
  BY <1>1, <1>7, <1>8 DEF PlansInv

(* A plan at another store is cancelled there. *)
LEMMA cancelSupersededKept ==
    ASSUME PlansInv, NEW j \in Jobs, cancelSupersededSubscriptions(j), UNCHANGED heals
    PROVE  PlansInv'
<1>1. PICK q \in job[j].cross :
         /\ job[j].op = "supersede"
         /\ \/ CancelAt(q) /\ UNCHANGED faults
            \/ Fault /\ UNCHANGED <<store, hooks>>
            \/ UNCHANGED <<store, hooks, faults>>
         /\ Completes(j) \/ Goes(j, [job[j] EXCEPT !.cross = job[j].cross \ {q}])
         /\ UNCHANGED <<sub, profile, checkout, sweep>>
  BY DEF cancelSupersededSubscriptions
<1>2. q \in Purchases /\ job[j] \in Job /\ job[j].cross \in SUBSET Purchases
  BY <1>1, PlansTyped, Carried
<1>3. StoresSound'
  <2>1. CASE CancelAt(q) /\ UNCHANGED faults
    BY <1>1, <1>2, <2>1, PlansTyped, CancelAtKept
  <2>2. CASE Fault /\ UNCHANGED <<store, hooks>>
    BY <1>1, <2>2, PlansTyped, FaultCounted, HooksTaken
  <2>3. CASE UNCHANGED <<store, hooks, faults>>
    BY <1>1, <2>3, PlansTyped, HooksTaken
  <2> QED
    BY <1>1, <2>1, <2>2, <2>3
<1>4. RequestsSound'
  <2>1. CASE Completes(j)
    BY <1>1, <2>1, PlansTyped, RequestEnds
  <2>2. CASE Goes(j, [job[j] EXCEPT !.cross = job[j].cross \ {q}])
    <3>1. PICK r : r = [job[j] EXCEPT !.cross = job[j].cross \ {q}]
      OBVIOUS
    <3>2. r \in Job /\ Knows(r)
      BY <1>1, <1>2, <3>1 DEF Job, Knows
    <3> QED
      BY <1>1, <2>2, <3>1, <3>2, PlansTyped, RequestGoes DEF Goes
  <2> QED
    BY <1>1, <2>1, <2>2
<1> QED
  BY <1>1, <1>3, <1>4 DEF PlansInv, TableTypeOK

-----------------------------------------------------------------------------
(* Checkout pages.                                                          *)

(* A page is opened for an expert. *)
LEMMA createSessionKept ==
    ASSUME PlansInv, NEW e \in Experts, NEW p \in Purchases, NEW tier \in Tiers,
           createStripeCheckoutSession(e, p, tier), UNCHANGED heals
    PROVE  PlansInv'
<1>1. PICK s : s = [expert |-> e, plan |-> tier]
  OBVIOUS
<1>2. s \in Session /\ s.expert = e /\ checkout' = [checkout EXCEPT ![p] = s]
  BY <1>1 DEF createStripeCheckoutSession, Session
<1>3. StoresTypeOK'
  BY <1>2, PlansTyped DEF createStripeCheckoutSession, StoresTypeOK
<1>4. SessionsKnow'
  BY <1>2, PlansTyped DEF createStripeCheckoutSession, StoresSound, SessionsKnow
<1>5. RequestsSound'
  BY PlansTyped, RequestsStay DEF createStripeCheckoutSession
<1> QED
  BY <1>3, <1>4, <1>5 DEF PlansInv, StoresSound, TableTypeOK, createStripeCheckoutSession

(* Taking a notification. *)
LEMMA TakesKept ==
    ASSUME StoresSound, NEW h, Takes(h), UNCHANGED <<store, checkout>> PROVE StoresSound'
<1>1. hooks' \subseteq hooks
  BY DEF Takes
<1>2. faults' \in Nat
  BY FaultCounted DEF Takes, StoresSound, StoresTypeOK
<1> QED
  BY <1>1, <1>2, HooksTaken

(* The notification about a page that was paid. *)
LEMMA CheckoutCompletedKept ==
    ASSUME PlansInv, NEW j \in Jobs, NEW h \in hooks, CheckoutCompleted(j, h), UNCHANGED heals
    PROVE  PlansInv'
<1>1. h \in Hook /\ h.expert \in Experts /\ h.p \in Purchases /\ h.plan \in Tiers
  BY PlansTyped DEF CheckoutCompleted, StoresSound, SessionsKnow, Hook
<1>2. PICK others \in SUBSET Purchases, until \in Nat :
         /\ others = {q \in ActiveOf(h.expert) \ {h.p} : StoreOf[q] = "stripe"}
         /\ until = store[h.p].paidTo
  <2>1. {q \in ActiveOf(h.expert) \ {h.p} : StoreOf[q] = "stripe"} \in SUBSET Purchases
    BY DEF ActiveOf, RowsOf
  <2>2. store[h.p].paidTo \in Nat
    BY <1>1, PlansTyped DEF Store
  <2> QED
    BY <2>1, <2>2
<1>3. PICK r : r = [IdleJob EXCEPT !.op = "checkout", !.e = h.expert, !.p = h.p, !.plan = h.plan,
                                   !.until = until, !.cross = others]
  OBVIOUS
<1>4. r \in Job /\ Knows(r)
  BY <1>1, <1>3, BlanksTyped DEF Job, Knows
<1>5. job' = [job EXCEPT ![j] = r]
  BY <1>2, <1>3 DEF CheckoutCompleted, Begins
<1>6. RequestsSound'
  BY <1>4, <1>5, PlansTyped, RequestGoes DEF CheckoutCompleted
<1>7. StoresSound'
  BY PlansTyped, TakesKept DEF CheckoutCompleted
<1> QED
  BY <1>6, <1>7 DEF PlansInv, TableTypeOK, CheckoutCompleted

(* Another subscription of the expert is cancelled at Stripe. *)
LEMMA CheckoutCancelsOtherKept ==
    ASSUME PlansInv, NEW j \in Jobs, CheckoutCancelsOther(j), UNCHANGED heals
    PROVE  PlansInv'
<1>1. PICK q \in job[j].cross :
         /\ job[j].op = "checkout" /\ CancelAt(q)
         /\ Goes(j, [job[j] EXCEPT !.cross = job[j].cross \ {q}])
         /\ UNCHANGED <<sub, profile, checkout, faults, sweep>>
  BY DEF CheckoutCancelsOther
<1>2. q \in Purchases /\ job[j] \in Job /\ job[j].cross \in SUBSET Purchases /\ Knows(job[j])
  BY <1>1, PlansTyped, Carried
<1>3. PICK r : r = [job[j] EXCEPT !.cross = job[j].cross \ {q}]
  OBVIOUS
<1>4. r \in Job /\ Knows(r)
  BY <1>1, <1>2, <1>3 DEF Job, Knows
<1>5. RequestsSound'
  BY <1>1, <1>3, <1>4, PlansTyped, RequestGoes DEF Goes
<1>6. StoresSound'
  BY <1>1, <1>2, PlansTyped, CancelAtKept
<1> QED
  BY <1>1, <1>5, <1>6 DEF PlansInv, TableTypeOK

(* The rows to retire are read. *)
LEMMA CheckoutRetiresKept ==
    ASSUME PlansInv, NEW j \in Jobs, CheckoutRetires(j), UNCHANGED heals
    PROVE  PlansInv'
<1>1. PICK retire \in SUBSET Purchases : retire = ActiveOf(job[j].e)
  BY DEF ActiveOf, RowsOf
<1>2. PICK r : r = [job[j] EXCEPT !.op = "retire", !.retire = retire]
  OBVIOUS
<1>3. job[j] \in Job /\ Knows(job[j]) /\ job[j].op = "checkout"
  BY PlansTyped DEF CheckoutRetires
<1>4. r \in Job /\ Knows(r)
  BY <1>2, <1>3 DEF Job, Knows
<1>5. job' = [job EXCEPT ![j] = r]
  BY <1>1, <1>2 DEF CheckoutRetires, Goes
<1>6. RequestsSound'
  BY <1>4, <1>5, PlansTyped, RequestGoes DEF CheckoutRetires
<1> QED
  BY <1>6, OnlyRequests DEF CheckoutRetires

(* The transaction of a page that was paid. *)
LEMMA CheckoutCommitsKept ==
    ASSUME PlansInv, NEW j \in Jobs, CheckoutCommits(j), UNCHANGED heals
    PROVE  PlansInv'
<1>1. TableTypeOK'
  BY ActivationTyped DEF CheckoutCommits
<1>2. RequestsSound'
  BY PlansTyped, RequestEnds DEF CheckoutCommits
<1>3. StoresSound'
  BY PlansTyped, StoresStay DEF CheckoutCommits
<1> QED
  BY <1>1, <1>2, <1>3 DEF PlansInv

-----------------------------------------------------------------------------
(* Notifications.                                                           *)

(* A notification of a change of a known purchase is read. *)
LEMMA NotificationReadsKept ==
    ASSUME PlansInv, NEW j \in Jobs, NEW h \in hooks, NotificationReads(j, h), UNCHANGED heals
    PROVE  PlansInv'
<1>1. /\ h \in Hook /\ h.type # "checkout" /\ h.p \in Purchases /\ h.until \in Nat
      /\ sub[h.p] \in Sub /\ store[h.p] \in Store
  BY PlansTyped DEF NotificationReads, Hook
<1>2. StoresSound'
  BY PlansTyped, TakesKept DEF NotificationReads
<1>3. RequestsSound'
  <2>1. CASE UNCHANGED job
    BY <2>1, PlansTyped, RequestsStay DEF NotificationReads
  <2>2. CASE sub[h.p].expert # NoExpert
    <3>1. PICK e \in Experts, plan \in Tiers : e = sub[h.p].expert /\ plan = sub[h.p].plan
      BY <1>1, <2>2 DEF Sub
    <3>2. PICK live \in BOOLEAN : live = entitled(h.p, sub[h.p])
      BY EntitledOrNot
    <3>3. PICK until \in Nat : until = IF StoreOf[h.p] # "google" THEN h.until
                                       ELSE IF Renewal(h) THEN PeriodEnd(h.p) ELSE store[h.p].paidTo
      <4>1. PeriodEnd(h.p) \in Nat /\ store[h.p].paidTo \in Nat
        BY <1>1, PlansTyped, PeriodEndTyped DEF Store
      <4> QED
        BY <1>1, <4>1
    <3>4. PICK r : r = [IdleJob EXCEPT !.op = "notified", !.e = e, !.p = h.p, !.h = h, !.plan = plan,
                                       !.live = live, !.until = until]
      OBVIOUS
    <3>5. r \in Job /\ Knows(r)
      BY <1>1, <3>4, BlanksTyped DEF Job, Knows
    <3>6. job' = [job EXCEPT ![j] = r]
      BY <2>2, <3>1, <3>2, <3>3, <3>4 DEF NotificationReads, Begins
    <3> QED
      BY <3>5, <3>6, PlansTyped, RequestGoes DEF NotificationReads
  <2> QED
    BY <2>1, <2>2 DEF NotificationReads
<1> QED
  BY <1>2, <1>3 DEF PlansInv, TableTypeOK, NotificationReads

(* Google cannot be asked about it. *)
LEMMA NotificationReadsBlindKept ==
    ASSUME PlansInv, NEW j \in Jobs, NEW h \in hooks, NotificationReadsBlind(j, h), UNCHANGED heals
    PROVE  PlansInv'
<1>1. h \in Hook /\ h.type # "checkout" /\ h.p \in Purchases /\ sub[h.p] \in Sub
  BY PlansTyped DEF NotificationReadsBlind, Renewal, Hook
<1>2. PICK e \in Experts, plan \in Tiers, until \in Nat :
         e = sub[h.p].expert /\ plan = sub[h.p].plan /\ until = sub[h.p].until + 1
  <2>1. /\ sub[h.p].expert \in Experts /\ sub[h.p].plan \in Tiers
        /\ sub[h.p].until \in Nat
    BY <1>1 DEF NotificationReadsBlind, Sub
  <2>2. sub[h.p].until + 1 \in Nat
    BY <2>1
  <2> QED
    BY <2>1, <2>2
<1>3. PICK r : r = [IdleJob EXCEPT !.op = "notified", !.e = e, !.p = h.p, !.h = h, !.plan = plan,
                                   !.until = until]
  OBVIOUS
<1>4. r \in Job /\ Knows(r)
  BY <1>1, <1>3, BlanksTyped DEF Job, Knows
<1>5. job' = [job EXCEPT ![j] = r]
  BY <1>2, <1>3 DEF NotificationReadsBlind, Begins
<1>6. RequestsSound'
  BY <1>4, <1>5, PlansTyped, RequestGoes DEF NotificationReadsBlind
<1>7. StoresSound'
  BY PlansTyped, FaultCounted, HooksTaken DEF NotificationReadsBlind
<1> QED
  BY <1>6, <1>7 DEF PlansInv, TableTypeOK, NotificationReadsBlind

(* The row is written. *)
LEMMA NotificationUpdatesKept ==
    ASSUME PlansInv, NEW j \in Jobs, NotificationUpdates(j), UNCHANGED heals
    PROVE  PlansInv'
<1>1. PICK p \in Purchases, e \in Experts : p = job[j].p /\ e = job[j].e
  BY PlansTyped DEF Knows, NotificationUpdates
<1>2. job[j] \in Job /\ job[j].h \in Hook /\ job[j].h.type # "checkout" /\ sub[p] \in Sub
  BY PlansTyped DEF Knows, NotificationUpdates
<1>3. PICK r : r = Notified(job[j], sub[p])
  OBVIOUS
<1>4. r \in Sub
  BY <1>2, <1>3, NotifiedTyped
<1>5. TableTypeOK'
  <2>1. sub' = [sub EXCEPT ![p] = r] /\ UNCHANGED profile
    BY <1>1, <1>3 DEF NotificationUpdates
  <2> QED
    BY <1>4, <2>1, PlansTyped, RowWritten
<1>6. RequestsSound'
  <2>1. PICK next \in {"idle", "list", "revoke"} : next = Afterwards(job[j].h, job[j].live)
    BY DEF Afterwards
  <2>2. CASE Completes(j)
    BY <2>2, PlansTyped, RequestEnds DEF NotificationUpdates
  <2>3. CASE Goes(j, [IdleJob EXCEPT !.op = next, !.e = e, !.p = p])
    <3>1. PICK q : q = [IdleJob EXCEPT !.op = next, !.e = e, !.p = p]
      OBVIOUS
    <3>2. q \in Job /\ Knows(q)
      BY <3>1, BlanksTyped DEF Job, Knows
    <3> QED
      BY <2>3, <3>1, <3>2, PlansTyped, RequestGoes DEF NotificationUpdates, Goes
  <2> QED
    BY <1>1, <2>1, <2>2, <2>3 DEF NotificationUpdates
<1>7. StoresSound'
  BY PlansTyped, StoresStay DEF NotificationUpdates
<1> QED
  BY <1>5, <1>6, <1>7 DEF PlansInv

(* The expert is listed. *)
LEMMA NotificationListsKept ==
    ASSUME PlansInv, NEW j \in Jobs, NotificationLists(j), UNCHANGED heals
    PROVE  PlansInv'
<1>1. PICK e \in Experts : e = job[j].e
  BY PlansTyped DEF Knows, NotificationLists
<1>2. TableTypeOK'
  BY <1>1, PlansTyped, ListingTyped DEF NotificationLists, TableTypeOK
<1>3. RequestsSound' /\ StoresSound'
  BY PlansTyped, RequestEnds, StoresStay DEF NotificationLists
<1> QED
  BY <1>2, <1>3 DEF PlansInv

(* Another row is left, or not. *)
LEMMA RevokeChecksKept ==
    ASSUME PlansInv, NEW j \in Jobs, RevokeChecks(j), UNCHANGED heals
    PROVE  PlansInv'
<1>1. PICK e \in Experts : e = job[j].e
  BY PlansTyped DEF Knows, RevokeChecks
<1>2. PICK r : r = [IdleJob EXCEPT !.op = "unlist", !.e = e]
  OBVIOUS
<1>3. r \in Job /\ Knows(r)
  BY <1>2, BlanksTyped DEF Job, Knows
<1>4. Completes(j) \/ job' = [job EXCEPT ![j] = r]
  BY <1>1, <1>2 DEF RevokeChecks, Goes
<1>5. RequestsSound'
  BY <1>3, <1>4, PlansTyped, RequestGoes, RequestEnds DEF RevokeChecks
<1> QED
  BY <1>5, OnlyRequests DEF RevokeChecks

(* The expert is taken out of search. *)
LEMMA RevokeWritesKept ==
    ASSUME PlansInv, NEW j \in Jobs, RevokeWrites(j), UNCHANGED heals
    PROVE  PlansInv'
<1>1. PICK e \in Experts : e = job[j].e
  BY PlansTyped DEF Knows, RevokeWrites
<1>2. TableTypeOK'
  BY <1>1, PlansTyped, ListingTyped DEF RevokeWrites, TableTypeOK
<1>3. RequestsSound' /\ StoresSound'
  BY PlansTyped, RequestEnds, StoresStay DEF RevokeWrites
<1> QED
  BY <1>2, <1>3 DEF PlansInv

-----------------------------------------------------------------------------
(* The expert looks at or cancels the plan, and the night.                  *)

(* A row is read as over. *)
LEMMA MySubscriptionReadsKept ==
    ASSUME PlansInv, NEW j \in Jobs, NEW p \in Purchases, MySubscriptionReads(j, p), UNCHANGED heals
    PROVE  PlansInv'
<1>1. PICK r : r = [IdleJob EXCEPT !.op = "expire", !.p = p]
  OBVIOUS
<1>2. r \in Job /\ Knows(r)
  BY <1>1, BlanksTyped DEF Job, Knows
<1>3. RequestsSound'
  BY <1>1, <1>2, PlansTyped, RequestGoes DEF MySubscriptionReads, Begins
<1> QED
  BY <1>3, OnlyRequests DEF MySubscriptionReads

(* It is expired. *)
LEMMA MySubscriptionExpiresKept ==
    ASSUME PlansInv, NEW j \in Jobs, MySubscriptionExpires(j), UNCHANGED heals
    PROVE  PlansInv'
<1>1. PICK p \in Purchases : p = job[j].p
  BY PlansTyped DEF Knows, MySubscriptionExpires
<1>2. PICK r : r = [sub[p] EXCEPT !.status = "expired"]
  OBVIOUS
<1>3. r \in Sub
  BY <1>2, PlansTyped DEF Sub, SubscriptionStatus
<1>4. TableTypeOK'
  <2>1. sub' = [sub EXCEPT ![p] = r] /\ UNCHANGED profile
    BY <1>1, <1>2 DEF MySubscriptionExpires
  <2> QED
    BY <1>3, <2>1, PlansTyped, RowWritten
<1>5. RequestsSound' /\ StoresSound'
  BY PlansTyped, RequestEnds, StoresStay DEF MySubscriptionExpires
<1> QED
  BY <1>4, <1>5 DEF PlansInv

(* Renewal and expiry are fetched from the store. *)
LEMMA ReconcileReadsKept ==
    ASSUME PlansInv, NEW j \in Jobs, NEW p \in Purchases, ReconcileReads(j, p), UNCHANGED heals
    PROVE  PlansInv'
<1>1. PICK until \in Nat, stops \in BOOLEAN : until = store[p].paidTo /\ stops = ~store[p].renews
  BY PlansTyped DEF Store
<1>2. PICK r : r = [IdleJob EXCEPT !.op = "reconcile", !.p = p, !.until = until, !.stops = stops]
  OBVIOUS
<1>3. r \in Job /\ Knows(r)
  BY <1>2, BlanksTyped DEF Job, Knows
<1>4. job' = [job EXCEPT ![j] = r]
  BY <1>1, <1>2 DEF ReconcileReads, Begins
<1>5. RequestsSound'
  BY <1>3, <1>4, PlansTyped, RequestGoes DEF ReconcileReads
<1> QED
  BY <1>5, OnlyRequests DEF ReconcileReads

(* They are written. *)
LEMMA ReconcileWritesKept ==
    ASSUME PlansInv, NEW j \in Jobs, ReconcileWrites(j), UNCHANGED heals
    PROVE  PlansInv'
<1>1. PICK p \in Purchases, until \in Nat, stops \in BOOLEAN :
         p = job[j].p /\ until = job[j].until /\ stops = job[j].stops
  BY PlansTyped DEF Knows, ReconcileWrites, Job
<1>2. PICK r : r = [sub[p] EXCEPT !.until = until, !.cancelAtEnd = stops]
  OBVIOUS
<1>3. r \in Sub
  BY <1>2, PlansTyped DEF Sub
<1>4. TableTypeOK'
  <2>1. sub' = [sub EXCEPT ![p] = r] /\ UNCHANGED profile
    BY <1>1, <1>2 DEF ReconcileWrites
  <2> QED
    BY <1>3, <2>1, PlansTyped, RowWritten
<1>5. RequestsSound' /\ StoresSound'
  BY PlansTyped, RequestEnds, StoresStay DEF ReconcileWrites
<1> QED
  BY <1>4, <1>5 DEF PlansInv

(* The row is marked before Stripe is told. *)
LEMMA cancelSubscriptionKept ==
    ASSUME PlansInv, NEW j \in Jobs, NEW p \in Purchases, cancelSubscription(j, p), UNCHANGED heals
    PROVE  PlansInv'
<1>1. PICK r : r = [IdleJob EXCEPT !.op = "cancel", !.p = p]
  OBVIOUS
<1>2. r \in Job /\ Knows(r)
  BY <1>1, BlanksTyped DEF Job, Knows
<1>3. RequestsSound'
  BY <1>1, <1>2, PlansTyped, RequestGoes DEF cancelSubscription, Begins
<1>4. PICK s : s = [sub[p] EXCEPT !.cancelAtEnd = TRUE]
  OBVIOUS
<1>5. s \in Sub
  BY <1>4, PlansTyped DEF Sub
<1>6. TableTypeOK'
  <2>1. sub' = [sub EXCEPT ![p] = s] /\ UNCHANGED profile
    BY <1>4 DEF cancelSubscription
  <2> QED
    BY <1>5, <2>1, PlansTyped, RowWritten
<1>7. StoresSound'
  BY PlansTyped, StoresStay DEF cancelSubscription
<1> QED
  BY <1>3, <1>6, <1>7 DEF PlansInv

(* Stripe is told. *)
LEMMA CancelTellsStripeKept ==
    ASSUME PlansInv, NEW j \in Jobs, CancelTellsStripe(j), UNCHANGED heals
    PROVE  PlansInv'
<1>1. PICK p \in Purchases : p = job[j].p
  BY PlansTyped DEF Knows, CancelTellsStripe
<1>2. PICK s : s = [store[p] EXCEPT !.renews = FALSE]
  OBVIOUS
<1>3. s \in Store
  BY <1>2, PlansTyped DEF Store
<1>4. Becomes("renewOff", p, s) \/ UNCHANGED storeVars
  BY <1>1, <1>2 DEF CancelTellsStripe
<1>5. StoresSound'
  BY <1>3, <1>4, PlansTyped, BecomesKept, StoresStay DEF Changes
<1>6. RequestsSound'
  BY PlansTyped, RequestEnds DEF CancelTellsStripe
<1> QED
  BY <1>5, <1>6 DEF PlansInv, TableTypeOK, CancelTellsStripe

(* Stripe could not be told. *)
LEMMA CancelUntoldKept ==
    ASSUME PlansInv, NEW j \in Jobs, CancelUntold(j), UNCHANGED heals
    PROVE  PlansInv'
<1>1. StoresSound'
  BY PlansTyped, FaultCounted, HooksTaken DEF CancelUntold
<1>2. RequestsSound'
  BY PlansTyped, RequestEnds DEF CancelUntold
<1> QED
  BY <1>1, <1>2 DEF PlansInv, TableTypeOK, CancelUntold

(* The rows that ran out, and the listed experts without a plan. *)
LEMMA expireSubscriptionsKept ==
    ASSUME PlansInv, expireSubscriptions, UNCHANGED heals
    PROVE  PlansInv'
<1>1. Expired \in [Purchases -> Sub]
  <2>1. \A p \in Purchases : sub[p] \in Sub /\ [sub[p] EXCEPT !.status = "canceled"] \in Sub
    BY PlansTyped DEF Sub, SubscriptionStatus
  <2> QED
    BY <2>1 DEF Expired
<1>2. TableTypeOK'
  BY <1>1 DEF PlansInv, TableTypeOK, expireSubscriptions
<1>3. PICK found \in SUBSET Experts : found = Orphaned(Expired)
  BY DEF Orphaned
<1>4. sweep' \in Sweep
  BY <1>3 DEF expireSubscriptions, Sweep
<1>5. RequestsSound' /\ StoresSound'
  BY <1>4, PlansTyped, RequestsStay, StoresStay DEF expireSubscriptions
<1> QED
  BY <1>2, <1>5 DEF PlansInv

(* They are taken out of search. *)
LEMMA SweepWritesKept ==
    ASSUME PlansInv, SweepWrites, UNCHANGED heals
    PROVE  PlansInv'
<1>1. \A e \in Experts : profile[e] \in Profile /\ [profile[e] EXCEPT !.eligible = FALSE] \in Profile
  BY PlansTyped DEF Profile
<1>2. TableTypeOK'
  BY <1>1, PlansTyped DEF TableTypeOK, SweepWrites
<1>3. RequestsSound' /\ StoresSound'
  BY PlansTyped, RequestsStay, StoresStay DEF SweepWrites, Sweep
<1> QED
  BY <1>2, <1>3 DEF PlansInv

(* The service restarts and forgets its requests. *)
LEMMA BillingRestartsKept ==
    ASSUME PlansInv, BillingRestarts, UNCHANGED heals
    PROVE  PlansInv'
<1>1. \A j \in Jobs : job'[j] \in {job[j], IdleJob}
  BY DEF BillingRestarts
<1>2. job' \in [Jobs -> Job]
  BY PlansTyped, BlanksTyped DEF BillingRestarts
<1>3. ASSUME NEW j \in Jobs PROVE Knows(job'[j])
  <2>1. CASE job'[j] = job[j]
    <3>1. Knows(job[j])
      BY PlansTyped
    <3> QED
      BY <2>1, <3>1
  <2>2. CASE job'[j] = IdleJob
    <3>1. Knows(IdleJob)
      BY BlanksTyped DEF Knows
    <3> QED
      BY <2>2, <3>1
  <2> QED
    BY <1>1, <2>1, <2>2
<1>4. RequestsSound'
  BY <1>2, <1>3, PlansTyped DEF RequestsSound, BillingRestarts, Sweep, Knows
<1>5. StoresSound'
  BY PlansTyped, FaultCounted, HooksTaken DEF BillingRestarts
<1> QED
  BY <1>4, <1>5 DEF PlansInv, TableTypeOK, BillingRestarts

-----------------------------------------------------------------------------
(* expert-service and admin-service.                                        *)

(* A profile is written and nothing else. *)
LEMMA ProfileKept ==
    ASSUME PlansInv, NEW e \in Experts, NEW a \in BOOLEAN, NEW b \in BOOLEAN,
           \/ profile' = [profile EXCEPT ![e] = [profile[e] EXCEPT !.approved = a]]
           \/ profile' = [profile EXCEPT ![e] = [profile[e] EXCEPT !.eligible = b]]
           \/ profile' = [profile EXCEPT ![e] = [profile[e] EXCEPT !.approved = a, !.eligible = b]],
           UNCHANGED <<sub, job, storeVars, sweep>>, heals' \subseteq Experts
    PROVE  PlansInv'
<1>1. /\ [profile[e] EXCEPT !.approved = a] \in Profile /\ [profile[e] EXCEPT !.eligible = b] \in Profile
      /\ [profile[e] EXCEPT !.approved = a, !.eligible = b] \in Profile
  <2>1. profile[e] \in Profile
    BY PlansTyped
  <2>2. [profile[e] EXCEPT !.approved = a] \in Profile
    BY <2>1 DEF Profile
  <2>3. \A x \in Profile : [x EXCEPT !.eligible = b] \in Profile
    BY DEF Profile
  <2> QED
    BY <2>1, <2>2, <2>3
<1>2. TableTypeOK'
  BY <1>1, PlansTyped DEF TableTypeOK
<1>3. RequestsSound' /\ StoresSound'
  BY PlansTyped, RequestsStay, StoresStay
<1> QED
  BY <1>2, <1>3 DEF PlansInv

(* The approval reads the active plan. *)
LEMMA ApproveReadsKept ==
    ASSUME PlansInv, NEW j \in Jobs, NEW e \in Experts, ApproveReads(j, e)
    PROVE  PlansInv'
<1>1. PICK retire \in SUBSET Purchases : retire = ActiveOf(e)
  BY DEF ActiveOf, RowsOf
<1>2. PICK r : r = [IdleJob EXCEPT !.op = "approve", !.e = e, !.retire = retire]
  OBVIOUS
<1>3. r \in Job /\ Knows(r)
  BY <1>2, BlanksTyped DEF Job, Knows
<1>4. job' = [job EXCEPT ![j] = r]
  BY <1>1, <1>2 DEF ApproveReads, Begins
<1>5. RequestsSound'
  BY <1>3, <1>4, PlansTyped, RequestGoes DEF ApproveReads
<1> QED
  BY <1>5, OnlyRequests DEF ApproveReads

(* The approval is written. *)
LEMMA ApproveWritesKept ==
    ASSUME PlansInv, NEW j \in Jobs, ApproveWrites(j)
    PROVE  PlansInv'
<1>1. PICK e \in Experts : e = job[j].e
  BY PlansTyped DEF Knows, ApproveWrites
<1>2. PICK b \in BOOLEAN : b = (job[j].retire # {})
  OBVIOUS
<1>3. [profile[e] EXCEPT !.approved = TRUE, !.eligible = b] \in Profile
  BY PlansTyped DEF Profile
<1>4. TableTypeOK'
  BY <1>1, <1>2, <1>3, PlansTyped DEF TableTypeOK, ApproveWrites, Sets
<1>5. RequestsSound' /\ StoresSound'
  BY PlansTyped, RequestEnds, StoresStay DEF ApproveWrites
<1> QED
  BY <1>4, <1>5 DEF PlansInv

(* The account is removed and its plans cancelled. *)
LEMMA removeKept ==
    ASSUME PlansInv, NEW e \in Experts, remove(e)
    PROVE  PlansInv'
<1>1. \A p \in Purchases : sub[p] \in Sub /\ [sub[p] EXCEPT !.status = "canceled"] \in Sub
  BY PlansTyped DEF Sub, SubscriptionStatus
<1>2. sub' \in [Purchases -> Sub]
  BY <1>1 DEF remove
<1>3. [profile[e] EXCEPT !.eligible = FALSE] \in Profile
  BY PlansTyped DEF Profile
<1>4. TableTypeOK'
  BY <1>2, <1>3, PlansTyped DEF TableTypeOK, remove, Sets
<1>5. RequestsSound' /\ StoresSound'
  BY PlansTyped, RequestsStay, StoresStay DEF remove, Desks
<1> QED
  BY <1>4, <1>5 DEF PlansInv

(* The steps of the two desks. *)
LEMMA AccountStepKept ==
    ASSUME PlansInv, AccountStep
    PROVE  PlansInv'
<1>1. ASSUME NEW e \in Experts,
             submitOnboarding(e) \/ submitVerificationDocuments(e) \/ resubmitVerificationDocuments(e)
      PROVE  PlansInv'
  BY <1>1, PlansTyped, ProfileKept
  DEF submitOnboarding, submitVerificationDocuments, resubmitVerificationDocuments, BackToReview,
      Desks, Sets
<1>2. ASSUME NEW e \in Experts, deleteExpertAccount(e) \/ reject(e) \/ update(e) PROVE PlansInv'
  BY <1>2, PlansTyped, ProfileKept DEF deleteExpertAccount, reject, update, Desks, Sets
<1>3. ASSUME NEW e \in Experts, HealWrites(e) PROVE PlansInv'
  <2>1. /\ profile' = [profile EXCEPT ![e] = [profile[e] EXCEPT !.eligible = TRUE]]
        /\ UNCHANGED <<sub, job, storeVars, sweep>> /\ heals' \subseteq Experts
    BY <1>3, PlansTyped DEF HealWrites
  <2> QED
    BY <2>1, ProfileKept
<1>4. ASSUME NEW e \in Experts, getExpertProfile(e) PROVE PlansInv'
  <2>1. UNCHANGED <<sub, profile, storeVars>> /\ UNCHANGED <<job, sweep>> /\ heals' \subseteq Experts
    BY <1>4, PlansTyped DEF getExpertProfile, subscriptionVars
  <2>2. RequestsSound'
    BY <2>1, PlansTyped, RequestsStay
  <2> QED
    BY <2>1, <2>2, OnlyRequests
<1> QED
  BY <1>1, <1>2, <1>3, <1>4, removeKept, ApproveReadsKept, ApproveWritesKept DEF AccountStep

(* Every step. *)
LEMMA PlansKept == PlansInv /\ [Next]_vars => PlansInv'
<1> SUFFICES ASSUME PlansInv, [Next]_vars PROVE PlansInv'
  OBVIOUS
<1>1. CASE StoreStep /\ UNCHANGED <<sub, profile, job, sweep, heals>>
  <2>1. StoresSound' /\ RequestsSound'
    BY <1>1, PlansTyped, StoresKept, RequestsStay
  <2> QED
    BY <1>1, <2>1 DEF PlansInv, TableTypeOK
<1>2. ASSUME NEW j \in Jobs, Requested(j), UNCHANGED heals PROVE PlansInv'
  BY <1>2, verifyPurchaseKept, CheckoutCompletedKept, NotificationReadsKept,
     NotificationReadsBlindKept, MySubscriptionReadsKept, ReconcileReadsKept, cancelSubscriptionKept
  DEF Requested
<1>3. ASSUME NEW j \in Jobs, Continues(j), UNCHANGED heals PROVE PlansInv'
  BY <1>3, ActivateReadsKept, ActivateUndecidedKept, ActivateCommitsKept, cancelSupersededKept,
     CheckoutCancelsOtherKept, CheckoutRetiresKept, CheckoutCommitsKept, NotificationUpdatesKept,
     NotificationListsKept, RevokeChecksKept, RevokeWritesKept, MySubscriptionExpiresKept,
     ReconcileWritesKept, CancelTellsStripeKept, CancelUntoldKept
  DEF Continues
<1>4. CASE BillingStep /\ UNCHANGED heals
  BY <1>2, <1>3, <1>4, createSessionKept, expireSubscriptionsKept, SweepWritesKept,
     BillingRestartsKept
  DEF BillingStep
<1>5. CASE UNCHANGED vars
  <2>1. UNCHANGED <<sub, profile, storeVars>> /\ UNCHANGED <<job, sweep, heals>>
    BY <1>5 DEF vars, subscriptionVars
  <2>2. RequestsSound'
    BY <2>1, PlansTyped, RequestsStay
  <2> QED
    BY <2>1, <2>2, OnlyRequests
<1> QED
  BY <1>1, <1>4, <1>5, AccountStepKept DEF Next

(* What is true of the plans at every moment. *)
LEMMA PlansStaySound == Spec => []PlansInv
BY PlansStart, PlansKept, PTL DEF Spec

(* Every row, purchase, notification and request has the fields of its table, *)
(* under any traffic.                                                         *)
THEOREM PlansTypeCorrect == Spec => []TypeOK
<1>1. PlansInv => TypeOK
  BY DEF PlansInv, StoresSound, RequestsSound, TypeOK, SubscriptionsTypeOK
<1> QED
  BY <1>1, PlansStaySound, PTL

-----------------------------------------------------------------------------
(* In-app purchases alone: no Checkout pages and no notifications.          *)

\* The requests OneActiveRow is about.  A Checkout page takes no lock
\* (TwoActivePlans shows what comes of it), and a late notification of a renewal
\* makes a retired row active again.
InAppOnly == Traffic \cap {"checkout", "notify"} = {}

NothingElse ==
    /\ \A p \in Purchases : checkout[p] = NoSession
    /\ hooks = {}
    /\ \A j \in Jobs : job[j].op \notin {"notified", "checkout", "retire"}

\* An account has one active row.
OneEach == \A e \in Experts : \A p, q \in ActiveOf(e) : p = q

\* A transaction that holds its locks retires every active row that the account
\* has, but for the purchase's own.
RetiresAll ==
    \A j \in Jobs, e \in Experts : job[j].op = "activate" /\ job[j].e = e =>
       \A q \in ActiveOf(e) : q = job[j].p \/ q \in job[j].retire

\* No two transactions hold the lock of one account or of one purchase.
LocksApart ==
    \A i, j \in Jobs : i # j /\ job[i].op = "activate" /\ job[j].op = "activate" =>
       job[i].p # job[j].p /\ job[i].e # job[j].e

Alone == NothingElse /\ OneEach /\ RetiresAll /\ LocksApart

\* A step that makes no row active and starts no transaction.
Quiet ==
    /\ \A e \in Experts : \A q \in ActiveOf(e)' : q \in ActiveOf(e)
    /\ \A j \in Jobs : \/ job'[j] = job[j]
                       \/ job'[j].op \notin {"activate", "notified", "checkout", "retire"}
    /\ UNCHANGED <<checkout, hooks>>

(* Nothing is bought yet. *)
LEMMA AloneStarts == Init => Alone
<1> SUFFICES ASSUME Init PROVE Alone
  OBVIOUS
<1>1. \A j \in Jobs : job[j] = IdleJob
  BY DEF Init, SubscriptionsInit, RequestsIdle
<1>2. \A j \in Jobs : job[j].op = "idle"
  BY <1>1, BlanksTyped
<1>3. NothingElse
  BY <1>2 DEF Init, SubscriptionsInit, StoresInit, StoresIdle, NothingElse
<1>4. \A e \in Experts : ActiveOf(e) = {}
  BY NoneAssumption DEF Init, SubscriptionsInit, TableInit, ActiveOf, RowsOf, NoSub
<1> QED
  BY <1>2, <1>3, <1>4 DEF Alone, OneEach, RetiresAll, LocksApart

(* A quiet step keeps it so. *)
LEMMA QuietKeeps == Alone /\ Quiet => Alone'
<1> SUFFICES ASSUME Alone, Quiet PROVE Alone'
  OBVIOUS
<1>1. NothingElse'
  BY DEF Alone, NothingElse, Quiet
<1>2. OneEach'
  BY DEF Alone, OneEach, Quiet
<1>3. \A j \in Jobs : job'[j].op = "activate" => job'[j] = job[j]
  BY DEF Quiet
<1>4. RetiresAll'
  BY <1>3 DEF Alone, RetiresAll, Quiet
<1>5. LocksApart'
  BY <1>3 DEF Alone, LocksApart
<1> QED
  BY <1>1, <1>2, <1>4, <1>5 DEF Alone

(* One request goes to a step that holds no lock. *)
LEMMA OneQuietRequest ==
    ASSUME PlansInv, NEW j \in Jobs, NEW r, job' = [job EXCEPT ![j] = r],
           r.op \notin {"activate", "notified", "checkout", "retire"},
           \A e \in Experts : \A q \in ActiveOf(e)' : q \in ActiveOf(e),
           UNCHANGED <<checkout, hooks>>
    PROVE  Quiet
<1>1. \A i \in Jobs : job'[i] = IF i = j THEN r ELSE job[i]
  BY PlansTyped
<1> QED
  BY <1>1 DEF Quiet

(* One request ends. *)
LEMMA OneQuietEnd ==
    ASSUME PlansInv, NEW j \in Jobs, Completes(j),
           \A e \in Experts : \A q \in ActiveOf(e)' : q \in ActiveOf(e),
           UNCHANGED <<checkout, hooks>>
    PROVE  Quiet
<1>1. IdleJob.op \notin {"activate", "notified", "checkout", "retire"}
  BY BlanksTyped
<1> QED
  BY <1>1, OneQuietRequest DEF Completes

(* No request moves. *)
LEMMA NoRequest ==
    ASSUME UNCHANGED <<job, checkout, hooks>>,
           \A e \in Experts : \A q \in ActiveOf(e)' : q \in ActiveOf(e)
    PROVE  Quiet
BY DEF Quiet

(* Rows that are left alone. *)
LEMMA SameRows == UNCHANGED sub => \A e \in Experts : \A q \in ActiveOf(e)' : q \in ActiveOf(e)
BY DEF ActiveOf, RowsOf

(* Rows that only stop being active. *)
LEMMA RowsEnd ==
    ASSUME \A q \in Purchases : \/ sub'[q] = sub[q]
                                \/ sub'[q].expert = sub[q].expert /\ sub'[q].status # "active"
                                \/ sub'[q].expert = sub[q].expert /\ sub'[q].status = sub[q].status
    PROVE  \A e \in Experts : \A q \in ActiveOf(e)' : q \in ActiveOf(e)
BY DEF ActiveOf, RowsOf

(* Nothing is sent. *)
LEMMA NothingSent == InAppOnly => \A notes : Sent(notes) = hooks
BY DEF InAppOnly, Sent

(* What the stores do is quiet. *)
LEMMA StoreIsQuiet ==
    ASSUME InAppOnly, PlansInv, Alone, StoreStep, UNCHANGED <<sub, job>>
    PROVE  Quiet
<1>1. \A type, p, s : Becomes(type, p, s) => UNCHANGED <<checkout, hooks>>
  BY NothingSent DEF Becomes
<1>2. \A p \in Purchases, tier \in Tiers, q \in Purchases \cup {NoPurchase} :
         Buys(p, tier, q) => UNCHANGED <<checkout, hooks>>
  <2>1. SUFFICES ASSUME NEW p \in Purchases, NEW tier \in Tiers,
                        NEW q \in Purchases \cup {NoPurchase}, Buys(p, tier, q)
                 PROVE  UNCHANGED <<checkout, hooks>>
    OBVIOUS
  <2>2. PICK s : s = [st |-> "live", plan |-> tier, period |-> store[p].period + 1,
                      paidTo |-> store[p].period + 1, renews |-> TRUE, linked |-> q]
    OBVIOUS
  <2>3. PICK replaced : replaced = [store EXCEPT ![q].st = "ended"]
    OBVIOUS
  <2>4. CASE q = NoPurchase
    <3>1. PICK notes : notes = {Note("subscribed", p, s)} \cup {}
      OBVIOUS
    <3>2. hooks' = Sent(notes) /\ UNCHANGED checkout
      BY <2>1, <2>2, <2>4, <3>1 DEF Buys
    <3> QED
      BY <3>2, NothingSent
  <2>5. CASE q # NoPurchase
    <3>1. PICK notes : notes = {Note("subscribed", p, s)} \cup {Note("expired", q, replaced[q])}
      OBVIOUS
    <3>2. hooks' = Sent(notes) /\ UNCHANGED checkout
      BY <2>1, <2>2, <2>3, <2>5, <3>1 DEF Buys
    <3> QED
      BY <3>2, NothingSent
  <2> QED
    BY <2>4, <2>5
<1>3. \A p \in Purchases : ~Pays(p)
  BY DEF Pays, Alone, NothingElse
<1>4. UNCHANGED <<checkout, hooks>>
  <2>1. PICK p \in Purchases :
          \/ \E tier \in Tiers, q \in Purchases \cup {NoPurchase} : Buys(p, tier, q)
          \/ \E tier \in Tiers : SwitchesPlan(p, tier)
          \/ Pays(p) \/ PeriodEnds(p) \/ Recovers(p) \/ GivesUp(p) \/ Revokes(p) \/ TurnsRenewal(p)
    BY DEF StoreStep
  <2>2. ASSUME NEW tier \in Tiers, SwitchesPlan(p, tier) PROVE UNCHANGED <<checkout, hooks>>
    BY <1>1, <2>2 DEF SwitchesPlan
  <2>3. CASE PeriodEnds(p)
    BY <1>1, <2>3, Zenon DEF PeriodEnds
  <2>4. CASE Recovers(p)
    BY <1>1, <2>4 DEF Recovers
  <2>5. CASE GivesUp(p)
    BY <1>1, <2>5 DEF GivesUp
  <2>6. CASE Revokes(p)
    BY <1>1, <2>6 DEF Revokes
  <2>7. CASE TurnsRenewal(p)
    BY <1>1, <2>7 DEF TurnsRenewal
  <2> QED
    BY <1>2, <1>3, <2>1, <2>2, <2>3, <2>4, <2>5, <2>6, <2>7
<1> QED
  BY <1>4, SameRows, NoRequest

(* So is what the desks do. *)
LEMMA DesksAreQuiet ==
    ASSUME PlansInv, AccountStep
    PROVE  Quiet
<1>1. ASSUME NEW e \in Experts,
             \/ submitOnboarding(e) \/ submitVerificationDocuments(e)
             \/ resubmitVerificationDocuments(e) \/ getExpertProfile(e) \/ HealWrites(e)
             \/ deleteExpertAccount(e) \/ reject(e) \/ update(e)
      PROVE  Quiet
  <2>1. UNCHANGED <<sub, job, storeVars>>
    BY <1>1
    DEF submitOnboarding, submitVerificationDocuments, resubmitVerificationDocuments, BackToReview,
        getExpertProfile, HealWrites, deleteExpertAccount, reject, update, Desks, subscriptionVars
  <2> QED
    BY <2>1, SameRows, NoRequest DEF storeVars
<1>2. ASSUME NEW e \in Experts, remove(e) PROVE Quiet
  <2>1. \A q \in Purchases : \/ sub'[q] = sub[q]
                             \/ sub'[q].expert = sub[q].expert /\ sub'[q].status # "active"
    BY <1>2, PlansTyped DEF remove, Sub
  <2>2. UNCHANGED <<job, checkout, hooks>>
    BY <1>2 DEF remove, Desks, storeVars
  <2> QED
    BY <2>1, <2>2, RowsEnd, NoRequest
<1>3. ASSUME NEW e \in Experts, NEW j \in Jobs, ApproveReads(j, e) PROVE Quiet
  <2>1. PICK r : r = [IdleJob EXCEPT !.op = "approve", !.e = e, !.retire = ActiveOf(e)]
    OBVIOUS
  <2>2. r.op = "approve" /\ job' = [job EXCEPT ![j] = r] /\ UNCHANGED <<sub, checkout, hooks>>
    BY <1>3, <2>1, BlanksTyped DEF ApproveReads, Begins, storeVars, Job
  <2> QED
    BY <2>2, SameRows, OneQuietRequest
<1>4. ASSUME NEW j \in Jobs, ApproveWrites(j) PROVE Quiet
  BY <1>4, SameRows, OneQuietEnd DEF ApproveWrites, storeVars
<1> QED
  BY <1>1, <1>2, <1>3, <1>4 DEF AccountStep

(* Requests that are made but take no lock yet are quiet. *)
LEMMA RequestsAreQuiet ==
    ASSUME InAppOnly, PlansInv, Alone, NEW j \in Jobs, Requested(j)
    PROVE  Quiet
<1>1. ASSUME NEW r, Begins(j, r), r.op \notin {"activate", "notified", "checkout", "retire"},
             UNCHANGED <<sub, checkout, hooks>>
      PROVE  Quiet
  BY <1>1, SameRows, OneQuietRequest DEF Begins
<1>2. ASSUME NEW e \in Experts, NEW p \in Purchases, verifyPurchase(j, e, p) PROVE Quiet
  <2>1. PICK r : r = [IdleJob EXCEPT !.op = "verify", !.e = e, !.p = p, !.plan = store[p].plan,
                        !.until = PeriodEnd(p), !.cross = CrossStoreRows(e, p)]
    OBVIOUS
  <2>2. r.op = "verify"
    BY <2>1, BlanksTyped DEF Job
  <2> QED
    BY <1>1, <1>2, <2>1, <2>2 DEF verifyPurchase, storeVars
<1>3. ASSUME NEW p \in Purchases, MySubscriptionReads(j, p) PROVE Quiet
  <2>1. PICK r : r = [IdleJob EXCEPT !.op = "expire", !.p = p]
    OBVIOUS
  <2>2. r.op = "expire"
    BY <2>1, BlanksTyped DEF Job
  <2> QED
    BY <1>1, <1>3, <2>1, <2>2 DEF MySubscriptionReads, storeVars
<1>4. ASSUME NEW p \in Purchases, ReconcileReads(j, p) PROVE Quiet
  <2>1. PICK r : r = [IdleJob EXCEPT !.op = "reconcile", !.p = p, !.until = store[p].paidTo,
                                     !.stops = ~store[p].renews]
    OBVIOUS
  <2>2. r.op = "reconcile"
    BY <2>1, BlanksTyped DEF Job
  <2> QED
    BY <1>1, <1>4, <2>1, <2>2 DEF ReconcileReads, storeVars
<1>5. ASSUME NEW p \in Purchases, cancelSubscription(j, p) PROVE Quiet
  <2>1. PICK r : r = [IdleJob EXCEPT !.op = "cancel", !.p = p]
    OBVIOUS
  <2>2. r.op = "cancel"
    BY <2>1, BlanksTyped DEF Job
  <2>3. \A q \in Purchases : \/ sub'[q] = sub[q]
                             \/ sub'[q].expert = sub[q].expert /\ sub'[q].status = sub[q].status
    BY <1>5, PlansTyped DEF cancelSubscription, Sub
  <2> QED
    BY <1>5, <2>1, <2>2, <2>3, RowsEnd, OneQuietRequest DEF cancelSubscription, Begins, storeVars
<1>6. hooks = {}
  BY DEF Alone, NothingElse
<1> QED
  BY <1>2, <1>3, <1>4, <1>5, <1>6 DEF Requested

(* So are the steps of a request that neither take nor hold the locks. *)
LEMMA ContinuingIsQuiet ==
    ASSUME InAppOnly, PlansInv, Alone, NEW j \in Jobs, Continues(j),
           ~ActivateReads(j), ~ActivateCommits(j)
    PROVE  Quiet
<1>1. job[j].op \notin {"notified", "checkout", "retire"}
  BY DEF Alone, NothingElse
<1>2. CASE ActivateUndecided(j)
  BY <1>2, SameRows, OneQuietEnd DEF ActivateUndecided
<1>3. CASE cancelSupersededSubscriptions(j)
  <2>1. PICK q \in job[j].cross :
         /\ job[j].op = "supersede"
         /\ CancelAt(q) \/ UNCHANGED hooks
         /\ Completes(j) \/ Goes(j, [job[j] EXCEPT !.cross = job[j].cross \ {q}])
         /\ UNCHANGED <<sub, checkout>>
    BY <1>3 DEF cancelSupersededSubscriptions
  <2>2. UNCHANGED <<checkout, hooks>>
    BY <2>1, NothingSent DEF CancelAt
  <2>3. PICK r : r = [job[j] EXCEPT !.cross = job[j].cross \ {q}]
    OBVIOUS
  <2>4. r.op = "supersede"
    BY <2>1, <2>3, PlansTyped DEF Job
  <2>5. CASE Completes(j)
    BY <2>1, <2>2, <2>5, SameRows, OneQuietEnd
  <2>6. CASE Goes(j, [job[j] EXCEPT !.cross = job[j].cross \ {q}])
    BY <2>1, <2>2, <2>3, <2>4, <2>6, SameRows, OneQuietRequest DEF Goes
  <2> QED
    BY <2>1, <2>5, <2>6
<1>4. CASE NotificationLists(j) \/ RevokeWrites(j)
  BY <1>4, SameRows, OneQuietEnd DEF NotificationLists, RevokeWrites, storeVars
<1>5. CASE RevokeChecks(j)
  <2>1. PICK r : r = [IdleJob EXCEPT !.op = "unlist", !.e = job[j].e]
    OBVIOUS
  <2>2. r.op = "unlist"
    BY <2>1, BlanksTyped DEF Job
  <2>3. Completes(j) \/ job' = [job EXCEPT ![j] = r]
    BY <1>5, <2>1 DEF RevokeChecks, Goes
  <2> QED
    BY <1>5, <2>2, <2>3, SameRows, OneQuietEnd, OneQuietRequest DEF RevokeChecks, storeVars
<1>6. CASE MySubscriptionExpires(j)
  <2>1. \A q \in Purchases : \/ sub'[q] = sub[q]
                             \/ sub'[q].expert = sub[q].expert /\ sub'[q].status # "active"
    BY <1>6, PlansTyped DEF MySubscriptionExpires, Sub
  <2> QED
    BY <1>6, <2>1, RowsEnd, OneQuietEnd DEF MySubscriptionExpires, storeVars
<1>7. CASE ReconcileWrites(j)
  <2>1. \A q \in Purchases : \/ sub'[q] = sub[q]
                             \/ sub'[q].expert = sub[q].expert /\ sub'[q].status = sub[q].status
    BY <1>7, PlansTyped DEF ReconcileWrites, Sub
  <2> QED
    BY <1>7, <2>1, RowsEnd, OneQuietEnd DEF ReconcileWrites, storeVars
<1>8. CASE CancelTellsStripe(j) \/ CancelUntold(j)
  <2>1. \A type, p, s : Becomes(type, p, s) => UNCHANGED <<checkout, hooks>>
    BY NothingSent DEF Becomes
  <2>2. Completes(j) /\ UNCHANGED <<sub, checkout, hooks>>
    BY <1>8, <2>1 DEF CancelTellsStripe, CancelUntold, storeVars
  <2> QED
    BY <2>2, SameRows, OneQuietEnd
<1> QED
  BY <1>1, <1>2, <1>3, <1>4, <1>5, <1>6, <1>7, <1>8
  DEF Continues, CheckoutCancelsOther, CheckoutRetires, CheckoutCommits, NotificationUpdates

(* So are the night and a restart. *)
LEMMA NightIsQuiet ==
    ASSUME PlansInv, expireSubscriptions \/ SweepWrites \/ BillingRestarts
    PROVE  Quiet
<1>1. CASE expireSubscriptions
  <2>1. \A q \in Purchases : \/ sub'[q] = sub[q]
                             \/ sub'[q].expert = sub[q].expert /\ sub'[q].status # "active"
    BY <1>1, PlansTyped DEF expireSubscriptions, Expired, Sub
  <2> QED
    BY <1>1, <2>1, RowsEnd, NoRequest DEF expireSubscriptions, storeVars
<1>2. CASE SweepWrites
  BY <1>2, SameRows, NoRequest DEF SweepWrites, storeVars
<1>3. CASE BillingRestarts
  <2>1. \A i \in Jobs : job'[i] = job[i] \/ job'[i] = IdleJob
    BY <1>3 DEF BillingRestarts
  <2>2. IdleJob.op = "idle"
    BY BlanksTyped
  <2> QED
    BY <1>3, <2>1, <2>2, SameRows DEF Quiet, BillingRestarts
<1> QED
  BY <1>1, <1>2, <1>3

(* The locks are taken. *)
LEMMA LocksTaken ==
    ASSUME PlansInv, Alone, NEW j \in Jobs, ActivateReads(j)
    PROVE  Alone'
<1>1. CASE Completes(j)
  BY <1>1, SameRows, OneQuietEnd, QuietKeeps DEF ActivateReads, storeVars
<1>2. CASE Goes(j, [job[j] EXCEPT !.op = "activate", !.retire = ActiveOf(job[j].e) \ {job[j].p}])
  <2>1. PICK r : r = [job[j] EXCEPT !.op = "activate", !.retire = ActiveOf(job[j].e) \ {job[j].p}]
    OBVIOUS
  <2>2. /\ r.op = "activate" /\ r.e = job[j].e /\ r.p = job[j].p
        /\ r.retire = ActiveOf(job[j].e) \ {job[j].p}
    BY <2>1, PlansTyped DEF Job
  <2>3. \A i \in Jobs : job'[i] = IF i = j THEN r ELSE job[i]
    BY <1>2, <2>1, PlansTyped DEF Goes
  <2>4. UNCHANGED <<sub, checkout, hooks>> /\ Unlocked(job[j].e, job[j].p)
    BY DEF ActivateReads, storeVars
  <2>5. NothingElse'
    BY <2>2, <2>3, <2>4 DEF Alone, NothingElse
  <2>6. OneEach'
    BY <2>4 DEF Alone, OneEach, ActiveOf, RowsOf
  <2>7. RetiresAll'
    <3> SUFFICES ASSUME NEW i \in Jobs, NEW e \in Experts, job'[i].op = "activate", job'[i].e = e,
                        NEW q \in ActiveOf(e)'
                 PROVE  q = job'[i].p \/ q \in job'[i].retire
      BY DEF RetiresAll
    <3>1. q \in ActiveOf(e)
      BY <2>4, SameRows
    <3>2. CASE i = j
      BY <2>2, <2>3, <3>1, <3>2
    <3>3. CASE i # j
      BY <2>3, <3>1, <3>3 DEF Alone, RetiresAll
    <3> QED
      BY <3>2, <3>3
  <2>8. LocksApart'
    BY <2>2, <2>3, <2>4 DEF Alone, LocksApart, Unlocked
  <2> QED
    BY <2>5, <2>6, <2>7, <2>8 DEF Alone
<1> QED
  BY <1>1, <1>2 DEF ActivateReads

(* The transaction commits: the purchase's row is the one active row of the *)
(* account, and no other account gets one.                                   *)
LEMMA CommitIsAlone ==
    ASSUME PlansInv, Alone, NEW j \in Jobs, ActivateCommits(j)
    PROVE  Alone'
<1>1. PICK e \in Experts, p \in Purchases : e = job[j].e /\ p = job[j].p
  BY PlansTyped DEF Knows, ActivateCommits
<1>2. PICK r : r = [IdleJob EXCEPT !.op = IF job[j].cross = {} THEN "idle" ELSE "supersede",
                                   !.cross = job[j].cross]
  OBVIOUS
<1>3. r.op \in {"idle", "supersede"}
  BY <1>2, BlanksTyped DEF Job
<1>4. \A i \in Jobs : job'[i] = IF i = j THEN r ELSE job[i]
  BY <1>2, PlansTyped DEF ActivateCommits, Goes
<1>5. \A q \in Purchases :
         /\ q = p => sub'[q].expert = e /\ sub'[q].status = "active"
         /\ q # p => /\ sub'[q].expert = sub[q].expert
                     /\ sub'[q].status = "active" =>
                           sub[q].status = "active" /\ ~(q \in job[j].retire /\ sub[q].expert = e)
  BY <1>1, PlansTyped DEF ActivateCommits, Activated, Sub
<1>6. ASSUME NEW f \in Experts, NEW q \in ActiveOf(f)'
      PROVE  (f = e /\ q = p) \/ (f # e /\ q # p /\ q \in ActiveOf(f))
  <2>1. q \in Purchases /\ sub'[q].expert = f /\ sub'[q].status = "active"
    BY <1>6 DEF ActiveOf, RowsOf
  <2>2. CASE q = p
    BY <1>5, <2>1, <2>2
  <2>3. CASE q # p
    <3>1. q \in ActiveOf(f) /\ ~(q \in job[j].retire /\ f = e)
      BY <1>5, <2>1, <2>3 DEF ActiveOf, RowsOf
    <3>2. f # e
      BY <1>1, <2>3, <3>1 DEF Alone, RetiresAll, ActivateCommits
    <3> QED
      BY <2>3, <3>1, <3>2
  <2> QED
    BY <2>2, <2>3
<1>7. NothingElse'
  BY <1>3, <1>4 DEF Alone, NothingElse, ActivateCommits, storeVars
<1>8. OneEach'
  BY <1>6 DEF Alone, OneEach
<1>9. RetiresAll'
  BY <1>3, <1>4, <1>6, <1>1 DEF Alone, RetiresAll, LocksApart, ActivateCommits
<1>10. LocksApart'
  BY <1>3, <1>4 DEF Alone, LocksApart
<1> QED
  BY <1>7, <1>8, <1>9, <1>10 DEF Alone

(* Every step. *)
LEMMA AloneKept ==
    ASSUME InAppOnly, PlansInv, Alone, [Next]_vars
    PROVE  Alone'
<1>1. CASE StoreStep /\ UNCHANGED <<sub, profile, job, sweep, heals>>
  BY <1>1, StoreIsQuiet, QuietKeeps
<1>2. CASE AccountStep
  BY <1>2, DesksAreQuiet, QuietKeeps
<1>3. ASSUME NEW j \in Jobs, Requested(j) PROVE Alone'
  BY <1>3, RequestsAreQuiet, QuietKeeps
<1>4. ASSUME NEW j \in Jobs, Continues(j) PROVE Alone'
  BY <1>4, ContinuingIsQuiet, LocksTaken, CommitIsAlone, QuietKeeps
<1>5. CASE BillingStep
  <2>1. ASSUME NEW e, NEW p, NEW tier PROVE ~createStripeCheckoutSession(e, p, tier)
    BY DEF createStripeCheckoutSession, InAppOnly
  <2> QED
    BY <1>3, <1>4, <1>5, <2>1, NightIsQuiet, QuietKeeps DEF BillingStep
<1>6. CASE UNCHANGED vars
  <2>1. UNCHANGED <<sub, job, checkout, hooks>>
    BY <1>6 DEF vars, subscriptionVars, storeVars
  <2> QED
    BY <2>1, SameRows, NoRequest, QuietKeeps
<1> QED
  BY <1>1, <1>2, <1>5, <1>6 DEF Next

(* However many in-app purchases are verified at the same time, and whatever *)
(* was read before the locks were taken, an account has one active row.      *)
THEOREM OnePlanIsActive == ASSUME InAppOnly PROVE Spec => []OneActiveRow
<1>1. Alone => OneActiveRow
  <2> SUFFICES ASSUME Alone, NEW e \in Experts PROVE Cardinality(ActiveOf(e)) <= 1
    BY DEF OneActiveRow
  <2>1. CASE ActiveOf(e) = {}
    BY <2>1, FS_EmptySet
  <2>2. ASSUME NEW p \in ActiveOf(e) PROVE Cardinality(ActiveOf(e)) <= 1
    <3>1. ActiveOf(e) = {p}
      BY DEF Alone, OneEach
    <3> QED
      BY <3>1, FS_Singleton
  <2> QED
    BY <2>1, <2>2
<1>2. PlansInv /\ Alone /\ [Next]_vars => (PlansInv /\ Alone)'
  BY PlansKept, AloneKept
<1>3. Init => PlansInv /\ Alone
  BY PlansStart, AloneStarts
<1> QED
  BY <1>1, <1>2, <1>3, PTL DEF Spec

-----------------------------------------------------------------------------
(* A purchase that is paid is not taken away.                               *)

\* The requests and events LivePurchaseStays is about: in-app purchases whose
\* payments do not fail, and no repair of a row while it is claimed.  A store
\* that recovers a failed payment, or a repair that fetches a late renewal,
\* revives a lapsed row that another account has been granted.
NothingRevives == InAppOnly /\ "look" \notin Traffic /\ "fail" \notin StoreEvents

\* What the stores keep is exact: live means paid for the current period.
StoresExact ==
    \A p \in Purchases :
       /\ store[p].st \notin {"grace", "hold"} /\ store[p].paidTo <= store[p].period
       /\ store[p].st = "live" => store[p].paidTo = store[p].period

\* No row is paid for longer than the store has come.
RowsPaid ==
    \A p \in Purchases :
       sub[p].status \notin {"grace_period", "on_hold"} /\ sub[p].until <= store[p].period

ClaimsPaid ==
    \A j \in Jobs, p \in Purchases :
       /\ job[j].op # "reconcile"
       /\ job[j].op \in {"verify", "activate"} /\ job[j].p = p => job[j].until <= store[p].period

\* What was checked of the owner once the locks were taken is still so.
ClaimsFounded ==
    \A j \in Jobs, e \in Experts, p \in Purchases :
       job[j].op = "activate" /\ job[j].e = e /\ job[j].p = p => OwnerHasLapsed(e, p)

Honest == StoresExact /\ RowsPaid /\ ClaimsPaid /\ ClaimsFounded

RowsFade ==
    \A p \in Purchases : /\ sub'[p].expert = sub[p].expert /\ sub'[p].until = sub[p].until
                         /\ sub'[p].status \in {sub[p].status, "canceled", "expired"}

StoresMove ==
    \A p \in Purchases : \/ store'[p].period = store[p].period + 1
                         \/ store'[p].period = store[p].period /\ (StoreLapsed(p) => StoreLapsed(p)')

ClaimsStay ==
    \A j \in Jobs : job'[j] = job[j] \/ job'[j].op \notin {"verify", "activate", "reconcile"}

\* A step that takes nothing up: rows run out, stores move on.
Fades == RowsFade /\ StoresMove /\ StoresExact' /\ ClaimsStay

(* Nothing is bought yet. *)
LEMMA HonestStarts == Init => Honest
<1> SUFFICES ASSUME Init PROVE Honest
  OBVIOUS
<1>1. \A j \in Jobs : job[j].op = "idle"
  BY BlanksTyped DEF Init, SubscriptionsInit, RequestsIdle
<1>2. \A p \in Purchases : store[p] = Unsold /\ sub[p] = NoSub
  BY DEF Init, SubscriptionsInit, TableInit, StoresInit
<1>3. StoresExact /\ RowsPaid
  <2>1. Unsold.st = "none" /\ Unsold.period = 0 /\ Unsold.paidTo = 0
    BY DEF Unsold
  <2>2. NoSub.status = "none" /\ NoSub.until = 0
    BY DEF NoSub
  <2> QED
    BY <1>2, <2>1, <2>2 DEF StoresExact, RowsPaid
<1>4. ClaimsPaid /\ ClaimsFounded
  BY <1>1 DEF ClaimsPaid, ClaimsFounded
<1> QED
  BY <1>3, <1>4 DEF Honest

(* A purchase whose owner had lapsed stays so while rows only run out. *)
LEMMA StillLapsed ==
    ASSUME PlansInv, PlansInv', Honest, RowsFade, StoresMove, NEW e \in Experts, NEW p \in Purchases,
           OwnerHasLapsed(e, p)
    PROVE  OwnerHasLapsed(e, p)'
<1>1. /\ sub[p].until \in Nat /\ store[p].period \in Nat /\ store'[p].period \in Nat
      /\ sub[p].until <= store[p].period /\ sub[p].status \notin {"grace_period", "on_hold"}
  BY PlansTyped DEF PlansInv, StoresSound, StoresTypeOK, TableTypeOK, Sub, Store, Honest, RowsPaid
<1>2. /\ sub'[p].expert = sub[p].expert /\ sub'[p].until = sub[p].until
      /\ sub'[p].status \in {sub[p].status, "canceled", "expired"}
  BY DEF RowsFade
<1>3. \/ store'[p].period = store[p].period + 1
      \/ store'[p].period = store[p].period /\ (StoreLapsed(p) => StoreLapsed(p)')
  BY DEF StoresMove
<1>4. entitled(p, sub[p])' <=> sub'[p].status = "active" /\ sub'[p].until >= store'[p].period
  BY <1>1, <1>2 DEF entitled, hasActiveEntitlement, ENTITLED_STATUSES
<1>5. entitled(p, sub[p]) <=> sub[p].status = "active" /\ sub[p].until >= store[p].period
  BY <1>1 DEF entitled, hasActiveEntitlement, ENTITLED_STATUSES
<1>6. CASE sub[p].expert \in {e, NoExpert}
  BY <1>2, <1>6 DEF OwnerHasLapsed
<1>7. CASE ~entitled(p, sub[p])
  <2>1. ~entitled(p, sub[p])'
    BY <1>1, <1>2, <1>3, <1>4, <1>5, <1>7
  <2> QED
    BY <2>1 DEF OwnerHasLapsed
<1>8. CASE StoreLapsed(p)
  <2>1. ~entitled(p, sub[p])' \/ StoreLapsed(p)'
    BY <1>1, <1>2, <1>3, <1>4, <1>8
  <2> QED
    BY <2>1 DEF OwnerHasLapsed
<1> QED
  BY <1>6, <1>7, <1>8 DEF OwnerHasLapsed

(* Rows that only run out stay within what is paid. *)
LEMMA RowsStayPaid ==
    ASSUME PlansInv, PlansInv', Honest, RowsFade, StoresMove
    PROVE  RowsPaid'
<1> SUFFICES ASSUME NEW p \in Purchases
             PROVE  sub'[p].status \notin {"grace_period", "on_hold"} /\ sub'[p].until <= store'[p].period
  BY DEF RowsPaid
<1>1. /\ sub[p].until \in Nat /\ store[p].period \in Nat
      /\ sub[p].until <= store[p].period /\ sub[p].status \notin {"grace_period", "on_hold"}
  BY PlansTyped DEF Sub, Store, Honest, RowsPaid
<1> QED
  BY <1>1 DEF RowsFade, StoresMove

(* Where nothing is taken up, nothing becomes unfounded. *)
LEMMA FadesKeep ==
    ASSUME PlansInv, PlansInv', Honest, Fades
    PROVE  Honest'
<1>1. RowsPaid'
  BY RowsStayPaid DEF Fades
<1>2. ClaimsPaid'
  <2> SUFFICES ASSUME NEW j \in Jobs, NEW p \in Purchases
               PROVE  /\ job'[j].op # "reconcile"
                      /\ job'[j].op \in {"verify", "activate"} /\ job'[j].p = p
                            => job'[j].until <= store'[p].period
    BY DEF ClaimsPaid
  <2>1. job[j].until \in Nat /\ store[p].period \in Nat
    BY PlansTyped DEF Job, Store
  <2> QED
    BY <2>1 DEF Honest, ClaimsPaid, Fades, ClaimsStay, StoresMove
<1>3. ClaimsFounded'
  <2> SUFFICES ASSUME NEW j \in Jobs, NEW e \in Experts, NEW p \in Purchases,
                      job'[j].op = "activate", job'[j].e = e, job'[j].p = p
               PROVE  OwnerHasLapsed(e, p)'
    BY DEF ClaimsFounded
  <2>1. OwnerHasLapsed(e, p)
    BY DEF Honest, ClaimsFounded, Fades, ClaimsStay
  <2> QED
    BY <2>1, StillLapsed DEF Fades
<1> QED
  BY <1>1, <1>2, <1>3 DEF Honest, Fades

(* Where the stores do not move. *)
LEMMA SameStores ==
    ASSUME PlansInv, Honest, UNCHANGED store
    PROVE  StoresMove /\ StoresExact'
BY DEF StoresMove, StoresExact, StoreLapsed, Honest

(* Rows that are left alone. *)
LEMMA RowsStand == UNCHANGED sub => RowsFade
BY DEF RowsFade

(* One request ends, or goes to a step that claims nothing. *)
LEMMA OneClaimless ==
    ASSUME PlansInv, NEW j \in Jobs, NEW r, r.op \notin {"verify", "activate", "reconcile"},
           Completes(j) \/ Goes(j, r)
    PROVE  ClaimsStay
<1>1. CASE Completes(j)
  BY <1>1, PlansTyped, BlanksTyped DEF ClaimsStay, Completes
<1>2. CASE Goes(j, r)
  BY <1>2, PlansTyped DEF ClaimsStay, Goes
<1> QED
  BY <1>1, <1>2

(* One request ends. *)
LEMMA OneEnds ==
    ASSUME PlansInv, NEW j \in Jobs, Completes(j)
    PROVE  ClaimsStay
BY PlansTyped, BlanksTyped DEF ClaimsStay, Completes

-----------------------------------------------------------------------------
(* The stores.                                                              *)

(* One purchase changes at its store and stays exact. *)
LEMMA OneStoreMoves ==
    ASSUME PlansInv, Honest, NEW p \in Purchases, NEW s, store' = [store EXCEPT ![p] = s],
           s.st \notin {"grace", "hold"}, s.paidTo <= s.period, s.st = "live" => s.paidTo = s.period,
           \/ s.period = store[p].period + 1
           \/ s.period = store[p].period /\ (StoreLapsed(p) => s.st \in {"ended", "revoked"} \/ s.paidTo < s.period)
    PROVE  StoresMove /\ StoresExact'
<1>1. \A q \in Purchases : store'[q] = IF q = p THEN s ELSE store[q]
  BY PlansTyped
<1>2. StoresMove
  BY <1>1 DEF StoresMove, StoreLapsed
<1>3. StoresExact'
  BY <1>1 DEF StoresExact, Honest
<1> QED
  BY <1>2, <1>3

(* A live purchase is bought, alone or for another one. *)
LEMMA BuyingMoves ==
    ASSUME PlansInv, Honest, NEW p \in Purchases, NEW tier \in Tiers,
           NEW q \in Purchases \cup {NoPurchase}, Buys(p, tier, q)
    PROVE  StoresMove /\ StoresExact'
<1>1. PICK s : s = [st |-> "live", plan |-> tier, period |-> store[p].period + 1,
                    paidTo |-> store[p].period + 1, renews |-> TRUE, linked |-> q]
  OBVIOUS
<1>2. /\ store[p].period \in Nat /\ s.st = "live"
      /\ s.period = store[p].period + 1 /\ s.paidTo = store[p].period + 1
  BY <1>1, PlansTyped DEF Store
<1>3. s.st \notin {"grace", "hold"} /\ s.paidTo <= s.period /\ s.paidTo = s.period
  BY <1>2
<1>5. CASE q = NoPurchase
  <2>1. store' = [store EXCEPT ![p] = s]
    BY <1>1, <1>5 DEF Buys
  <2> QED
    BY <1>2, <1>3, <2>1, OneStoreMoves
<1>4. CASE q # NoPurchase
  <2>1. PICK t : t = [store[q] EXCEPT !.st = "ended"]
    OBVIOUS
  <2>2. q \in Purchases /\ q # p /\ store' = [[store EXCEPT ![q].st = "ended"] EXCEPT ![p] = s]
    BY <1>1, <1>4 DEF Buys
  <2>3. \A x \in Purchases : store'[x] = IF x = p THEN s ELSE IF x = q THEN t ELSE store[x]
    BY <2>1, <2>2, PlansTyped
  <2>4. t.st = "ended" /\ t.period = store[q].period /\ t.paidTo = store[q].paidTo
    BY <2>1, <2>2, PlansTyped DEF Store
  <2>5. StoresMove
    BY <1>2, <2>3, <2>4 DEF StoresMove, StoreLapsed
  <2>6. StoresExact'
    <3>1. \A x \in Purchases \ {p, q} : store'[x] = store[x]
      BY <2>3
    <3>2. store'[p] = s /\ store'[q] = t
      BY <2>2, <2>3
    <3>3. t.paidTo <= t.period
      BY <2>2, <2>4 DEF StoresExact, Honest
    <3> QED
      BY <1>3, <2>4, <3>1, <3>2, <3>3 DEF StoresExact, Honest
  <2> QED
    BY <2>5, <2>6
<1> QED
  BY <1>4, <1>5

(* What else the stores do by themselves. *)
LEMMA StoreMovesOn ==
    ASSUME NothingRevives, PlansInv, Alone, Honest, StoreStep
    PROVE  StoresMove /\ StoresExact'
<1>1. PICK p \in Purchases :
        \/ \E tier \in Tiers, q \in Purchases \cup {NoPurchase} : Buys(p, tier, q)
        \/ \E tier \in Tiers : SwitchesPlan(p, tier)
        \/ Pays(p) \/ PeriodEnds(p) \/ Recovers(p) \/ GivesUp(p) \/ Revokes(p) \/ TurnsRenewal(p)
  BY DEF StoreStep
<1>2. /\ store[p] \in Store /\ store[p].period \in Nat /\ store[p].paidTo \in Nat
      /\ store[p].st \notin {"grace", "hold"} /\ store[p].paidTo <= store[p].period
      /\ store[p].st = "live" => store[p].paidTo = store[p].period
  BY PlansTyped DEF Store, Honest, StoresExact
<1>3. ~Pays(p) /\ ~Recovers(p) /\ ~GivesUp(p)
  BY <1>2 DEF Pays, Recovers, GivesUp, Alone, NothingElse
<1>4. ASSUME NEW tier \in Tiers, SwitchesPlan(p, tier) PROVE StoresMove /\ StoresExact'
  <2>1. PICK s : s = [store[p] EXCEPT !.plan = tier]
    OBVIOUS
  <2>2. s.st = store[p].st /\ s.period = store[p].period /\ s.paidTo = store[p].paidTo
    BY <1>2, <2>1 DEF Store
  <2>3. store' = [store EXCEPT ![p] = s]
    BY <1>4, <2>1 DEF SwitchesPlan, Becomes
  <2> QED
    BY <1>2, <2>2, <2>3, OneStoreMoves DEF StoreLapsed
<1>5. CASE PeriodEnds(p)
  <2>1. PICK s : s = IF store[p].renews
                     THEN [store[p] EXCEPT !.period = store[p].period + 1, !.paidTo = store[p].period + 1]
                     ELSE [store[p] EXCEPT !.period = store[p].period + 1, !.st = "ended"]
    OBVIOUS
  <2>2. store[p].st = "live" /\ store' = [store EXCEPT ![p] = s]
    <3>1. PICK next : next = [store[p] EXCEPT !.period = store[p].period + 1]
      OBVIOUS
    <3>2. next.period = store[p].period + 1
      BY <1>2, <3>1 DEF Store
    <3>3. "fail" \notin StoreEvents
      BY DEF NothingRevives
    <3>4. \/ store[p].renews /\ store' = [store EXCEPT ![p] = [next EXCEPT !.paidTo = next.period]]
          \/ ~store[p].renews /\ store' = [store EXCEPT ![p] = [next EXCEPT !.st = "ended"]]
      BY <1>5, <3>1, <3>3 DEF PeriodEnds, Becomes
    <3> QED
      BY <1>2, <1>5, <2>1, <3>1, <3>2, <3>4 DEF PeriodEnds, Store
  <2>3. /\ s.period = store[p].period + 1
        /\ \/ s.st = "ended" /\ s.paidTo = store[p].paidTo
           \/ s.st = store[p].st /\ s.paidTo = store[p].period + 1
    BY <1>2, <2>1, <2>2 DEF Store
  <2>4. s.st \notin {"grace", "hold"} /\ s.paidTo <= s.period /\ (s.st = "live" => s.paidTo = s.period)
    BY <1>2, <2>2, <2>3
  <2> QED
    BY <2>2, <2>3, <2>4, OneStoreMoves
<1>6. CASE Revokes(p)
  <2>1. PICK s : s = [store[p] EXCEPT !.st = "revoked", !.renews = FALSE]
    OBVIOUS
  <2>2. s.st = "revoked" /\ s.period = store[p].period /\ s.paidTo = store[p].paidTo
    BY <1>2, <2>1 DEF Store
  <2>3. store' = [store EXCEPT ![p] = s]
    BY <1>6, <2>1 DEF Revokes, Becomes
  <2> QED
    BY <1>2, <2>2, <2>3, OneStoreMoves
<1>7. CASE TurnsRenewal(p)
  <2>1. PICK s : s = [store[p] EXCEPT !.renews = ~store[p].renews]
    OBVIOUS
  <2>2. s.st = store[p].st /\ s.period = store[p].period /\ s.paidTo = store[p].paidTo
    BY <1>2, <2>1 DEF Store
  <2>3. store' = [store EXCEPT ![p] = s]
    BY <1>7, <2>1 DEF TurnsRenewal, Becomes
  <2> QED
    BY <1>2, <2>2, <2>3, OneStoreMoves DEF StoreLapsed
<1> QED
  BY <1>1, <1>3, <1>4, <1>5, <1>6, <1>7, BuyingMoves

(* A purchase is cancelled at its store. *)
LEMMA CancellingMoves ==
    ASSUME PlansInv, Honest, NEW p \in Purchases, CancelAt(p)
    PROVE  StoresMove /\ StoresExact'
<1>1. /\ store[p] \in Store /\ store[p].period \in Nat /\ store[p].paidTo \in Nat
      /\ store[p].st \notin {"grace", "hold"} /\ store[p].paidTo <= store[p].period
      /\ store[p].st = "live" => store[p].paidTo = store[p].period
  BY PlansTyped DEF Store, Honest, StoresExact
<1>2. PICK s : s = IF StoreOf[p] = "google" THEN [store[p] EXCEPT !.renews = FALSE]
                   ELSE [store[p] EXCEPT !.st = "ended", !.renews = FALSE]
  OBVIOUS
<1>3. /\ s.period = store[p].period /\ s.paidTo = store[p].paidTo
      /\ s.st \in {store[p].st, "ended"}
  BY <1>1, <1>2 DEF Store
<1>4. UNCHANGED store \/ store' = [store EXCEPT ![p] = s]
  BY <1>2 DEF CancelAt
<1> QED
  BY <1>1, <1>3, <1>4, SameStores, OneStoreMoves DEF StoreLapsed

-----------------------------------------------------------------------------
(* The steps of the program.                                                *)

(* What the desks do claims nothing. *)
LEMMA DesksFade ==
    ASSUME PlansInv, Honest, AccountStep
    PROVE  Fades
<1>0. UNCHANGED store => StoresMove /\ StoresExact'
  BY SameStores
<1>1. ASSUME NEW e \in Experts,
             \/ submitOnboarding(e) \/ submitVerificationDocuments(e)
             \/ resubmitVerificationDocuments(e) \/ getExpertProfile(e) \/ HealWrites(e)
             \/ deleteExpertAccount(e) \/ reject(e) \/ update(e)
      PROVE  Fades
  <2>1. UNCHANGED <<sub, job, store>>
    BY <1>1
    DEF submitOnboarding, submitVerificationDocuments, resubmitVerificationDocuments, BackToReview,
        getExpertProfile, HealWrites, deleteExpertAccount, reject, update, Desks, subscriptionVars,
        storeVars
  <2> QED
    BY <1>0, <2>1, RowsStand DEF Fades, ClaimsStay
<1>2. ASSUME NEW e \in Experts, remove(e) PROVE Fades
  <2>1. RowsFade
    BY <1>2, PlansTyped DEF remove, Sub, RowsFade
  <2>2. UNCHANGED <<job, store>>
    BY <1>2 DEF remove, Desks, storeVars
  <2> QED
    BY <1>0, <2>1, <2>2 DEF Fades, ClaimsStay
<1>3. ASSUME NEW e \in Experts, NEW j \in Jobs, ApproveReads(j, e) PROVE Fades
  <2>1. PICK r : r = [IdleJob EXCEPT !.op = "approve", !.e = e, !.retire = ActiveOf(e)]
    OBVIOUS
  <2>2. r.op = "approve" /\ Goes(j, r) /\ UNCHANGED <<sub, store>>
    BY <1>3, <2>1, BlanksTyped DEF ApproveReads, Begins, Goes, storeVars, Job
  <2> QED
    BY <1>0, <2>2, RowsStand, OneClaimless DEF Fades
<1>4. ASSUME NEW j \in Jobs, ApproveWrites(j) PROVE Fades
  BY <1>0, <1>4, RowsStand, OneEnds DEF ApproveWrites, storeVars, Fades
<1> QED
  BY <1>1, <1>2, <1>3, <1>4 DEF AccountStep

(* A verification asks the store, which vouches for no more than is paid. *)
LEMMA VerifyingIsHonest ==
    ASSUME PlansInv, PlansInv', Honest, NEW j \in Jobs, NEW e \in Experts, NEW p \in Purchases,
           verifyPurchase(j, e, p)
    PROVE  Honest' /\ RowsFade
<1>1. PICK r : r = [IdleJob EXCEPT !.op = "verify", !.e = e, !.p = p, !.plan = store[p].plan,
                        !.until = PeriodEnd(p), !.cross = CrossStoreRows(e, p)]
  OBVIOUS
<1>2. r.op = "verify" /\ r.p = p /\ r.until = PeriodEnd(p)
  BY <1>1, BlanksTyped DEF Job
<1>3. PeriodEnd(p) <= store[p].period
  BY PlansTyped DEF PeriodEnd, Honest, StoresExact, Store
<1>4. \A i \in Jobs : job'[i] = IF i = j THEN r ELSE job[i]
  BY <1>1, PlansTyped DEF verifyPurchase, Begins
<1>5. UNCHANGED <<sub, store>>
  BY DEF verifyPurchase, storeVars
<1>6. StoresExact' /\ RowsPaid'
  BY <1>5 DEF Honest, StoresExact, RowsPaid
<1>7. ClaimsPaid'
  BY <1>2, <1>3, <1>4, <1>5 DEF Honest, ClaimsPaid
<1>8. ClaimsFounded'
  BY <1>2, <1>4, <1>5
  DEF Honest, ClaimsFounded, OwnerHasLapsed, entitled, StoreLapsed
<1> QED
  BY <1>5, <1>6, <1>7, <1>8, RowsStand DEF Honest

(* The other requests claim nothing. *)
LEMMA RequestsFade ==
    ASSUME NothingRevives, PlansInv, Alone, Honest, NEW j \in Jobs, Requested(j),
           \A e \in Experts, p \in Purchases : ~verifyPurchase(j, e, p)
    PROVE  Fades
<1>1. PICK p \in Purchases : cancelSubscription(j, p)
  <2>1. \A p \in Purchases : ~MySubscriptionReads(j, p) /\ ~ReconcileReads(j, p)
    BY DEF MySubscriptionReads, ReconcileReads, NothingRevives
  <2>2. hooks = {}
    BY DEF Alone, NothingElse
  <2> QED
    BY <2>1, <2>2 DEF Requested
<1>2. PICK r : r = [IdleJob EXCEPT !.op = "cancel", !.p = p]
  OBVIOUS
<1>3. r.op = "cancel"
  BY <1>2, BlanksTyped DEF Job
<1>4. Goes(j, r) /\ UNCHANGED store
  BY <1>1, <1>2 DEF cancelSubscription, Begins, Goes, storeVars
<1>5. RowsFade
  BY <1>1, PlansTyped DEF cancelSubscription, Sub, RowsFade
<1> QED
  BY <1>3, <1>4, <1>5, SameStores, OneClaimless DEF Fades

(* The steps of a request that neither take the locks nor commit. *)
LEMMA ContinuingFades ==
    ASSUME NothingRevives, PlansInv, Alone, Honest, NEW j \in Jobs, Continues(j),
           ~ActivateReads(j), ~ActivateCommits(j)
    PROVE  Fades
<1>0. UNCHANGED store => StoresMove /\ StoresExact'
  BY SameStores
<1>1. job[j].op \notin {"notified", "checkout", "retire", "reconcile"}
  <2>1. Purchases # {} => job[j].op # "reconcile"
    BY DEF Honest, ClaimsPaid
  <2>2. job[j].op = "reconcile" => job[j].p \in Purchases
    BY PlansTyped DEF Knows
  <2> QED
    BY <2>1, <2>2 DEF Alone, NothingElse
<1>2. CASE ActivateUndecided(j)
  BY <1>0, <1>2, RowsStand, OneEnds DEF ActivateUndecided, Fades
<1>3. CASE cancelSupersededSubscriptions(j)
  <2>1. PICK q \in job[j].cross :
         /\ job[j].op = "supersede"
         /\ CancelAt(q) \/ UNCHANGED store
         /\ Completes(j) \/ Goes(j, [job[j] EXCEPT !.cross = job[j].cross \ {q}])
         /\ UNCHANGED sub
    BY <1>3 DEF cancelSupersededSubscriptions
  <2>2. q \in Purchases
    BY <2>1, PlansTyped DEF Job
  <2>3. StoresMove /\ StoresExact'
    BY <1>0, <2>1, <2>2, CancellingMoves
  <2>4. PICK r : r = [job[j] EXCEPT !.cross = job[j].cross \ {q}]
    OBVIOUS
  <2>5. r.op = "supersede"
    BY <2>1, <2>4, PlansTyped DEF Job
  <2>6. ClaimsStay
    BY <2>1, <2>4, <2>5, OneClaimless
  <2> QED
    BY <2>1, <2>3, <2>6, RowsStand DEF Fades
<1>4. CASE NotificationLists(j) \/ RevokeWrites(j)
  BY <1>0, <1>4, RowsStand, OneEnds DEF NotificationLists, RevokeWrites, storeVars, Fades
<1>5. CASE RevokeChecks(j)
  <2>1. PICK r : r = [IdleJob EXCEPT !.op = "unlist", !.e = job[j].e]
    OBVIOUS
  <2>2. r.op = "unlist"
    BY <2>1, BlanksTyped DEF Job
  <2>3. Completes(j) \/ Goes(j, r)
    BY <1>5, <2>1 DEF RevokeChecks
  <2> QED
    BY <1>0, <1>5, <2>2, <2>3, RowsStand, OneClaimless DEF RevokeChecks, storeVars, Fades
<1>6. CASE MySubscriptionExpires(j)
  <2>1. RowsFade
    BY <1>6, PlansTyped DEF MySubscriptionExpires, Sub, RowsFade
  <2> QED
    BY <1>0, <1>6, <2>1, OneEnds DEF MySubscriptionExpires, storeVars, Fades
<1>7. CASE CancelTellsStripe(j)
  <2>1. PICK p \in Purchases : p = job[j].p
    BY <1>7, PlansTyped DEF Knows, CancelTellsStripe
  <2>2. PICK s : s = [store[p] EXCEPT !.renews = FALSE]
    OBVIOUS
  <2>3. UNCHANGED store \/ store' = [store EXCEPT ![p] = s]
    BY <1>7, <2>1, <2>2 DEF CancelTellsStripe, Becomes, storeVars
  <2>4. s.st = store[p].st /\ s.period = store[p].period /\ s.paidTo = store[p].paidTo
    BY <2>2, PlansTyped DEF Store
  <2>5. StoresMove /\ StoresExact'
    BY <1>0, <2>3, <2>4, OneStoreMoves DEF StoreLapsed, Honest, StoresExact
  <2> QED
    BY <1>7, <2>5, RowsStand, OneEnds DEF CancelTellsStripe, Fades
<1>8. CASE CancelUntold(j)
  BY <1>0, <1>8, RowsStand, OneEnds DEF CancelUntold, Fades
<1> QED
  BY <1>1, <1>2, <1>3, <1>4, <1>5, <1>6, <1>7, <1>8
  DEF Continues, CheckoutCancelsOther, CheckoutRetires, CheckoutCommits, NotificationUpdates,
      ReconcileWrites

(* The night and a restart. *)
LEMMA NightFades ==
    ASSUME PlansInv, Honest, expireSubscriptions \/ SweepWrites \/ BillingRestarts
    PROVE  Fades
<1>0. UNCHANGED store => StoresMove /\ StoresExact'
  BY SameStores
<1>1. CASE expireSubscriptions
  <2>1. RowsFade
    BY <1>1, PlansTyped DEF expireSubscriptions, Expired, Sub, RowsFade
  <2> QED
    BY <1>0, <1>1, <2>1 DEF expireSubscriptions, storeVars, Fades, ClaimsStay
<1>2. CASE SweepWrites
  BY <1>0, <1>2, RowsStand DEF SweepWrites, storeVars, Fades, ClaimsStay
<1>3. CASE BillingRestarts
  <2>1. \A i \in Jobs : job'[i] = job[i] \/ job'[i] = IdleJob
    BY <1>3 DEF BillingRestarts
  <2>2. ClaimsStay
    BY <2>1, BlanksTyped DEF ClaimsStay
  <2> QED
    BY <1>0, <1>3, <2>2, RowsStand DEF BillingRestarts, Fades
<1> QED
  BY <1>1, <1>2, <1>3

(* The locks are taken, and under them the owner is looked at. *)
LEMMA LocksTakenHonestly ==
    ASSUME PlansInv, PlansInv', Honest, NEW j \in Jobs, ActivateReads(j)
    PROVE  Honest' /\ RowsFade
<1>0. UNCHANGED <<sub, store>>
  BY DEF ActivateReads, storeVars
<1>1. CASE Completes(j)
  BY <1>0, <1>1, RowsStand, SameStores, OneEnds, FadesKeep DEF Fades
<1>2. CASE ~Completes(j)
  <2>1. PICK r : r = [job[j] EXCEPT !.op = "activate", !.retire = ActiveOf(job[j].e) \ {job[j].p}]
    OBVIOUS
  <2>2. /\ r.op = "activate" /\ r.e = job[j].e /\ r.p = job[j].p /\ r.until = job[j].until
    BY <2>1, PlansTyped DEF Job
  <2>3. /\ job[j].op = "verify" /\ OwnerHasLapsed(job[j].e, job[j].p)
        /\ job' = [job EXCEPT ![j] = r]
    BY <1>2, <2>1 DEF ActivateReads, Goes
  <2>4. \A i \in Jobs : job'[i] = IF i = j THEN r ELSE job[i]
    BY <2>3, PlansTyped
  <2>5. StoresExact' /\ RowsPaid'
    BY <1>0 DEF Honest, StoresExact, RowsPaid
  <2>6. ClaimsPaid'
    BY <1>0, <2>2, <2>3, <2>4 DEF Honest, ClaimsPaid
  <2>7. ClaimsFounded'
    <3> SUFFICES ASSUME NEW i \in Jobs, NEW e \in Experts, NEW p \in Purchases,
                        job'[i].op = "activate", job'[i].e = e, job'[i].p = p
                 PROVE  OwnerHasLapsed(e, p)'
      BY DEF ClaimsFounded
    <3>1. OwnerHasLapsed(e, p)
      BY <2>2, <2>3, <2>4 DEF Honest, ClaimsFounded
    <3> QED
      BY <1>0, <3>1 DEF OwnerHasLapsed, entitled, StoreLapsed
  <2> QED
    BY <1>0, <2>5, <2>6, <2>7, RowsStand DEF Honest
<1> QED
  BY <1>1, <1>2

\* What LivePurchaseStays asks of a step
OwnersStay ==
    \A p \in Purchases :
       (sub[p].expert # NoExpert /\ sub'[p].expert # sub[p].expert)
          => ~entitled(p, sub[p]) \/ StoreLapsed(p)

(* The transaction commits: the row moves only from an owner who had lapsed. *)
LEMMA CommitIsHonest ==
    ASSUME PlansInv, PlansInv', Alone, Honest, NEW j \in Jobs, ActivateCommits(j)
    PROVE  Honest' /\ OwnersStay
<1>1. PICK e \in Experts, p \in Purchases : e = job[j].e /\ p = job[j].p
  BY PlansTyped DEF Knows, ActivateCommits
<1>2. PICK r : r = [IdleJob EXCEPT !.op = IF job[j].cross = {} THEN "idle" ELSE "supersede",
                                   !.cross = job[j].cross]
  OBVIOUS
<1>3. r.op \in {"idle", "supersede"}
  BY <1>2, BlanksTyped DEF Job
<1>4. \A i \in Jobs : job'[i] = IF i = j THEN r ELSE job[i]
  BY <1>2, PlansTyped DEF ActivateCommits, Goes
<1>5. UNCHANGED store /\ job[j].op = "activate"
  BY DEF ActivateCommits, storeVars
<1>6. \A q \in Purchases :
         /\ q = p => sub'[q].expert = e /\ sub'[q].status = "active" /\ sub'[q].until = job[j].until
         /\ q # p => /\ sub'[q].expert = sub[q].expert /\ sub'[q].until = sub[q].until
                     /\ sub'[q].status \in {sub[q].status, "canceled"}
  BY <1>1, PlansTyped DEF ActivateCommits, Activated, Sub
<1>7. OwnerHasLapsed(e, p) /\ job[j].until <= store[p].period
  BY <1>1, <1>5 DEF Honest, ClaimsFounded, ClaimsPaid
<1>8. OwnersStay
  BY <1>6, <1>7 DEF OwnersStay, OwnerHasLapsed
<1>9. StoresExact'
  BY <1>5 DEF Honest, StoresExact
<1>10. RowsPaid'
  BY <1>5, <1>6, <1>7 DEF Honest, RowsPaid
<1>11. ClaimsPaid'
  BY <1>3, <1>4, <1>5 DEF Honest, ClaimsPaid
<1>12. ClaimsFounded'
  <2> SUFFICES ASSUME NEW i \in Jobs, NEW f \in Experts, NEW q \in Purchases,
                      job'[i].op = "activate", job'[i].e = f, job'[i].p = q
               PROVE  OwnerHasLapsed(f, q)'
    BY DEF ClaimsFounded
  <2>1. i # j /\ job[i].op = "activate" /\ job[i].e = f /\ job[i].p = q
    BY <1>3, <1>4
  <2>2. q # p /\ OwnerHasLapsed(f, q)
    BY <1>1, <1>5, <2>1 DEF Alone, LocksApart, Honest, ClaimsFounded
  <2>3. /\ sub'[q].expert = sub[q].expert /\ sub'[q].until = sub[q].until
        /\ sub'[q].status \in {sub[q].status, "canceled"}
        /\ sub[q].status \notin {"grace_period", "on_hold"}
    BY <1>6, <2>2 DEF Honest, RowsPaid
  <2>4. entitled(q, sub[q])' => entitled(q, sub[q])
    BY <1>5, <2>3 DEF entitled, hasActiveEntitlement, ENTITLED_STATUSES
  <2>5. StoreLapsed(q) => StoreLapsed(q)'
    BY <1>5 DEF StoreLapsed
  <2> QED
    BY <2>2, <2>3, <2>4, <2>5 DEF OwnerHasLapsed
<1> QED
  BY <1>8, <1>9, <1>10, <1>11, <1>12 DEF Honest

(* Rows that run out stay with their owners. *)
LEMMA FadingOwnersStay == RowsFade => OwnersStay
BY DEF RowsFade, OwnersStay

(* Every step. *)
LEMMA HonestKept ==
    ASSUME NothingRevives, PlansInv, PlansInv', Alone, Honest, [Next]_vars
    PROVE  Honest' /\ OwnersStay
<1>0. Fades => Honest' /\ OwnersStay
  BY FadesKeep, FadingOwnersStay DEF Fades
<1>1. CASE StoreStep /\ UNCHANGED <<sub, profile, job, sweep, heals>>
  BY <1>0, <1>1, StoreMovesOn, RowsStand DEF Fades, ClaimsStay
<1>2. CASE AccountStep
  BY <1>0, <1>2, DesksFade
<1>3. ASSUME NEW j \in Jobs, Requested(j) PROVE Honest' /\ OwnersStay
  BY <1>0, <1>3, RequestsFade, VerifyingIsHonest, FadingOwnersStay
<1>4. ASSUME NEW j \in Jobs, Continues(j) PROVE Honest' /\ OwnersStay
  BY <1>0, <1>4, ContinuingFades, LocksTakenHonestly, CommitIsHonest, FadingOwnersStay
<1>5. CASE BillingStep
  <2>1. ASSUME NEW e, NEW p, NEW tier PROVE ~createStripeCheckoutSession(e, p, tier)
    BY DEF createStripeCheckoutSession, NothingRevives, InAppOnly
  <2> QED
    BY <1>0, <1>3, <1>4, <1>5, <2>1, NightFades DEF BillingStep
<1>6. CASE UNCHANGED vars
  <2>1. UNCHANGED <<sub, job, store>>
    BY <1>6 DEF vars, subscriptionVars, storeVars
  <2> QED
    BY <1>0, <2>1, RowsStand, SameStores DEF Fades, ClaimsStay
<1> QED
  BY <1>1, <1>2, <1>5, <1>6 DEF Next

(* However many accounts claim one purchase at the same time, it moves only   *)
(* from an owner whose row had lapsed or whom the store no longer has paid.   *)
THEOREM LivePurchaseKept == ASSUME NothingRevives PROVE Spec => LivePurchaseStays
<1>1. InAppOnly
  BY DEF NothingRevives
<1>2. Init => PlansInv /\ Alone /\ Honest
  BY PlansStart, AloneStarts, HonestStarts
<1>3. PlansInv /\ Alone /\ Honest /\ [Next]_vars => (PlansInv /\ Alone /\ Honest)'
  BY <1>1, PlansKept, AloneKept, HonestKept
<1>4. PlansInv /\ Alone /\ Honest /\ [Next]_vars => [OwnersStay]_vars
  BY PlansKept, HonestKept
<1> QED
  BY <1>2, <1>3, <1>4, PTL DEF Spec, LivePurchaseStays, OwnersStay
==============================================================================
