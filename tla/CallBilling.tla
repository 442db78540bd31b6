---------------------------- MODULE CallBilling -----------------------------
(***************************************************************************)
(* billing-service: the card hold of a consultation, its capture and the   *)
(* off-session remainder, the release of holds nobody will capture, and    *)
(* the two sweeps that retry what the calls from engagement missed.        *)
(*                                                                         *)
(* Stripe is external.  A hold is identified by its card, a direct charge  *)
(* by its idempotency key; asking again under a key Stripe has seen gives  *)
(* the first answer again.  A card in MayDecline may be declined.          *)
(* Four things go wrong, at most MaxFaults times together: a request fails *)
(* before Stripe acts on it, its answer is lost after Stripe did, this     *)
(* service restarts, Stripe lets an uncaptured hold expire.                *)
(* A handler is split at its Stripe calls and at the write that follows.   *)
(***************************************************************************)
EXTENDS ConsultationTable

CONSTANTS
    Jobs,         \* slots for concurrently running billing requests
    MayDecline,   \* cards that may be declined
    FaultKinds,   \* which of the faults below happen
    MaxFaults     \* bound on the faults in a behaviour

ASSUME DeclineAssumption == MayDecline \subseteq Cards
ASSUME FaultsAssumption  ==
    /\ FaultKinds \subseteq {"stripe", "lost", "restart", "expiry"}
    /\ MaxFaults \in Nat

VARIABLES
    job,        \* the billing requests in progress
    hold,       \* Stripe: the pre-authorisation of each consultation and card
    direct,     \* Stripe: off-session charges that succeeded
    declined,   \* Stripe: off-session charge keys that were declined
    voids,      \* superseded holds whose cancellation was fired and forgotten
    hooks,      \* Stripe webhooks not yet delivered
    charge,     \* consultation_charges: the recorded gross, 0 if there is none
    credited,   \* expert_earnings_ledger: gross credited for the consultation
    faults      \* how many faults there have been

billingOnly == <<job, hold, direct, declined, voids, hooks, charge, credited, faults>>

Hold == [status : {"none", "declined", "requires_capture", "succeeded", "canceled"},
         received : Nat]

ChargeKey == [c : Consultations, card : Cards, collected : Nat, cents : Nat]

Hook == [type : {"canceled", "payment_failed"}, c : Consultations, card : Cards]

Job == [op        : {"idle", "hold", "capture", "charge", "record", "fail", "release"},
        c         : Consultations \cup {NoCall},
        card      : Cards \cup {NoCard},   \* the chosen card, then the hold's
        pi        : Cards \cup {NoCard},   \* stripePaymentIntentId as loaded
        seconds   : Nat,
        collected : Nat]                   \* what Stripe has confirmed so far

IdleJob == [op |-> "idle", c |-> NoCall, card |-> NoCard, pi |-> NoCard,
            seconds |-> 0, collected |-> 0]

BillingTypeOK ==
    /\ job \in [Jobs -> Job]
    /\ hold \in [Consultations -> [Cards -> Hold]]
    /\ direct \subseteq ChargeKey
    /\ declined \subseteq ChargeKey
    /\ voids \subseteq (Consultations \X Cards)
    /\ hooks \subseteq Hook
    /\ charge \in [Consultations -> Nat]
    /\ credited \in [Consultations -> Nat]
    /\ faults \in Nat

BillingInit ==
    /\ job = [j \in Jobs |-> IdleJob]
    /\ hold = [c \in Consultations |->
                  [k \in Cards |-> [status |-> "none", received |-> 0]]]
    /\ direct = {}
    /\ declined = {}
    /\ voids = {}
    /\ hooks = {}
    /\ charge = [c \in Consultations |-> 0]
    /\ credited = [c \in Consultations |-> 0]
    /\ faults = 0

Begins(j, r)  == job[j].op = "idle" /\ job' = [job EXCEPT ![j] = r]
Goes(j, r)    == job' = [job EXCEPT ![j] = r]
Completes(j)  == job' = [job EXCEPT ![j] = IdleJob]
Fault(kind)   == kind \in FaultKinds /\ faults < MaxFaults /\ faults' = faults + 1

HoldCents == consultationHoldMinimumCents(RateCents)

canceledHook(c, k) == [type |-> "canceled", c |-> c, card |-> k]
failedHook(c, k)   == [type |-> "payment_failed", c |-> c, card |-> k]

-----------------------------------------------------------------------------
(* holdConsultationFunds.  The row is checked, Stripe authorises, the row   *)
(* is written by id, and the hold it named before is cancelled without      *)
(* waiting.                                                                 *)

Holdable(c) == row[c].status \in HOLDABLE_STATUSES /\ row[c].billing # "charged"

\* A key Stripe has answered gives that answer again: the PaymentIntent as it
\* was created, whatever has become of it since.
Authorize(c, k) ==
    IF hold[c][k].status = "none"
    THEN hold' = [hold EXCEPT ![c][k].status = "requires_capture"]
    ELSE hold[c][k].status # "declined" /\ hold' = hold

holdConsultationFunds(j, c, k) ==
    /\ Holdable(c)
    /\ Authorize(c, k)
    /\ Begins(j, [IdleJob EXCEPT !.op = "hold", !.c = c, !.card = k, !.pi = row[c].pi])
    /\ UNCHANGED <<row, posts, direct, declined, voids, hooks, charge, credited, faults>>

\* The hold is placed but its answer is lost: 402 to the customer, no row written
HoldLost(c, k) ==
    /\ Holdable(c)
    /\ Authorize(c, k)
    /\ Fault("lost")
    /\ UNCHANGED <<row, posts, job, direct, declined, voids, hooks, charge, credited>>

\* Stripe refuses the card: 402 to the customer, a webhook for the record
HoldDeclined(c, k) ==
    /\ Holdable(c)
    /\ k \in MayDecline
    /\ hold[c][k].status = "none"
    /\ hold' = [hold EXCEPT ![c][k].status = "declined"]
    /\ hooks' = hooks \cup {failedHook(c, k)}
    /\ UNCHANGED <<row, posts, job, direct, declined, voids, charge, credited, faults>>

HoldPersists(j) ==
    LET c == job[j].c
        previous == job[j].pi
    IN  /\ job[j].op = "hold"
        /\ row' = [row EXCEPT ![c] = [@ EXCEPT !.pi = job[j].card, !.released = FALSE]]
        /\ voids' = IF previous \in Cards \ {job[j].card}
                    THEN voids \cup {<<c, previous>>} ELSE voids
        /\ Completes(j)
        /\ UNCHANGED <<posts, hold, direct, declined, hooks, charge, credited, faults>>

\* stripeService.cancelPaymentIntent: a captured intent is returned as it is
Cancel(c, k) ==
    IF hold[c][k].status = "requires_capture"
    THEN /\ hold' = [hold EXCEPT ![c][k].status = "canceled"]
         /\ hooks' = hooks \cup {canceledHook(c, k)}
    ELSE UNCHANGED <<hold, hooks>>

\* A hold nobody captured is cancelled by Stripe after about seven days
HoldExpires(c, k) ==
    /\ hold[c][k].status = "requires_capture"
    /\ Cancel(c, k)
    /\ Fault("expiry")
    /\ UNCHANGED <<row, posts, job, direct, declined, voids, charge, credited>>

VoidSuperseded(c, k) ==
    /\ <<c, k>> \in voids
    /\ voids' = voids \ {<<c, k>>}
    /\ \/ Cancel(c, k) /\ UNCHANGED faults
       \/ Fault("stripe") /\ UNCHANGED <<hold, hooks>>
    /\ UNCHANGED <<row, posts, job, direct, declined, charge, credited>>

-----------------------------------------------------------------------------
(* settleConsultation, the one path that charges for a call.  It is entered *)
(* from engagement's capture call, from the retry sweep and from the        *)
(* customer paying by hand; a consultation that has a charge is skipped.    *)

AlreadyCharged(c) == row[c].billing = "charged" \/ charge[c] > 0

Settles(j, c, seconds, explicit) ==
    Begins(j, IF AlreadyCharged(c) \/ ChargeCents(seconds) <= 0
              THEN IdleJob
              ELSE [IdleJob EXCEPT !.op = "capture", !.c = c, !.card = explicit,
                                   !.pi = row[c].pi, !.seconds = seconds])

\* POST /consultations/:id/capture
captureConsultation(j, c) ==
    /\ \E p \in posts :
          /\ p.kind = "capture" /\ p.c = c
          /\ posts' = posts \ {p}
          /\ Settles(j, c, p.seconds, NoCard)
    /\ UNCHANGED <<row, hold, direct, declined, voids, hooks, charge, credited, faults>>

\* Completed calls the sweep selects; its grace and age limits are time, which
\* is not modelled, so any such row may be selected at any moment.
Uncaptured(c) ==
    /\ row[c].status = "completed"
    /\ row[c].billing \in {"pending", "failed"}
    /\ row[c].seconds > 0

\* Mutant: a capture that failed once is not tried again
retryPendingCaptures(j, c) ==
    /\ Uncaptured(c) /\ row[c].billing = "pending"
    /\ Settles(j, c, row[c].seconds, NoCard)
    /\ UNCHANGED <<row, posts, hold, direct, declined, voids, hooks, charge, credited, faults>>

retryFailedCaptures(j, c) ==
    /\ Uncaptured(c)
    /\ Settles(j, c, row[c].seconds, NoCard)
    /\ UNCHANGED <<row, posts, hold, direct, declined, voids, hooks, charge, credited, faults>>

payConsultation(j, c, k) ==
    /\ row[c].status = "completed"
    /\ ~AlreadyCharged(c)
    /\ ChargeCents(row[c].seconds) > 0
    /\ Settles(j, c, row[c].seconds, k)
    /\ UNCHANGED <<row, posts, hold, direct, declined, voids, hooks, charge, credited, faults>>

\* The card the remainder goes to: the customer's choice, else the hold's,
\* else whichever card is the default by then.
Remainder(j, known) ==
    IF job[j].card # NoCard THEN {job[j].card}
    ELSE IF known # NoCard THEN {known} ELSE Cards

SmallerOf(a, b) == IF a <= b THEN a ELSE b

\* Mutant: the amount that was held is counted, whatever became of the hold
ReceivedAsHeld(h) == HoldCents

\* Mutant: what an earlier settlement captured is not counted
ReceivedNothing(h) == 0

\* What an intent that cannot be captured any more has paid
Received(h) == IF h.status = "succeeded" THEN h.received ELSE 0

\* First half of collectConsultationPayment: capture the hold the loaded row
\* named, as far as it reaches, or count what an earlier capture received.
CaptureHold(j) ==
    LET c  == job[j].c
        pi == job[j].pi
        due == ChargeCents(job[j].seconds)
        Collects(cents, known) ==
            \E k \in Remainder(j, known) :
               Goes(j, [job[j] EXCEPT !.op = "charge", !.card = k, !.collected = cents])
    IN  /\ job[j].op = "capture"
        /\ \/ /\ \/ pi = NoCard /\ UNCHANGED faults
                 \/ pi # NoCard /\ Fault("stripe")     \* it cannot even be read
              /\ Collects(0, NoCard)
              /\ UNCHANGED hold
           \/ /\ pi # NoCard
              /\ hold[c][pi].status = "requires_capture"
              /\ \/ /\ hold' = [hold EXCEPT ![c][pi] =
                                   [status |-> "succeeded", received |-> SmallerOf(due, HoldCents)]]
                    /\ Collects(SmallerOf(due, HoldCents), pi)
                    /\ UNCHANGED faults
                 \/ /\ Fault("stripe")                \* the capture failed, the re-read did not
                    /\ Collects(0, pi)
                    /\ UNCHANGED hold
           \/ /\ pi # NoCard
              /\ hold[c][pi].status # "requires_capture"
              /\ Collects(Received(hold[c][pi]), pi)
              /\ UNCHANGED <<hold, faults>>
        /\ UNCHANGED <<row, posts, direct, declined, voids, hooks, charge, credited>>

MINIMUM_OFF_SESSION_CENTS == 50

\* Second half: charge what is left off-session.  The key names the card and
\* both amounts, so a repeated attempt repeats its answer and another card is
\* another charge.
ChargeRemainder(j) ==
    LET left == ChargeCents(job[j].seconds) - job[j].collected
        key  == [c |-> job[j].c, card |-> job[j].card,
                 collected |-> job[j].collected, cents |-> left]
        Ends(cents) ==
            Goes(j, [job[j] EXCEPT !.op = IF cents > 0 THEN "record" ELSE "fail",
                                   !.collected = cents])
    IN  /\ job[j].op = "charge"
        /\ \/ /\ left < MINIMUM_OFF_SESSION_CENTS
              /\ Ends(job[j].collected)
              /\ UNCHANGED <<direct, declined, hooks, faults>>
           \/ /\ left >= MINIMUM_OFF_SESSION_CENTS
              /\ key \notin declined
              /\ direct' = direct \cup {key}
              /\ Ends(ChargeCents(job[j].seconds))
              /\ UNCHANGED <<declined, hooks, faults>>
           \/ /\ left >= MINIMUM_OFF_SESSION_CENTS
              /\ key \notin direct
              /\ key.card \in MayDecline
              /\ declined' = declined \cup {key}
              /\ hooks' = hooks \cup {failedHook(key.c, key.card)}
              /\ Ends(job[j].collected)
              /\ UNCHANGED <<direct, faults>>
           \/ /\ left >= MINIMUM_OFF_SESSION_CENTS
              /\ \/ Fault("stripe") /\ UNCHANGED direct
                 \/ Fault("lost") /\ key \notin declined /\ direct' = direct \cup {key}
              /\ Ends(job[j].collected)
              /\ UNCHANGED <<declined, hooks>>
        /\ UNCHANGED <<row, posts, hold, voids, charge, credited>>

\* One transaction; the unique consultation id of consultation_charges makes
\* the loser of two settlements roll back and skip.
SettleRecords(j) ==
    LET c == job[j].c
    IN  /\ job[j].op = "record"
        /\ IF charge[c] > 0
           THEN UNCHANGED <<row, charge, credited>>
           ELSE /\ charge' = [charge EXCEPT ![c] = job[j].collected]
                /\ credited' = [credited EXCEPT ![c] = @ + job[j].collected]
                /\ row' = [row EXCEPT ![c].billing = "charged"]
        /\ Completes(j)
        /\ UNCHANGED <<posts, hold, direct, declined, voids, hooks, faults>>

\* Mutant: the row is marked failed by id, even when another settlement charged
SettleFailsById(j) ==
    /\ job[j].op = "fail"
    /\ row' = [row EXCEPT ![job[j].c].billing = "failed"]
    /\ Completes(j)
    /\ UNCHANGED <<posts, hold, direct, declined, voids, hooks, charge, credited, faults>>

\* Nothing was collected
SettleFails(j) ==
    LET c == job[j].c
    IN  /\ job[j].op = "fail"
        /\ row' = IF row[c].billing # "charged"
                  THEN [row EXCEPT ![c].billing = "failed"] ELSE row
        /\ Completes(j)
        /\ UNCHANGED <<posts, hold, direct, declined, voids, hooks, charge, credited, faults>>

-----------------------------------------------------------------------------
(* releaseConsultationHold and the sweep behind it.                         *)

Releasable(c) ==
    /\ row[c].pi # NoCard
    /\ ~row[c].released
    /\ ~AlreadyCharged(c)
    /\ row[c].status \in HOLD_RELEASE_STATUSES

\* The intent the loaded row named is cancelled; one that turns out captured
\* is left for an operator.
Releases(j, c) ==
    IF ~Releasable(c)
    THEN Begins(j, IdleJob) /\ UNCHANGED <<hold, hooks, faults>>
    ELSE \/ /\ Cancel(c, row[c].pi)
            /\ Begins(j, IF hold[c][row[c].pi].status = "succeeded"
                         THEN IdleJob
                         ELSE [IdleJob EXCEPT !.op = "release", !.c = c])
            /\ UNCHANGED faults
         \/ /\ Fault("stripe")
            /\ Begins(j, IdleJob)
            /\ UNCHANGED <<hold, hooks>>

\* POST /consultations/:id/release-hold
releaseConsultationHold(j, c) ==
    /\ releasePost(c) \in posts
    /\ posts' = posts \ {releasePost(c)}
    /\ Releases(j, c)
    /\ UNCHANGED <<row, direct, declined, voids, charge, credited>>

\* Mutant: the sweep forgets the calls that failed
releaseDeclinedHolds(j, c) ==
    /\ row[c].status = "declined"
    /\ row[c].pi # NoCard
    /\ ~row[c].released
    /\ row[c].billing # "charged"
    /\ Releases(j, c)
    /\ UNCHANGED <<row, posts, direct, declined, voids, charge, credited>>

\* releaseStaleHolds, second half: the rows its query finds
releaseStaleHolds(j, c) ==
    /\ row[c].status \in HOLD_RELEASE_STATUSES
    /\ row[c].pi # NoCard
    /\ ~row[c].released
    /\ row[c].billing # "charged"
    /\ Releases(j, c)
    /\ UNCHANGED <<row, posts, direct, declined, voids, charge, credited>>

\* By id, after the answer from Stripe
ReleaseStamps(j) ==
    /\ job[j].op = "release"
    /\ row' = [row EXCEPT ![job[j].c].released = TRUE]
    /\ Completes(j)
    /\ UNCHANGED <<posts, hold, direct, declined, voids, hooks, charge, credited, faults>>

\* releaseStaleHolds, first half: requests nobody answered and accepted calls
\* nobody joined are failed by one guarded statement.  Time is not modelled:
\* any such row may be old enough.
Abandoned(c) ==
    \/ row[c].status \in HOLDABLE_STATUSES
    \/ row[c].status = "accepted" /\ ~row[c].started

\* Mutant: only requests that have a hold are given up
ExpireAbandonedHeld(c) ==
    /\ Abandoned(c) /\ row[c].pi # NoCard
    /\ row' = [row EXCEPT ![c] = [@ EXCEPT !.status = "failed", !.seconds = 0]]
    /\ UNCHANGED <<posts, billingOnly>>

ExpireAbandoned(c) ==
    /\ Abandoned(c)
    /\ row' = [row EXCEPT ![c] = [@ EXCEPT !.status = "failed", !.seconds = 0]]
    /\ UNCHANGED <<posts, billingOnly>>

-----------------------------------------------------------------------------
(* handleStripeWebhook, the events of a consultation's PaymentIntents.      *)

PaymentIntentCanceled(c, k) ==
    /\ canceledHook(c, k) \in hooks
    /\ hooks' = hooks \ {canceledHook(c, k)}
    /\ row' = IF row[c].pi = k THEN [row EXCEPT ![c].released = TRUE] ELSE row
    /\ UNCHANGED <<posts, job, hold, direct, declined, voids, charge, credited, faults>>

PaymentIntentFailed(c, k) ==
    /\ failedHook(c, k) \in hooks
    /\ hooks' = hooks \ {failedHook(c, k)}
    /\ row' = IF row[c].billing = "pending"
              THEN [row EXCEPT ![c].billing = "failed"] ELSE row
    /\ UNCHANGED <<posts, job, hold, direct, declined, voids, charge, credited, faults>>

\* A request from engagement that finds billing down is gone
PostLost(p) ==
    /\ p \in posts
    /\ posts' = posts \ {p}
    /\ UNCHANGED <<row, billingOnly>>

\* The process restarts: requests in progress and unsent cancellations die
BillingRestarts ==
    /\ job' = [j \in Jobs |-> IdleJob]
    /\ voids' = {}
    /\ Fault("restart")
    /\ UNCHANGED <<row, posts, hold, direct, declined, hooks, charge, credited>>

-----------------------------------------------------------------------------
JobStep(j) ==
    \/ HoldPersists(j)
    \/ CaptureHold(j)
    \/ ChargeRemainder(j)
    \/ SettleRecords(j)
    \/ SettleFails(j)
    \/ ReleaseStamps(j)

JobStart(j, c) ==
    \/ captureConsultation(j, c)
    \/ retryFailedCaptures(j, c)
    \/ releaseConsultationHold(j, c)
    \/ releaseStaleHolds(j, c)
    \/ \E k \in Cards : holdConsultationFunds(j, c, k) \/ payConsultation(j, c, k)

BillingNext ==
    \/ \E j \in Jobs : JobStep(j) \/ \E c \in Consultations : JobStart(j, c)
    \/ \E c \in Consultations : ExpireAbandoned(c)
    \/ \E c \in Consultations, k \in Cards :
          \/ HoldDeclined(c, k)
          \/ HoldLost(c, k)
          \/ HoldExpires(c, k)
          \/ VoidSuperseded(c, k)
          \/ PaymentIntentCanceled(c, k)
          \/ PaymentIntentFailed(c, k)
    \/ \E p \in posts : PostLost(p)
    \/ BillingRestarts
=============================================================================
