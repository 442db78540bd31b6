------------------------------ MODULE Refunds -------------------------------
(***************************************************************************)
(* Taking money back from a settled consultation: the admin portal's full  *)
(* refund, refunds made in the Stripe Dashboard, and card disputes.  Each  *)
(* request or webhook runs in a slot of Tasks and is split at its awaits;  *)
(* what it does to the expert's earning is one transaction.                *)
(*                                                                         *)
(* Stripe is external: a payment of a call is refunded from the portal     *)
(* (once, by its idempotency key), from the Dashboard (fully or in part)   *)
(* or disputed by the customer's bank, which opens and closes a dispute.   *)
(***************************************************************************)
EXTENDS EarningsTable

CONSTANTS
    Tasks,      \* slots for refund requests and webhooks in progress
    Takebacks   \* the ways money goes back to customers

ASSUME TakebacksAssumption == Takebacks \subseteq {"portal", "part", "dashboard", "dispute"}

VARIABLES
    task,      \* the requests in progress
    txn,       \* transactions.status of the payments of a call
    recorded,  \* the refund transactions recorded, by where they were made
    refunds,   \* Stripe: the refunds of a payment, by where they were made
    disputes   \* Stripe: the dispute of a payment

refundsOnly == <<task, txn, recorded, refunds, disputes>>

Sources == {"portal", "part", "dashboard"}

RefundTask == [op   : {"refund", "record"},
               c    : Consultations,
               of   : SUBSET Charges,    \* the payments to refund
               todo : SUBSET Charges]    \* those Stripe has not answered for yet

HookTask == [op      : {"refunded", "hold", "close", "ack"},
             event   : Event,
             paidOut : BOOLEAN,          \* anyPaidOut as read
             others  : BOOLEAN,          \* the call's other payments were refunded
             fresh   : SUBSET Sources]   \* Dashboard refunds not yet recorded

IdleTask == [op |-> "idle"]

RefundsTypeOK ==
    /\ task \in [Tasks -> RefundTask \cup HookTask \cup {IdleTask}]
    /\ txn \in [Charges -> {"succeeded", "refunded"}]
    /\ recorded \in [Charges -> SUBSET Sources]
    /\ refunds \in [Charges -> SUBSET Sources]
    /\ disputes \in [Charges -> {"none", "open", "won", "lost"}]

RefundsInit ==
    /\ task = [k \in Tasks |-> IdleTask]
    /\ txn = [m \in Charges |-> "succeeded"]
    /\ recorded = [m \in Charges |-> {}]
    /\ refunds = [m \in Charges |-> {}]
    /\ disputes = [m \in Charges |-> "none"]

TaskBegins(k, x) == task[k].op = "idle" /\ task' = [task EXCEPT ![k] = x]
TaskGoes(k, x)   == task' = [task EXCEPT ![k] = x]
TaskEnds(k)      == task' = [task EXCEPT ![k] = IdleTask]

FullyRefunded(m) == refunds[m] \cap {"portal", "dashboard"} # {}
refunded(m, full) == [type |-> "charge.refunded", of |-> m, full |-> full]

-----------------------------------------------------------------------------
(* refundConsultation, the portal's full refund.                            *)

Refundable(c) ==
    /\ call[c].billing = "charged"
    /\ ~PaidOut(c)
    /\ call[c].dispute # "open"

refundConsultation(k, c) ==
    LET of == {m \in ChargesOf(c) : txn[m] = "succeeded"}
    IN  /\ "portal" \in Takebacks
        /\ Refundable(c)
        /\ of # {}
        /\ TaskBegins(k, [op |-> "refund", c |-> c, of |-> of, todo |-> of])
        /\ UNCHANGED <<call, ledger, payout, events, faults, txn, recorded, refunds, disputes>>

\* Stripe refunds a payment in full, once per key, and refuses one that was
\* refunded elsewhere or is disputed.
Refund(m) ==
    IF "portal" \in refunds[m]
    THEN UNCHANGED <<refunds, events>>
    ELSE /\ ~FullyRefunded(m) /\ disputes[m] # "open"
         /\ refunds' = [refunds EXCEPT ![m] = @ \cup {"portal"}]
         /\ events' = events \cup {refunded(m, TRUE)}

\* A payment that cannot be refunded ends the request with nothing recorded
RefundsPayment(k) ==
    /\ task[k].op = "refund"
    /\ \E m \in task[k].todo :
          \/ /\ Refund(m)
             /\ TaskGoes(k, [task[k] EXCEPT !.todo = @ \ {m},
                                !.op = IF task[k].todo = {m} THEN "record" ELSE @])
             /\ UNCHANGED faults
          \/ /\ Fault("lost")
             /\ Refund(m)
             /\ TaskEnds(k)
          \/ /\ \/ Fault("stripe")
                \/ /\ "portal" \notin refunds[m]
                   /\ FullyRefunded(m) \/ disputes[m] = "open"
                   /\ UNCHANGED faults
             /\ TaskEnds(k)
             /\ UNCHANGED <<refunds, events>>
    /\ UNCHANGED <<call, ledger, payout, txn, recorded, disputes>>

\* One transaction; rows a payout has claimed since are left to it
RefundRecords(k) ==
    LET c == task[k].c
    IN  /\ task[k].op = "record"
        /\ txn' = [m \in Charges |-> IF m \in task[k].of THEN "refunded" ELSE txn[m]]
        /\ recorded' = [m \in Charges |-> IF m \in task[k].of
                                          THEN recorded[m] \cup {"portal"} ELSE recorded[m]]
        /\ DropOwed(c)
        /\ call' = [call EXCEPT ![c].billing = "refunded"]
        /\ TaskEnds(k)
        /\ UNCHANGED <<payout, events, faults, refunds, disputes>>

-----------------------------------------------------------------------------
(* handleStripeWebhook.  An event is delivered until its processing is      *)
(* recorded, also more than once at a time; a handler reads its context,    *)
(* then writes in one transaction, then records the event.                  *)

Hooked(k, op, e, others, fresh) ==
    TaskBegins(k, [op |-> op, event |-> e, paidOut |-> PaidOut(e.of[1]),
                   others |-> others, fresh |-> fresh])

HookGoesToAck(k) == TaskGoes(k, [task[k] EXCEPT !.op = "ack"])

FreshRefunds(m) == (refunds[m] \cap {"part", "dashboard"}) \ recorded[m]

OthersRefunded(m) == \A x \in ChargesOf(m[1]) \ {m} : txn[x] = "refunded"

\* Only refunds made in the Dashboard and not yet recorded matter
ChargeRefunded(k, m, full) ==
    /\ refunded(m, full) \in events
    /\ Hooked(k, IF FreshRefunds(m) = {} THEN "ack" ELSE "refunded", refunded(m, full),
              OthersRefunded(m), FreshRefunds(m))
    /\ UNCHANGED <<call, ledger, payout, events, faults, txn, recorded, refunds, disputes>>

\* Mutant: a refund of one payment counts as a refund of the call
RefundOfPaymentRecorded(k) ==
    LET m == task[k].event.of
        c == m[1]
    IN  /\ task[k].op = "refunded"
        /\ recorded' = [recorded EXCEPT ![m] = @ \cup task[k].fresh]
        /\ txn' = IF task[k].event.full THEN [txn EXCEPT ![m] = "refunded"] ELSE txn
        /\ DropOwed(c)
        /\ call' = [call EXCEPT ![c].billing = "refunded"]
        /\ HookGoesToAck(k)
        /\ UNCHANGED <<payout, events, faults, refunds, disputes>>

\* Every payment of the call refunded: as after a portal refund.  Otherwise the
\* earning stays and an admin is asked to look at the call.  The transaction may
\* not see the other payments that were refunded while it ran.
handleChargeRefunded(k) ==
    LET m == task[k].event.of
        c == m[1]
        itself == task[k].event.full \/ txn[m] = "refunded"
    IN  /\ task[k].op = "refunded"
        /\ recorded' = [recorded EXCEPT ![m] = @ \cup task[k].fresh]
        /\ txn' = IF task[k].event.full THEN [txn EXCEPT ![m] = "refunded"] ELSE txn
        /\ \E others \in {task[k].others, OthersRefunded(m)} :
              \/ /\ itself /\ others
                 /\ DropOwed(c)
                 /\ call' = [call EXCEPT ![c].billing = "refunded",
                                         ![c].review = @ \/ task[k].paidOut]
              \/ /\ ~(itself /\ others)
                 /\ call' = [call EXCEPT ![c].review = TRUE]
                 /\ UNCHANGED ledger
        /\ HookGoesToAck(k)
        /\ UNCHANGED <<payout, events, faults, refunds, disputes>>

DisputeCreated(k, m) ==
    /\ event("dispute.created", m) \in events
    /\ Hooked(k, "hold", event("dispute.created", m), FALSE, {})
    /\ UNCHANGED <<call, ledger, payout, events, faults, txn, recorded, refunds, disputes>>

\* Mutant: the charge is marked and the earning forgotten
DisputeMarked(k) ==
    LET c == task[k].event.of[1]
    IN  /\ task[k].op = "hold"
        /\ call' = [call EXCEPT ![c].dispute = "open", ![c].review = @ \/ task[k].paidOut]
        /\ HookGoesToAck(k)
        /\ UNCHANGED <<ledger, payout, events, faults, txn, recorded, refunds, disputes>>

\* The unpaid earning is held back; a paid one is an admin's business
handleDisputeCreated(k) ==
    LET c == task[k].event.of[1]
    IN  /\ task[k].op = "hold"
        /\ call' = [call EXCEPT ![c].dispute = "open", ![c].review = @ \/ task[k].paidOut]
        /\ ledger' = [r \in Rows |-> IF r[1] = c /\ Owed(r)
                                     THEN [ledger[r] EXCEPT !.held = TRUE] ELSE ledger[r]]
        /\ HookGoesToAck(k)
        /\ UNCHANGED <<payout, events, faults, txn, recorded, refunds, disputes>>

DisputeClosed(k, m) ==
    \E type \in {"dispute.won", "dispute.lost"} :
       /\ event(type, m) \in events
       /\ Hooked(k, "close", event(type, m), FALSE, {})
       /\ UNCHANGED <<call, ledger, payout, events, faults, txn, recorded, refunds, disputes>>

\* Lost: what is still owed is dropped.  Won: what was held is owed again.
handleDisputeClosed(k) ==
    LET c == task[k].event.of[1]
        lost == task[k].event.type = "dispute.lost"
    IN  /\ task[k].op = "close"
        /\ call' = [call EXCEPT ![c].dispute = IF lost THEN "lost" ELSE "won",
                                ![c].review = @ \/ (lost /\ task[k].paidOut)]
        /\ IF lost
           THEN DropOwed(c)
           ELSE ledger' = [r \in Rows |-> IF r[1] = c THEN [ledger[r] EXCEPT !.held = FALSE]
                                          ELSE ledger[r]]
        /\ HookGoesToAck(k)
        /\ UNCHANGED <<payout, events, faults, txn, recorded, refunds, disputes>>

\* processedWebhookEvent; Stripe gets its 200 and stops
EventProcessed(k) ==
    /\ task[k].op = "ack"
    /\ events' = events \ {task[k].event}
    /\ TaskEnds(k)
    /\ UNCHANGED <<call, ledger, payout, faults, txn, recorded, refunds, disputes>>

-----------------------------------------------------------------------------
(* Stripe and the customer's bank, once the call has been charged.          *)

DashboardRefunds(m, source) ==
    /\ source \in Takebacks
    /\ call[m[1]].billing # "pending"
    /\ ~FullyRefunded(m) /\ source \notin refunds[m] /\ disputes[m] # "open"
    /\ refunds' = [refunds EXCEPT ![m] = @ \cup {source}]
    /\ events' = events \cup {refunded(m, source = "dashboard")}
    /\ UNCHANGED <<call, ledger, payout, faults, task, txn, recorded, disputes>>

DisputeOpens(m) ==
    /\ "dispute" \in Takebacks
    /\ call[m[1]].billing # "pending"
    /\ disputes[m] = "none" /\ ~FullyRefunded(m)
    /\ disputes' = [disputes EXCEPT ![m] = "open"]
    /\ events' = events \cup {event("dispute.created", m)}
    /\ UNCHANGED <<call, ledger, payout, faults, task, txn, recorded, refunds>>

DisputeCloses(m, how) ==
    /\ disputes[m] = "open"
    /\ disputes' = [disputes EXCEPT ![m] = how]
    /\ events' = events \cup {event(IF how = "won" THEN "dispute.won" ELSE "dispute.lost", m)}
    /\ UNCHANGED <<call, ledger, payout, faults, task, txn, recorded, refunds>>

-----------------------------------------------------------------------------
TaskStep(k) ==
    \/ RefundsPayment(k)
    \/ RefundRecords(k)
    \/ handleChargeRefunded(k)
    \/ handleDisputeCreated(k)
    \/ handleDisputeClosed(k)
    \/ EventProcessed(k)

EventArrives(k, m) ==
    \/ \E full \in BOOLEAN : ChargeRefunded(k, m, full)
    \/ DisputeCreated(k, m)
    \/ DisputeClosed(k, m)

RefundsNext ==
    \/ \E k \in Tasks : TaskStep(k) \/ \E c \in Consultations : refundConsultation(k, c)
    \/ \E k \in Tasks, m \in Charges : EventArrives(k, m)
    \/ \E m \in Charges :
          \/ \E source \in {"part", "dashboard"} : DashboardRefunds(m, source)
          \/ DisputeOpens(m)
          \/ \E how \in {"won", "lost"} : DisputeCloses(m, how)
=============================================================================
