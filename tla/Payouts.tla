------------------------------ MODULE Payouts -------------------------------
(***************************************************************************)
(* Paying experts: the daily payout run, an admin's "pay out now", the     *)
(* daily retry of failed payouts and its admin twin, "mark as settled",    *)
(* and Stripe's transfer webhooks.  Each request runs in a slot of Runs    *)
(* and is split at its awaits.  All payments go from a set of ledger rows  *)
(* read once, over one transaction that claims them for a new payout, to   *)
(* one transfer and the write that records its outcome.                    *)
(*                                                                         *)
(* Stripe is external: transfers under an idempotency key per payout that  *)
(* it forgets after a day, reversals, and the events about both.           *)
(***************************************************************************)
EXTENDS EarningsTable

CONSTANTS
    Runs,            \* slots for payout requests and transfer webhooks in progress
    CustomCents,     \* exact amounts an admin may ask to pay
    MayMarkPaid      \* whether admins settle failed payouts outside Stripe

ASSUME CustomAssumption == CustomCents \subseteq Nat \ {0}
ASSUME MarkAssumption == MayMarkPaid \in BOOLEAN

VARIABLES
    run,        \* the requests in progress
    transfers,  \* Stripe: what became of the transfers of each payout
    key         \* Stripe: the transfer the payout's idempotency key stands for

payoutsOnly == <<run, transfers, key>>

Run == [op       : {"idle", "claim", "send", "record", "reconcile", "mark", "return", "ack"},
        payout   : Payouts \cup {NoPayout},
        transfer : Transfers \cup {NoTransfer},  \* Stripe's answer, or the event's subject
        type     : {"none", "transfer.created", "transfer.reversed"},
        rows     : SUBSET Rows,                  \* the unpaid rows as read
        nets     : [Rows -> Nat],                \* and their netCents then
        target   : Nat]                          \* what is to be paid of them

IdleRun == [op |-> "idle", payout |-> NoPayout, transfer |-> NoTransfer, type |-> "none",
            rows |-> {}, nets |-> [r \in Rows |-> 0], target |-> 0]

PayoutsTypeOK ==
    /\ run \in [Runs -> Run]
    /\ transfers \in [Payouts -> Seq({"live", "reversed"})]
    /\ key \in [Payouts -> Nat]

PayoutsInit ==
    /\ run = [w \in Runs |-> IdleRun]
    /\ transfers = [p \in Payouts |-> <<>>]
    /\ key = [p \in Payouts |-> 0]

RunBegins(w, x) == run[w].op = "idle" /\ run' = [run EXCEPT ![w] = x]
RunGoes(w, x)   == run' = [run EXCEPT ![w] = x]
RunEnds(w)      == run' = [run EXCEPT ![w] = IdleRun]

-----------------------------------------------------------------------------
(* Reading what is owed.                                                    *)

Reads(w, R, cents) ==
    RunBegins(w, [IdleRun EXCEPT !.op = "claim", !.rows = R, !.target = cents,
                                 !.nets = [r \in Rows |-> IF r \in R THEN ledger[r].net ELSE 0]])

\* The scheduled run takes the rows older than today.  Time is not modelled,
\* so any of the payable rows may be the old ones; their sum must be positive.
runPayouts(w) ==
    /\ \E R \in SUBSET {r \in Rows : Payable(r)} :
          NetOf(R) \in Nat \ {0} /\ Reads(w, R, NetOf(R))
    /\ UNCHANGED <<call, ledger, payout, events, faults, transfers, key>>

\* The admin pays everything, or exactly an amount the balance covers
payExpertNow(w) ==
    LET R == {r \in Rows : Payable(r)}
    IN  /\ NetOf(R) \in Nat \ {0}
        /\ \E cents \in CustomCents \cup {NetOf(R)} :
              cents <= NetOf(R) /\ Reads(w, R, cents)
        /\ UNCHANGED <<call, ledger, payout, events, faults, transfers, key>>

\* No Connect account, transfers inactive, the platform's balance too low, or a
\* payout with the same period: the rows stay unpaid.
NotPayable(w) ==
    /\ run[w].op = "claim"
    /\ Fault("refused")
    /\ RunEnds(w)
    /\ UNCHANGED <<call, ledger, payout, events, transfers, key>>

-----------------------------------------------------------------------------
(* Claiming the rows for a new payout, one transaction.                     *)

\* Ids are taken in order; an id is never used again
Fresh(p) == payout[p].status = "none" /\ \A q \in Payouts : q < p => payout[q].status # "none"

FreshPart(c, r) ==
    /\ r \in RowsOf(c)
    /\ ledger[r].status = "none"
    /\ \A s \in RowsOf(c) : s[2] < r[2] => ledger[s].status # "none"

\* Gross and commission of the part of a row, in proportion to its net
PartCommission(r, cents) ==
    LET share == RoundDiv(ledger[r].gross * cents, ledger[r].net) - cents
    IN  IF share < 0 THEN 0
        ELSE IF share > ledger[r].commission THEN ledger[r].commission ELSE share

Part(r, cents) ==
    [NoEarning EXCEPT !.status = "earned", !.net = cents, !.commission = PartCommission(r, cents),
                      !.gross = cents + PartCommission(r, cents)]

\* Mutant: the commission stays with the row
ShrunkByNet(r, cents) == [ledger[r] EXCEPT !.net = @ - cents, !.gross = @ - cents]

Shrunk(r, cents) ==
    [ledger[r] EXCEPT !.net = @ - cents, !.commission = @ - PartCommission(r, cents),
                      !.gross = @ - (cents + PartCommission(r, cents))]

\* Mutant: the rows are stamped by id, whoever has claimed them by now
ClaimById(p, T, base, cents) ==
    /\ ledger' = [r \in Rows |-> IF r \in T THEN [base[r] EXCEPT !.payout = p] ELSE base[r]]
    /\ payout' = [payout EXCEPT ![p] =
                     [status |-> "processing", cents |-> cents, transfer |-> NoTransfer, rows |-> T]]

\* Every row must still be unpaid and not held, else the transaction rolls back
claimRowsIntoPayout(p, T, base, cents) ==
    /\ \A r \in T : base[r].status = "earned" /\ base[r].payout = NoPayout /\ ~base[r].held
    /\ ledger' = [r \in Rows |-> IF r \in T THEN [base[r] EXCEPT !.payout = p] ELSE base[r]]
    /\ payout' = [payout EXCEPT ![p] =
                     [status |-> "processing", cents |-> cents, transfer |-> NoTransfer, rows |-> T]]

\* Whole rows while they fit, the next one split.  The code goes from the oldest
\* row to the newest; which row is older is left open here.
Claims(w) ==
    LET nets == run[w].nets
        Total(T) == SumFunctionOnSet(nets, T)
        target == run[w].target
    IN  \E p \in Payouts, T \in SUBSET run[w].rows :
           /\ Fresh(p)
           /\ \/ /\ Total(T) = target
                 /\ claimRowsIntoPayout(p, T, ledger, target)
              \/ \E r \in run[w].rows \ T, s \in Rows :
                    LET cents == target - Total(T)
                    IN  /\ Payable(r)
                        /\ cents \in 1..(nets[r] - 1) /\ ledger[r].net = nets[r]
                        /\ FreshPart(r[1], s)
                        /\ claimRowsIntoPayout(p, T \cup {s},
                               [ledger EXCEPT ![r] = Shrunk(r, cents), ![s] = Part(r, cents)],
                               target)
           /\ RunGoes(w, [IdleRun EXCEPT !.op = "send", !.payout = p])

createPayoutForLedgerRows(w) ==
    /\ run[w].op = "claim"
    /\ Claims(w)
    /\ UNCHANGED <<call, events, faults, transfers, key>>

\* PAYOUT_CONFLICT: a row was claimed, held or dropped in the meantime, or the
\* row to be split has another amount by now
ClaimConflicts(w) ==
    /\ run[w].op = "claim"
    /\ \E r \in run[w].rows :
          \/ ~Payable(r)
          \/ /\ run[w].target < SumFunctionOnSet(run[w].nets, run[w].rows)
             /\ ledger[r].net # run[w].nets[r]
    /\ RunEnds(w)
    /\ UNCHANGED <<call, ledger, payout, events, faults, transfers, key>>

-----------------------------------------------------------------------------
(* sendPayoutTransfer: the transfer, then the write of its outcome by id.   *)

\* Under a key Stripe remembers, the answer is the transfer made before
Transfer(p) ==
    IF key[p] # 0
    THEN UNCHANGED <<transfers, key, events>>
    ELSE /\ transfers' = [transfers EXCEPT ![p] = Append(@, "live")]
         /\ key' = [key EXCEPT ![p] = Len(transfers[p]) + 1]
         /\ events' = events \cup {event("transfer.created", <<p, Len(transfers[p]) + 1>>)}

sendPayoutTransfer(w) ==
    LET p == run[w].payout
    IN  /\ run[w].op = "send"
        /\ \/ /\ Transfer(p)
              /\ RunGoes(w, [run[w] EXCEPT !.op = "record", !.transfer = <<p, key'[p]>>])
              /\ UNCHANGED faults
           \/ /\ Fault("lost")
              /\ Transfer(p)
              /\ RunGoes(w, [run[w] EXCEPT !.op = "record"])
           \/ /\ Fault("stripe")
              /\ RunGoes(w, [run[w] EXCEPT !.op = "record"])
              /\ UNCHANGED <<transfers, key, events>>
        /\ UNCHANGED <<call, ledger, payout>>

\* Mutant: the rows of a payout whose transfer failed are owed again at once
FailureReturnsEarnings(w) ==
    LET p == run[w].payout
        t == run[w].transfer
    IN  /\ run[w].op = "record"
        /\ payout' = IF t = NoTransfer
                     THEN [payout EXCEPT ![p].status = "failed"]
                     ELSE [payout EXCEPT ![p] = [@ EXCEPT !.status = "paid", !.transfer = t]]
        /\ ledger' = [r \in Rows |-> IF t = NoTransfer /\ ledger[r].payout = p
                                     THEN [ledger[r] EXCEPT !.payout = NoPayout] ELSE ledger[r]]
        /\ RunEnds(w)
        /\ UNCHANGED <<call, events, faults, transfers, key>>

RecordsOutcome(w) ==
    LET p == run[w].payout
        t == run[w].transfer
    IN  /\ run[w].op = "record"
        /\ payout' = IF t = NoTransfer
                     THEN [payout EXCEPT ![p].status = "failed"]
                     ELSE [payout EXCEPT ![p] = [@ EXCEPT !.status = "paid", !.transfer = t]]
        /\ RunEnds(w)
        /\ UNCHANGED <<call, ledger, events, faults, transfers, key>>

-----------------------------------------------------------------------------
(* Failed payouts.                                                          *)

Retryable(p) == payout[p].status = "failed" /\ OwnedBy(p) # {}

\* reattemptFailedPayouts and retryPayout differ only in who asks: both take a
\* failed payout that still owns rows.
reattemptFailedPayouts(w, p) ==
    /\ Retryable(p)
    /\ RunBegins(w, [IdleRun EXCEPT !.op = "reconcile", !.payout = p])
    /\ UNCHANGED <<call, ledger, payout, events, faults, transfers, key>>

\* Mutant: a transfer that went out is not looked for
reconcileNothing(w) ==
    /\ run[w].op = "reconcile"
    /\ RunGoes(w, [run[w] EXCEPT !.op = "send"])
    /\ UNCHANGED <<call, ledger, payout, events, faults, transfers, key>>

\* Mutant: a payout whose transfer did not go out is left alone
reconcileSentOnly(w) ==
    LET p == run[w].payout
        n == Len(transfers[p])
    IN  /\ run[w].op = "reconcile"
        /\ IF n > 0 /\ transfers[p][n] = "live"
           THEN RunGoes(w, [run[w] EXCEPT !.op = "record", !.transfer = <<p, n>>])
           ELSE RunEnds(w)
        /\ UNCHANGED <<call, ledger, payout, events, faults, transfers, key>>

\* The latest transfer of the payout decides; a reversed one does not count.
\* Then the expert's readiness and the balance are checked.
reconcileSentTransfer(w) ==
    LET p == run[w].payout
        n == Len(transfers[p])
    IN  /\ run[w].op = "reconcile"
        /\ \/ /\ n > 0 /\ transfers[p][n] = "live"
              /\ RunGoes(w, [run[w] EXCEPT !.op = "record", !.transfer = <<p, n>>])
              /\ UNCHANGED faults
           \/ /\ ~(n > 0 /\ transfers[p][n] = "live")
              /\ \/ RunGoes(w, [run[w] EXCEPT !.op = "send"]) /\ UNCHANGED faults
                 \/ Fault("refused") /\ RunEnds(w)
           \/ Fault("stripe") /\ RunEnds(w)
        /\ UNCHANGED <<call, ledger, payout, events, transfers, key>>

\* admin-service, markPaid: reads the payout, then writes it by id
markPaid(w, p) ==
    /\ MayMarkPaid
    /\ payout[p].status = "failed"
    /\ RunBegins(w, [IdleRun EXCEPT !.op = "mark", !.payout = p])
    /\ UNCHANGED <<call, ledger, payout, events, faults, transfers, key>>

MarksPaid(w) ==
    /\ run[w].op = "mark"
    /\ payout' = [payout EXCEPT ![run[w].payout].status = "paid"]
    /\ RunEnds(w)
    /\ UNCHANGED <<call, ledger, events, faults, transfers, key>>

-----------------------------------------------------------------------------
(* handleStripeWebhook, the transfer events.  An event is delivered until   *)
(* its processing is recorded, also more than once at a time.               *)

Acks(w, type, t, p) ==
    [IdleRun EXCEPT !.op = "ack", !.type = type, !.transfer = t, !.payout = p]

\* Mutant: an event is matched with the stored transfer only
TransferCreatedStored(w, t) ==
    LET p == t[1]
    IN  /\ event("transfer.created", t) \in events
        /\ RunBegins(w, Acks(w, "transfer.created", t, p))
        /\ payout' = IF payout[p].status # "paid" /\ payout[p].transfer = t
                     THEN [payout EXCEPT ![p] = [@ EXCEPT !.status = "paid", !.transfer = t]]
                     ELSE payout
        /\ UNCHANGED <<call, ledger, events, faults, transfers, key>>

\* One statement: by the stored transfer, or by the transfer group if none is stored
TransferCreated(w, t) ==
    LET p == t[1]
    IN  /\ event("transfer.created", t) \in events
        /\ RunBegins(w, Acks(w, "transfer.created", t, p))
        /\ payout' = IF payout[p].status # "paid" /\ payout[p].transfer \in {t, NoTransfer}
                     THEN [payout EXCEPT ![p] = [@ EXCEPT !.status = "paid", !.transfer = t]]
                     ELSE payout
        /\ UNCHANGED <<call, ledger, events, faults, transfers, key>>

\* The payout is looked up by the stored id; unknown or already failed: nothing to do
TransferReversed(w, t) ==
    LET p == t[1]
        ack == Acks(w, "transfer.reversed", t, p)
    IN  /\ event("transfer.reversed", t) \in events
        /\ RunBegins(w, IF payout[p].transfer = t /\ payout[p].status # "failed"
                        THEN [ack EXCEPT !.op = "return"] ELSE ack)
        /\ UNCHANGED <<call, ledger, payout, events, faults, transfers, key>>

\* One transaction: the payout has failed, its rows are owed again
ReturnsEarnings(w) ==
    LET p == run[w].payout
    IN  /\ run[w].op = "return"
        /\ payout' = [payout EXCEPT ![p].status = "failed"]
        /\ ledger' = [r \in Rows |-> IF ledger[r].payout = p
                                     THEN [ledger[r] EXCEPT !.payout = NoPayout] ELSE ledger[r]]
        /\ RunGoes(w, [run[w] EXCEPT !.op = "ack"])
        /\ UNCHANGED <<call, events, faults, transfers, key>>

\* processedWebhookEvent; Stripe gets its 200 and stops
TransferEventProcessed(w) ==
    /\ run[w].op = "ack"
    /\ events' = events \ {event(run[w].type, run[w].transfer)}
    /\ RunEnds(w)
    /\ UNCHANGED <<call, ledger, payout, faults, transfers, key>>

-----------------------------------------------------------------------------
(* Stripe.                                                                  *)

TransferReverses(p, n) ==
    /\ n \in DOMAIN transfers[p]
    /\ transfers[p][n] = "live"
    /\ transfers' = [transfers EXCEPT ![p][n] = "reversed"]
    /\ events' = events \cup {event("transfer.reversed", <<p, n>>)}
    /\ Fault("reversal")
    /\ UNCHANGED <<call, ledger, payout, run, key>>

\* A day has passed since the transfer: every request and every event about the
\* payout that was under way then is over.
KeyExpires(p) ==
    /\ key[p] # 0
    /\ \A w \in Runs : run[w].payout # p
    /\ \A e \in events : e.of[1] # p
    /\ key' = [key EXCEPT ![p] = 0]
    /\ Fault("expiry")
    /\ UNCHANGED <<call, ledger, payout, events, run, transfers>>

-----------------------------------------------------------------------------
RunStep(w) ==
    \/ createPayoutForLedgerRows(w)
    \/ ClaimConflicts(w)
    \/ NotPayable(w)
    \/ sendPayoutTransfer(w)
    \/ RecordsOutcome(w)
    \/ reconcileSentTransfer(w)
    \/ MarksPaid(w)
    \/ ReturnsEarnings(w)
    \/ TransferEventProcessed(w)

PayoutsNext ==
    \/ \E w \in Runs :
          \/ RunStep(w)
          \/ runPayouts(w)
          \/ payExpertNow(w)
          \/ \E p \in Payouts :
                \/ reattemptFailedPayouts(w, p)
                \/ markPaid(w, p)
                \/ \E n \in DOMAIN transfers[p] :
                      TransferCreated(w, <<p, n>>) \/ TransferReversed(w, <<p, n>>)
    \/ \E p \in Payouts : KeyExpires(p) \/ \E n \in DOMAIN transfers[p] : TransferReverses(p, n)
=============================================================================
