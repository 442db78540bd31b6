------------------------------ MODULE Earnings ------------------------------
(***************************************************************************)
(* What becomes of an expert's earnings: payouts on one side, refunds and  *)
(* disputes on the other, working on the same ledger rows.                 *)
(***************************************************************************)
EXTENDS Payouts, Refunds

vars == <<call, ledger, payout, events, faults, payoutsOnly, refundsOnly>>

Init == EarningsInit /\ PayoutsInit /\ RefundsInit

\* The process restarts: what was in progress is gone, its events come again.
\* A "mark as settled" runs in admin-service, whose restart is the same loss.
BillingRestarts ==
    /\ run' = [w \in Runs |-> IdleRun]
    /\ task' = [k \in Tasks |-> IdleTask]
    /\ Fault("restart")
    /\ UNCHANGED <<call, ledger, payout, events, transfers, key, txn, recorded, refunds, disputes>>

PayoutSide == PayoutsNext /\ UNCHANGED refundsOnly

RefundSide == RefundsNext /\ UNCHANGED payoutsOnly

Settlement == (\E c \in Consultations : SettleRecords(c)) /\ UNCHANGED <<payoutsOnly, refundsOnly>>

Next == Settlement \/ PayoutSide \/ RefundSide \/ BillingRestarts

Spec == Init /\ [][Next]_vars

(***************************************************************************)
(* Fairness.  Requests and webhooks in progress run on; Stripe delivers an *)
(* event until it is acknowledged; PM2 starts the payout run and the retry *)
(* of failed payouts every day.  A run takes whatever is payable by then.  *)
(***************************************************************************)
PaysAll(w) ==
    /\ runPayouts(w)
    /\ run'[w].rows = {r \in Rows : Payable(r)}

TransferEventArrives(w, p) ==
    \E n \in DOMAIN transfers[p] : TransferCreated(w, <<p, n>>) \/ TransferReversed(w, <<p, n>>)

Fairness ==
    /\ \A w \in Runs :
          /\ WF_vars(RunStep(w) /\ UNCHANGED refundsOnly)
          /\ SF_vars(PaysAll(w) /\ UNCHANGED refundsOnly)
          /\ \A p \in Payouts :
                /\ SF_vars(reattemptFailedPayouts(w, p) /\ UNCHANGED refundsOnly)
                /\ SF_vars(TransferEventArrives(w, p) /\ UNCHANGED refundsOnly)
    /\ \A k \in Tasks :
          /\ WF_vars(TaskStep(k) /\ UNCHANGED payoutsOnly)
          /\ \A m \in Charges : SF_vars(EventArrives(k, m) /\ UNCHANGED payoutsOnly)

FairSpec == Spec /\ Fairness

-----------------------------------------------------------------------------
\* Every variable stays within the columns, messages and memories the code can write.
TypeOK == EarningsTypeOK /\ PayoutsTypeOK /\ RefundsTypeOK

Standing(p)  == {n \in DOMAIN transfers[p] : transfers[p][n] = "live"}
SentAgain(p) == Len(transfers[p]) > 1

\* Nobody is paid twice for a ledger row, whatever runs, admins, retries, lost
\* answers, reversals and webhooks interleave: of a payout at most one transfer
\* stands, and two payouts made from the same row do not both stand, unless one of
\* them was sent a second time after its transfer was reversed (a retry that looks
\* late does that).  This counts rows, not cents: a payout is for the amount its
\* rows had when they were read, though one has been split since.
EarningPaidOnce ==
    /\ \A p \in Payouts : \A m, n \in Standing(p) : m = n
    /\ \A p, q \in Payouts :
          p # q /\ Standing(p) # {} /\ Standing(q) # {} /\ ~SentAgain(p) /\ ~SentAgain(q)
          => payout[p].rows \cap payout[q].rows = {}

\* The earnings as behaviours: every step of every run, admin, retry, refund,
\* dispute and webhook is one of IdealEarnings, or changes nothing it can see.  It
\* sees the first transfer of each payout; one sent again after the first was
\* reversed it does not.
FirstStands(p) == transfers[p] # <<>> /\ transfers[p][1] = "live"
Reversed(p)    == transfers[p] # <<>> /\ transfers[p][1] = "reversed"
StandingFor(r) == {p \in Payouts : r \in payout[p].rows /\ FirstStands(p)}

Ideal == INSTANCE IdealEarnings WITH
            status <- [r \in Rows |-> ledger[r].status],
            sent <- [r \in Rows |-> Cardinality(StandingFor(r))]

EarningsAreIdeal == Ideal!Spec

\* Splitting an earning loses and creates nothing: in every row gross is
\* commission plus net, and the rows of a call that was not dropped add up to
\* what was settled.
RowsBalance == \A r \in Rows : ledger[r].gross = ledger[r].commission + ledger[r].net

BooksBalance ==
    /\ RowsBalance
    /\ \A c \in Consultations :
          call[c].billing # "pending" /\ (\A r \in RowsOf(c) : ledger[r].status # "dropped")
          => SumFunctionOnSet([r \in RowsOf(c) |-> ledger[r].gross], RowsOf(c)) = GrossCents

\* While the charge of a call is disputed, no new payout takes any part of its
\* earning: what no payout owns is held, also what a split cut off or a request in
\* progress had read, unless a reversed transfer brought it back.  What a payout
\* owned already stays with it and is paid; if it failed, it is sent again.
DisputedEarningIsHeld ==
    \A r \in Rows :
       call[r[1]].dispute = "open" /\ Payable(r)
       => \E p \in Payouts : r \in payout[p].rows /\ Reversed(p)

\* A call recorded as refunded was: all its payments were returned in full.
RefundedCallWasRefunded ==
    \A c \in Consultations :
       call[c].billing = "refunded" => \A m \in ChargesOf(c) : FullyRefunded(m)

-----------------------------------------------------------------------------
\* The process that made the payout stopped before the transfer: nothing sends it
Abandoned(p) ==
    /\ payout[p].status = "processing" /\ transfers[p] = <<>>
    /\ \A w \in Runs : run[w].payout # p

Rests(r) ==
    \/ ledger[r].status # "earned"
    \/ Owed(r) /\ ledger[r].held
    \/ \E p \in Payouts : ledger[r].payout = p /\ (payout[p].status = "paid" \/ Abandoned(p))

\* What is owed to the expert does not stay on its way: again and again it is
\* dropped, held or in a payout recorded as paid, though runs conflict, transfers
\* fail and are sent again.  A payout whose process stopped before the transfer is
\* the exception: no retry takes it up, and its rows stay where they are.
EarningComesToRest == \A r \in Rows : []<>Rests(r)

\* A failed payout that still owns earnings does not stay so.
FailedPayoutRecovers == \A p \in Payouts : []<>~Retryable(p)

=============================================================================
