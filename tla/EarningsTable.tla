--------------------------- MODULE EarningsTable ----------------------------
(***************************************************************************)
(* The tables that say what an expert is owed and what has been paid, for  *)
(* one expert: consultations with their charge, expert_earnings_ledger and *)
(* expert_payouts.  Experts share no rows, so one is enough.               *)
(*                                                                         *)
(* A settled consultation has one ledger row; paying an exact amount       *)
(* splits a row, so a consultation's rows are numbered.                    *)
(***************************************************************************)
EXTENDS Integers, Sequences, FiniteSets, Functions, ConsultationMath

CONSTANTS
    Consultations,      \* the expert's calls
    ChargeKinds,        \* the payments of a call: its hold, a remainder
    MaxParts,           \* bound on the parts an earning is split into
    MaxPayouts,         \* bound on the payouts made
    GrossCents,         \* what the customer paid for a call
    CommissionPercent,  \* the platform's share
    FaultKinds,         \* which faults happen
    MaxFaults           \* and how many of them together

ASSUME PartsAssumption   == MaxParts \in Nat
ASSUME PayoutsAssumption == MaxPayouts \in Nat
ASSUME GrossAssumption   == GrossCents \in Nat \ {0} /\ CommissionPercent \in 0..100
ASSUME FaultAssumption   ==
    /\ FaultKinds \subseteq {"stripe", "lost", "refused", "restart", "reversal", "expiry"}
    /\ MaxFaults \in Nat

VARIABLES
    call,     \* consultations.billingStatus and the row of consultation_charges
    ledger,   \* expert_earnings_ledger
    payout,   \* expert_payouts
    events,   \* Stripe webhooks not yet acknowledged
    faults    \* how many faults there have been

Payouts  == 1..MaxPayouts
NoPayout == 0

\* A row is named by its consultation and the part of the earning it stands for
Rows    == Consultations \X (0..MaxParts)
Charges == Consultations \X ChargeKinds
RowsOf(c)    == {r \in Rows : r[1] = c}
ChargesOf(c) == {m \in Charges : m[1] = c}

\* The n-th transfer Stripe made for a payout
Transfers  == Payouts \X (Nat \ {0})
NoTransfer == <<NoPayout, 0>>

Call == [billing : {"pending", "charged", "refunded"},
         dispute : {"none", "open", "won", "lost"},
         review  : BOOLEAN]

Earning == [status     : {"none", "earned", "dropped"},
            gross      : Nat,
            commission : Nat,
            net        : Nat,
            payout     : Payouts \cup {NoPayout},
            held       : BOOLEAN]

(* A payout's stripeTransferId is transfer.  rows is no column: it is what   *)
(* the payout was made from, which the ledger forgets when a reversal       *)
(* returns the rows.                                                        *)
Payout == [status   : {"none", "processing", "paid", "failed"},
           cents    : Nat,
           transfer : Transfers \cup {NoTransfer},
           rows     : SUBSET Rows]

Event == [type : {"transfer.created", "transfer.reversed"}, of : Transfers, full : {FALSE}]
         \cup [type : {"dispute.created", "dispute.won", "dispute.lost"}, of : Charges, full : {FALSE}]
         \cup [type : {"charge.refunded"}, of : Charges, full : BOOLEAN]

event(type, x) == [type |-> type, of |-> x, full |-> FALSE]

NoEarning == [status |-> "none", gross |-> 0, commission |-> 0, net |-> 0,
              payout |-> NoPayout, held |-> FALSE]

Dropped == [NoEarning EXCEPT !.status = "dropped"]

EarningsTypeOK ==
    /\ call \in [Consultations -> Call]
    /\ ledger \in [Rows -> Earning]
    /\ payout \in [Payouts -> Payout]
    /\ events \subseteq Event
    /\ faults \in Nat

EarningsInit ==
    /\ call = [c \in Consultations |->
                  [billing |-> "pending", dispute |-> "none", review |-> FALSE]]
    /\ ledger = [r \in Rows |-> NoEarning]
    /\ payout = [p \in Payouts |->
                    [status |-> "none", cents |-> 0, transfer |-> NoTransfer, rows |-> {}]]
    /\ events = {}
    /\ faults = 0

Fault(kind) == kind \in FaultKinds /\ faults < MaxFaults /\ faults' = faults + 1

NetOf(R)   == SumFunctionOnSet([r \in R |-> ledger[r].net], R)
OwnedBy(p) == {r \in Rows : ledger[r].payout = p}
Owed(r)    == ledger[r].status = "earned" /\ ledger[r].payout = NoPayout
Payable(r) == Owed(r) /\ ~ledger[r].held
PaidOut(c) == \E r \in RowsOf(c) : ledger[r].payout # NoPayout

\* settleConsultation records the charge and credits the expert in one transaction
SettleRecords(c) ==
    LET commission == computeConsultationCommissionCents(GrossCents, CommissionPercent)
    IN  /\ call[c].billing = "pending"
        /\ call' = [call EXCEPT ![c].billing = "charged"]
        /\ ledger' = [ledger EXCEPT ![<<c, 0>>] =
                         [NoEarning EXCEPT !.status = "earned", !.gross = GrossCents,
                              !.commission = commission, !.net = GrossCents - commission]]
        /\ UNCHANGED <<payout, events, faults>>

\* deleteMany of the rows of a consultation that no payout has claimed
DropOwed(c) ==
    ledger' = [r \in Rows |-> IF r[1] = c /\ Owed(r) THEN Dropped ELSE ledger[r]]
=============================================================================
