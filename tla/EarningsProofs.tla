--------------------------- MODULE EarningsProofs ---------------------------
(***************************************************************************)
(* What holds of Earnings for every number of calls, payments, payouts,    *)
(* requests in progress and faults.                                        *)
(***************************************************************************)
EXTENDS Earnings, FiniteSums

(* The inductive invariant. *)

\* A request that has got to a payout names one
RunHasPayout == \A w \in Runs : run[w].op \notin {"idle", "claim"} => run[w].payout \in Payouts

\* No transfer of the payout stands
NothingStands(p) == \A n \in DOMAIN transfers[p] : transfers[p][n] = "reversed"

\* Only the latest transfer of a payout may stand, and it is the one Stripe knows
\* the key of, if any
OneTransfer ==
    \A p \in Payouts :
       /\ \A n \in DOMAIN transfers[p] : n # Len(transfers[p]) => transfers[p][n] = "reversed"
       /\ key[p] \in {0, Len(transfers[p])}

\* since whoever is about to send has made sure that none stands
SendsOnce ==
    \A w \in Runs : run[w].op = "send" /\ key[run[w].payout] = 0 => NothingStands(run[w].payout)

ReversalsHappened ==
    /\ \A w \in Runs : run[w].op = "return" => Reversed(run[w].payout)
    /\ \A p \in Payouts : \A n \in Nat \ {0} :
          event("transfer.reversed", <<p, n>>) \in events => Reversed(p)

\* The rows a payout was made from stay its own until its first transfer came back
OwnsItsRows ==
    \A p \in Payouts : \A r \in payout[p].rows : Reversed(p) \/ ledger[r].payout = p

OnlyEarnedIsPaid == \A r \in Rows : ledger[r].status # "earned" => ledger[r].payout = NoPayout

UnsettledHasNothing ==
    \A r \in Rows : call[r[1]].billing = "pending" => ledger[r].status = "none"

UnmadeIsUntouched ==
    \A p \in Payouts :
       payout[p].status = "none" => transfers[p] = <<>> /\ \A w \in Runs : run[w].payout # p

Typed == TypeOK /\ RowsBalance /\ RunHasPayout

Money == OneTransfer /\ SendsOnce /\ ReversalsHappened /\ UnmadeIsUntouched

Owners == OwnsItsRows /\ OnlyEarnedIsPaid /\ UnsettledHasNothing

IInv == Typed /\ Money /\ Owners

-----------------------------------------------------------------------------
(* Arithmetic. *)

(* The platform's share of a charge is at most the charge. *)
LEMMA CommissionWithinGross ==
    computeConsultationCommissionCents(GrossCents, CommissionPercent) \in 0..GrossCents
<1> DEFINE c == GrossCents * CommissionPercent
<1>1. c \in Nat /\ c <= 100 * GrossCents
  <2>1. GrossCents \in Nat /\ CommissionPercent \in 0..100
    BY GrossAssumption
  <2>2. GrossCents * (100 - CommissionPercent) >= 0
    BY <2>1
  <2>3. GrossCents * (100 - CommissionPercent) = 100 * GrossCents - c
    BY <2>1
  <2> QED
    BY <2>1, <2>2, <2>3
<1> HIDE DEF c
<1>2. (2 * c + 100) \div 200 \in 0..GrossCents
  BY <1>1, GrossAssumption
<1> QED
  BY <1>2 DEF computeConsultationCommissionCents, RoundDiv, c

(* splitLedgerRow never takes more commission with a part than the row has. *)
LEMMA PartCommissionBounds ==
    ASSUME NEW r \in Rows, ledger[r] \in Earning, NEW cents \in Nat, ledger[r].net > 0
    PROVE  PartCommission(r, cents) \in 0..ledger[r].commission
<1> DEFINE x == ledger[r].gross * cents
<1>1. ledger[r].gross \in Nat /\ ledger[r].net \in Nat /\ ledger[r].commission \in Nat
  BY DEF Earning
<1>2. x \in Nat
  BY <1>1
<1> HIDE DEF x
<1>3. RoundDiv(x, ledger[r].net) - cents \in Int
  BY <1>1, <1>2 DEF RoundDiv
<1> QED
  BY <1>1, <1>3 DEF PartCommission, x

(* Both rows of a split are well formed and balanced. *)
LEMMA SplitBalances ==
    ASSUME NEW r \in Rows, ledger[r] \in Earning,
           ledger[r].gross = ledger[r].commission + ledger[r].net,
           NEW cents \in 1..(ledger[r].net - 1)
    PROVE  /\ Part(r, cents) \in Earning /\ Shrunk(r, cents) \in Earning
           /\ Part(r, cents).gross = Part(r, cents).commission + Part(r, cents).net
           /\ Shrunk(r, cents).gross = Shrunk(r, cents).commission + Shrunk(r, cents).net
           /\ Part(r, cents).gross + Shrunk(r, cents).gross = ledger[r].gross
           /\ Part(r, cents).status = "earned" /\ Part(r, cents).payout = NoPayout
           /\ Shrunk(r, cents).status = ledger[r].status
           /\ Shrunk(r, cents).payout = ledger[r].payout
<1> DEFINE pc == PartCommission(r, cents)
<1>1. ledger[r].net \in Nat /\ ledger[r].commission \in Nat /\ ledger[r].gross \in Nat
  BY DEF Earning
<1>2. pc \in 0..ledger[r].commission
  BY <1>1, PartCommissionBounds
<1> HIDE DEF pc
<1>3. /\ cents \in Nat /\ pc \in Nat /\ cents + pc \in Nat
      /\ ledger[r].net - cents \in Nat /\ ledger[r].commission - pc \in Nat
      /\ ledger[r].gross - (cents + pc) \in Nat
      /\ ledger[r].gross - (cents + pc) = (ledger[r].commission - pc) + (ledger[r].net - cents)
  BY <1>1, <1>2
<1>4. Part(r, cents) = [status |-> "earned", gross |-> cents + pc, commission |-> pc,
                        net |-> cents, payout |-> NoPayout, held |-> FALSE]
  <2>1. Part(r, cents) = [NoEarning EXCEPT !.status = "earned", !.net = cents, !.commission = pc,
                                           !.gross = cents + pc]
    BY DEF Part, pc
  <2> QED
    BY <2>1 DEF NoEarning
<1>5. Shrunk(r, cents) = [status |-> ledger[r].status, gross |-> ledger[r].gross - (cents + pc),
                          commission |-> ledger[r].commission - pc,
                          net |-> ledger[r].net - cents,
                          payout |-> ledger[r].payout, held |-> ledger[r].held]
  <2>1. Shrunk(r, cents) = [ledger[r] EXCEPT !.net = @ - cents, !.commission = @ - pc,
                                             !.gross = @ - (cents + pc)]
    BY DEF Shrunk, pc
  <2> QED
    BY <2>1 DEF Earning
<1>6. Part(r, cents) \in Earning
  BY <1>3, <1>4 DEF Earning, NoPayout
<1>7. Shrunk(r, cents) \in Earning
  BY <1>3, <1>5 DEF Earning
<1>8. Part(r, cents).gross = Part(r, cents).commission + Part(r, cents).net
  BY <1>3, <1>4
<1>9. Shrunk(r, cents).gross = Shrunk(r, cents).commission + Shrunk(r, cents).net
  BY <1>3, <1>5
<1>10. Part(r, cents).gross + Shrunk(r, cents).gross = ledger[r].gross
  BY <1>1, <1>3, <1>4, <1>5
<1> QED
  BY <1>4, <1>5, <1>6, <1>7, <1>8, <1>9, <1>10

-----------------------------------------------------------------------------
(* Types: the payouts' side. *)

RunTyped == run \in [Runs -> Run] /\ RunHasPayout

StripeTyped == transfers \in [Payouts -> Seq({"live", "reversed"})] /\ key \in [Payouts -> Nat]

(* An idle slot is a well-formed one. *)
LEMMA IdleRunTyped == IdleRun \in Run /\ IdleRun.op = "idle"
BY DEF IdleRun, Run, NoPayout, NoTransfer

(* A slot that is filled or moves on keeps naming a payout. *)
LEMMA RunMoves ==
    ASSUME RunTyped, NEW w \in Runs, NEW x \in Run, RunBegins(w, x) \/ RunGoes(w, x),
           x.op \notin {"idle", "claim"} => x.payout \in Payouts
    PROVE  RunTyped'
BY DEF RunTyped, RunHasPayout, RunBegins, RunGoes

(* A slot is freed. *)
LEMMA RunStops ==
    ASSUME RunTyped, NEW w \in Runs, RunEnds(w)
    PROVE  RunTyped'
BY IdleRunTyped DEF RunTyped, RunHasPayout, RunEnds

(* The name of a transfer that there is. *)
LEMMA TransferName ==
    ASSUME NEW p \in Payouts, NEW n \in Nat \ {0}
    PROVE  <<p, n>> \in Transfers /\ event("transfer.created", <<p, n>>) \in Event
           /\ event("transfer.reversed", <<p, n>>) \in Event
BY DEF Transfers, Event, event

(* Reading what is owed remembers amounts that are natural numbers. *)
LEMMA ReadsTyped ==
    ASSUME RunTyped, ledger \in [Rows -> Earning], NEW w \in Runs, NEW R \in SUBSET Rows,
           NEW cents \in Nat, Reads(w, R, cents)
    PROVE  RunTyped'
<1> DEFINE x == [IdleRun EXCEPT !.op = "claim", !.rows = R, !.target = cents,
                     !.nets = [r \in Rows |-> IF r \in R THEN ledger[r].net ELSE 0]]
<1>1. [r \in Rows |-> IF r \in R THEN ledger[r].net ELSE 0] \in [Rows -> Nat]
  BY DEF Earning
<1>2. x \in Run /\ x.op = "claim"
  BY <1>1, IdleRunTyped DEF Run, IdleRun
<1>3. RunBegins(w, x)
  BY DEF Reads
<1> QED
  BY <1>2, <1>3, RunMoves

(* The claim makes a well-formed payout and keeps the rows balanced. *)
LEMMA ClaimTyped ==
    ASSUME EarningsTypeOK, NEW p \in Payouts, NEW T \in SUBSET Rows, NEW cents \in Nat,
           NEW base \in [Rows -> Earning],
           \A r \in Rows : base[r].gross = base[r].commission + base[r].net,
           claimRowsIntoPayout(p, T, base, cents)
    PROVE  ledger' \in [Rows -> Earning] /\ payout' \in [Payouts -> Payout] /\ RowsBalance'
<1>1. \A r \in Rows : /\ [base[r] EXCEPT !.payout = p] \in Earning
                      /\ [base[r] EXCEPT !.payout = p].gross = base[r].gross
                      /\ [base[r] EXCEPT !.payout = p].commission = base[r].commission
                      /\ [base[r] EXCEPT !.payout = p].net = base[r].net
  BY DEF Earning
<1>2. ledger' \in [Rows -> Earning]
  BY <1>1 DEF claimRowsIntoPayout
<1>3. RowsBalance'
  BY <1>1 DEF claimRowsIntoPayout, RowsBalance
<1>4. [status |-> "processing", cents |-> cents, transfer |-> NoTransfer, rows |-> T] \in Payout
  BY DEF Payout
<1>5. payout' \in [Payouts -> Payout]
  BY <1>4 DEF claimRowsIntoPayout, EarningsTypeOK
<1> QED
  BY <1>2, <1>3, <1>5

(* What was read of a balance: every request that claims has a target. *)
LEMMA ClaimsTyped ==
    ASSUME EarningsTypeOK, RunTyped, RowsBalance, NEW w \in Runs, Claims(w)
    PROVE  ledger' \in [Rows -> Earning] /\ payout' \in [Payouts -> Payout] /\ RowsBalance'
           /\ RunTyped'
<1> DEFINE nets == run[w].nets
           Total(T) == SumFunctionOnSet(nets, T)
           target == run[w].target
<1>1. target \in Nat /\ run[w].rows \subseteq Rows /\ nets \in [Rows -> Nat]
  BY DEF RunTyped, Run
<1>2. PICK p \in Payouts, T \in SUBSET run[w].rows :
           /\ \/ claimRowsIntoPayout(p, T, ledger, target)
              \/ \E r \in run[w].rows \ T, s \in Rows :
                    /\ (target - Total(T)) \in 1..(nets[r] - 1) /\ ledger[r].net = nets[r]
                    /\ claimRowsIntoPayout(p, T \cup {s},
                           [ledger EXCEPT ![r] = Shrunk(r, target - Total(T)),
                                          ![s] = Part(r, target - Total(T))], target)
           /\ RunGoes(w, [IdleRun EXCEPT !.op = "send", !.payout = p])
  BY Zenon DEF Claims
<1>3. RunTyped'
  <2>1. [IdleRun EXCEPT !.op = "send", !.payout = p] \in Run
        /\ [IdleRun EXCEPT !.op = "send", !.payout = p].payout = p
    BY IdleRunTyped DEF Run, IdleRun
  <2> QED
    BY <1>2, <2>1, RunMoves
<1>4. CASE claimRowsIntoPayout(p, T, ledger, target)
  BY <1>1, <1>3, <1>4, ClaimTyped DEF EarningsTypeOK, RowsBalance
<1>5. CASE ~claimRowsIntoPayout(p, T, ledger, target)
  <2>1. PICK r \in run[w].rows \ T, s \in Rows :
                    /\ (target - Total(T)) \in 1..(nets[r] - 1) /\ ledger[r].net = nets[r]
                    /\ claimRowsIntoPayout(p, T \cup {s},
                           [ledger EXCEPT ![r] = Shrunk(r, target - Total(T)),
                                          ![s] = Part(r, target - Total(T))], target)
    BY <1>2, <1>5, Zenon
  <2> DEFINE cents == target - Total(T)
             base == [ledger EXCEPT ![r] = Shrunk(r, cents), ![s] = Part(r, cents)]
  <2>2. r \in Rows /\ ledger[r] \in Earning /\ cents \in 1..(ledger[r].net - 1)
        /\ ledger[r].gross = ledger[r].commission + ledger[r].net
    BY <1>1, <2>1 DEF EarningsTypeOK, RowsBalance
  <2> HIDE DEF cents
  <2>3. /\ Part(r, cents) \in Earning /\ Shrunk(r, cents) \in Earning
        /\ Part(r, cents).gross = Part(r, cents).commission + Part(r, cents).net
        /\ Shrunk(r, cents).gross = Shrunk(r, cents).commission + Shrunk(r, cents).net
    BY <2>2, SplitBalances
  <2>4. base \in [Rows -> Earning]
    BY <2>2, <2>3 DEF EarningsTypeOK
  <2>5. \A x \in Rows : base[x].gross = base[x].commission + base[x].net
    BY <2>2, <2>3 DEF EarningsTypeOK, RowsBalance
  <2>6. claimRowsIntoPayout(p, T \cup {s}, base, target)
    BY <2>1 DEF cents
  <2>7. T \cup {s} \in SUBSET Rows
    BY <1>1
  <2> HIDE DEF base
  <2> QED
    BY <1>1, <1>3, <2>4, <2>5, <2>6, <2>7, ClaimTyped
<1> QED
  BY <1>4, <1>5

(* Every step of a payout request, a retry or a transfer webhook, and what    *)
(* Stripe does about them, keeps the types.                                   *)
LEMMA PayoutsTypes ==
    ASSUME Typed, PayoutsNext, UNCHANGED refundsOnly
    PROVE  EarningsTypeOK' /\ RunTyped' /\ StripeTyped' /\ RowsBalance'
<1>0. EarningsTypeOK /\ RunTyped /\ StripeTyped /\ RowsBalance
  BY DEF Typed, TypeOK, PayoutsTypeOK, RunTyped, StripeTyped
<1>a. ASSUME NEW w \in Runs, runPayouts(w)
      PROVE  EarningsTypeOK' /\ RunTyped' /\ StripeTyped' /\ RowsBalance'
  <2>1. RunTyped'
    BY <1>0, <1>a, ReadsTyped DEF runPayouts, EarningsTypeOK
  <2> QED
    BY <1>0, <1>a, <2>1 DEF runPayouts, EarningsTypeOK, StripeTyped, RowsBalance
<1>b. ASSUME NEW w \in Runs, payExpertNow(w)
      PROVE  EarningsTypeOK' /\ RunTyped' /\ StripeTyped' /\ RowsBalance'
  <2>1. PICK cents \in CustomCents \cup {NetOf({r \in Rows : Payable(r)})} :
           cents \in Nat /\ Reads(w, {r \in Rows : Payable(r)}, cents)
    BY <1>b, CustomAssumption DEF payExpertNow
  <2>2. RunTyped'
    BY <1>0, <2>1, ReadsTyped DEF EarningsTypeOK
  <2> QED
    BY <1>0, <1>b, <2>2 DEF payExpertNow, EarningsTypeOK, StripeTyped, RowsBalance
<1>c. ASSUME NEW w \in Runs, NotPayable(w)
      PROVE  EarningsTypeOK' /\ RunTyped' /\ StripeTyped' /\ RowsBalance'
  BY <1>0, <1>c, RunStops
     DEF NotPayable, Fault, EarningsTypeOK, StripeTyped, RowsBalance
<1>d. ASSUME NEW w \in Runs, createPayoutForLedgerRows(w)
      PROVE  EarningsTypeOK' /\ RunTyped' /\ StripeTyped' /\ RowsBalance'
  <2>1. ledger' \in [Rows -> Earning] /\ payout' \in [Payouts -> Payout] /\ RowsBalance' /\ RunTyped'
    BY <1>0, <1>d, ClaimsTyped DEF createPayoutForLedgerRows
  <2> QED
    BY <1>0, <1>d, <2>1 DEF createPayoutForLedgerRows, EarningsTypeOK, StripeTyped
<1>e. ASSUME NEW w \in Runs, ClaimConflicts(w)
      PROVE  EarningsTypeOK' /\ RunTyped' /\ StripeTyped' /\ RowsBalance'
  BY <1>0, <1>e, RunStops DEF ClaimConflicts, EarningsTypeOK, StripeTyped, RowsBalance
<1>f. ASSUME NEW w \in Runs, sendPayoutTransfer(w)
      PROVE  EarningsTypeOK' /\ RunTyped' /\ StripeTyped' /\ RowsBalance'
  <2> DEFINE p == run[w].payout
             n == Len(transfers[p]) + 1
  <2>1. run[w] \in Run /\ run[w].op = "send" /\ p \in Payouts
    BY <1>0, <1>f DEF sendPayoutTransfer, RunTyped, RunHasPayout
  <2>2. transfers[p] \in Seq({"live", "reversed"}) /\ n \in Nat \ {0} /\ key[p] \in Nat
    BY <1>0, <2>1 DEF StripeTyped
  <2>3. ASSUME Transfer(p)
        PROVE  StripeTyped' /\ events' \subseteq Event /\ key'[p] \in Nat \ {0}
    <3>1. CASE key[p] # 0
      BY <1>0, <2>2, <2>3, <3>1 DEF Transfer, StripeTyped, EarningsTypeOK
    <3>2. CASE key[p] = 0
      <4>1. /\ transfers' = [transfers EXCEPT ![p] = Append(@, "live")]
            /\ key' = [key EXCEPT ![p] = n]
            /\ events' = events \cup {event("transfer.created", <<p, n>>)}
        BY <2>3, <3>2 DEF Transfer
      <4>2. Append(transfers[p], "live") \in Seq({"live", "reversed"})
        BY <2>2
      <4>3. events' \subseteq Event
        BY <1>0, <2>1, <2>2, <4>1, TransferName DEF EarningsTypeOK
      <4> QED
        BY <1>0, <2>1, <2>2, <4>1, <4>2, <4>3 DEF StripeTyped
    <3> QED
      BY <3>1, <3>2
  <2>4. CASE Transfer(p) /\ RunGoes(w, [run[w] EXCEPT !.op = "record", !.transfer = <<p, key'[p]>>])
             /\ UNCHANGED faults
    <3>1. <<p, key'[p]>> \in Transfers
      BY <2>1, <2>3, <2>4, TransferName
    <3>2. [run[w] EXCEPT !.op = "record", !.transfer = <<p, key'[p]>>] \in Run
          /\ [run[w] EXCEPT !.op = "record", !.transfer = <<p, key'[p]>>].payout = p
      BY <2>1, <3>1 DEF Run
    <3>3. RunTyped'
      BY <1>0, <2>1, <2>4, <3>2, RunMoves
    <3> QED
      BY <1>0, <1>f, <2>3, <2>4, <3>3 DEF sendPayoutTransfer, EarningsTypeOK, RowsBalance
  <2>5. [run[w] EXCEPT !.op = "record"] \in Run /\ [run[w] EXCEPT !.op = "record"].payout = p
    BY <2>1 DEF Run
  <2>6. CASE Fault("lost") /\ Transfer(p) /\ RunGoes(w, [run[w] EXCEPT !.op = "record"])
    <3>1. RunTyped'
      BY <1>0, <2>1, <2>5, <2>6, RunMoves
    <3> QED
      BY <1>0, <1>f, <2>3, <2>6, <3>1 DEF sendPayoutTransfer, EarningsTypeOK, RowsBalance, Fault
  <2>7. CASE Fault("stripe") /\ RunGoes(w, [run[w] EXCEPT !.op = "record"])
             /\ UNCHANGED <<transfers, key, events>>
    <3>1. RunTyped'
      BY <1>0, <2>1, <2>5, <2>7, RunMoves
    <3> QED
      BY <1>0, <1>f, <2>7, <3>1
         DEF sendPayoutTransfer, EarningsTypeOK, RowsBalance, StripeTyped, Fault
  <2> QED
    BY <1>f, <2>4, <2>6, <2>7 DEF sendPayoutTransfer
<1>g. ASSUME NEW w \in Runs, RecordsOutcome(w)
      PROVE  EarningsTypeOK' /\ RunTyped' /\ StripeTyped' /\ RowsBalance'
  <2>1. run[w].transfer \in Transfers \cup {NoTransfer} /\ run[w].payout \in Payouts
    BY <1>0, <1>g DEF RecordsOutcome, RunTyped, RunHasPayout, Run
  <2>2. payout' \in [Payouts -> Payout]
    <3> DEFINE p == run[w].payout
               t == run[w].transfer
    <3>1. payout[p] \in Payout
      BY <1>0, <2>1 DEF EarningsTypeOK
    <3>2. /\ [payout[p] EXCEPT !.status = "failed"] \in Payout
          /\ [payout[p] EXCEPT !.status = "paid", !.transfer = t] \in Payout
      BY <2>1, <3>1 DEF Payout
    <3>3. payout' = [payout EXCEPT ![p] = [payout[p] EXCEPT !.status = "failed"]]
          \/ payout' = [payout EXCEPT ![p] = [payout[p] EXCEPT !.status = "paid", !.transfer = t]]
      BY <1>g DEF RecordsOutcome
    <3> QED
      BY <1>0, <3>2, <3>3 DEF EarningsTypeOK
  <2>3. RunTyped'
    BY <1>0, <1>g, RunStops DEF RecordsOutcome
  <2> QED
    BY <1>0, <1>g, <2>2, <2>3 DEF RecordsOutcome, EarningsTypeOK, StripeTyped, RowsBalance
<1>h. ASSUME NEW w \in Runs, NEW p \in Payouts, reattemptFailedPayouts(w, p) \/ markPaid(w, p)
      PROVE  EarningsTypeOK' /\ RunTyped' /\ StripeTyped' /\ RowsBalance'
  <2>1. \A op \in {"reconcile", "mark"} :
           /\ [IdleRun EXCEPT !.op = op, !.payout = p] \in Run
           /\ [IdleRun EXCEPT !.op = op, !.payout = p].payout = p
    BY IdleRunTyped DEF Run, IdleRun
  <2>2. RunTyped'
    BY <1>0, <1>h, <2>1, RunMoves DEF reattemptFailedPayouts, markPaid
  <2> QED
    BY <1>0, <1>h, <2>2
       DEF reattemptFailedPayouts, markPaid, EarningsTypeOK, StripeTyped, RowsBalance
<1>i. ASSUME NEW w \in Runs, reconcileSentTransfer(w)
      PROVE  EarningsTypeOK' /\ RunTyped' /\ StripeTyped' /\ RowsBalance'
  <2> DEFINE p == run[w].payout
             n == Len(transfers[p])
  <2>1. run[w] \in Run /\ p \in Payouts /\ n \in Nat
    BY <1>0, <1>i DEF reconcileSentTransfer, RunTyped, RunHasPayout, StripeTyped
  <2>2. RunTyped'
    <3>1. CASE n > 0 /\ RunGoes(w, [run[w] EXCEPT !.op = "record", !.transfer = <<p, n>>])
      <4>1. <<p, n>> \in Transfers
        BY <2>1, <3>1, TransferName
      <4>2. [run[w] EXCEPT !.op = "record", !.transfer = <<p, n>>] \in Run
            /\ [run[w] EXCEPT !.op = "record", !.transfer = <<p, n>>].payout = p
        BY <2>1, <4>1 DEF Run
      <4> QED
        BY <1>0, <2>1, <3>1, <4>2, RunMoves
    <3>2. CASE RunGoes(w, [run[w] EXCEPT !.op = "send"])
      <4>1. [run[w] EXCEPT !.op = "send"] \in Run /\ [run[w] EXCEPT !.op = "send"].payout = p
        BY <2>1 DEF Run
      <4> QED
        BY <1>0, <2>1, <3>2, <4>1, RunMoves
    <3>3. CASE RunEnds(w)
      BY <1>0, <3>3, RunStops
    <3> QED
      BY <1>i, <3>1, <3>2, <3>3 DEF reconcileSentTransfer
  <2>3. faults' \in Nat
    BY <1>0, <1>i DEF reconcileSentTransfer, Fault, EarningsTypeOK
  <2> QED
    BY <1>0, <1>i, <2>2, <2>3 DEF reconcileSentTransfer, EarningsTypeOK, StripeTyped, RowsBalance
<1>j. ASSUME NEW w \in Runs, MarksPaid(w)
      PROVE  EarningsTypeOK' /\ RunTyped' /\ StripeTyped' /\ RowsBalance'
  BY <1>0, <1>j, RunStops DEF MarksPaid, EarningsTypeOK, Payout, StripeTyped, RowsBalance
<1>k. ASSUME NEW p \in Payouts, NEW n \in DOMAIN transfers[p], NEW w \in Runs,
             TransferCreated(w, <<p, n>>) \/ TransferReversed(w, <<p, n>>)
      PROVE  EarningsTypeOK' /\ RunTyped' /\ StripeTyped' /\ RowsBalance'
  <2>1. n \in Nat \ {0}
    BY <1>0 DEF StripeTyped
  <2>2. <<p, n>> \in Transfers /\ <<p, n>>[1] = p
    BY <2>1, TransferName
  <2>3. \A type \in {"transfer.created", "transfer.reversed"} :
           /\ Acks(w, type, <<p, n>>, p) \in Run /\ Acks(w, type, <<p, n>>, p).payout = p
           /\ [Acks(w, type, <<p, n>>, p) EXCEPT !.op = "return"] \in Run
           /\ [Acks(w, type, <<p, n>>, p) EXCEPT !.op = "return"].payout = p
    BY <2>2, IdleRunTyped DEF Acks, Run, IdleRun
  <2>4. RunTyped'
    BY <1>0, <1>k, <2>2, <2>3, RunMoves DEF TransferCreated, TransferReversed
  <2>5. payout' \in [Payouts -> Payout]
    <3>1. payout[p] \in Payout
      BY <1>0 DEF EarningsTypeOK
    <3>2. [payout[p] EXCEPT !.status = "paid", !.transfer = <<p, n>>] \in Payout
      BY <2>2, <3>1 DEF Payout
    <3>3. payout' = payout
          \/ payout' = [payout EXCEPT ![p] = [payout[p] EXCEPT !.status = "paid", !.transfer = <<p, n>>]]
      BY <1>k, <2>2 DEF TransferCreated, TransferReversed
    <3> QED
      BY <1>0, <3>2, <3>3 DEF EarningsTypeOK
  <2> QED
    BY <1>0, <1>k, <2>4, <2>5
       DEF TransferCreated, TransferReversed, EarningsTypeOK, StripeTyped, RowsBalance
<1>l. ASSUME NEW w \in Runs, ReturnsEarnings(w)
      PROVE  EarningsTypeOK' /\ RunTyped' /\ StripeTyped' /\ RowsBalance'
  <2>1. run[w] \in Run /\ run[w].payout \in Payouts
    BY <1>0, <1>l DEF ReturnsEarnings, RunTyped, RunHasPayout
  <2>2. [run[w] EXCEPT !.op = "ack"] \in Run /\ [run[w] EXCEPT !.op = "ack"].payout = run[w].payout
    BY <2>1 DEF Run
  <2>3. RunTyped'
    BY <1>0, <1>l, <2>1, <2>2, RunMoves DEF ReturnsEarnings
  <2>4. payout' \in [Payouts -> Payout]
    BY <1>0, <1>l DEF ReturnsEarnings, EarningsTypeOK, Payout
  <2>5. \A r \in Rows : /\ [ledger[r] EXCEPT !.payout = NoPayout] \in Earning
                        /\ [ledger[r] EXCEPT !.payout = NoPayout].gross = ledger[r].gross
                        /\ [ledger[r] EXCEPT !.payout = NoPayout].commission = ledger[r].commission
                        /\ [ledger[r] EXCEPT !.payout = NoPayout].net = ledger[r].net
    BY <1>0 DEF EarningsTypeOK, Earning
  <2>6. ledger' \in [Rows -> Earning] /\ RowsBalance'
    BY <1>0, <1>l, <2>5 DEF ReturnsEarnings, EarningsTypeOK, RowsBalance
  <2> QED
    BY <1>0, <1>l, <2>3, <2>4, <2>6 DEF ReturnsEarnings, EarningsTypeOK, StripeTyped
<1>m. ASSUME NEW w \in Runs, TransferEventProcessed(w)
      PROVE  EarningsTypeOK' /\ RunTyped' /\ StripeTyped' /\ RowsBalance'
  BY <1>0, <1>m, RunStops DEF TransferEventProcessed, EarningsTypeOK, StripeTyped, RowsBalance
<1>n. ASSUME NEW p \in Payouts, NEW n \in DOMAIN transfers[p], TransferReverses(p, n)
      PROVE  EarningsTypeOK' /\ RunTyped' /\ StripeTyped' /\ RowsBalance'
  <2>1. n \in Nat \ {0} /\ transfers[p] \in Seq({"live", "reversed"})
    BY <1>0 DEF StripeTyped
  <2>2. [transfers[p] EXCEPT ![n] = "reversed"] \in Seq({"live", "reversed"})
    BY <2>1
  <2>3. StripeTyped'
    BY <1>0, <1>n, <2>2 DEF TransferReverses, StripeTyped
  <2>4. events' \subseteq Event
    BY <1>0, <1>n, <2>1, TransferName DEF TransferReverses, EarningsTypeOK
  <2> QED
    BY <1>0, <1>n, <2>3, <2>4
       DEF TransferReverses, Fault, EarningsTypeOK, RunTyped, RunHasPayout, RowsBalance
<1>o. ASSUME NEW p \in Payouts, KeyExpires(p)
      PROVE  EarningsTypeOK' /\ RunTyped' /\ StripeTyped' /\ RowsBalance'
  BY <1>0, <1>o
     DEF KeyExpires, Fault, EarningsTypeOK, RunTyped, RunHasPayout, StripeTyped, RowsBalance
<1> QED
  BY <1>a, <1>b, <1>c, <1>d, <1>e, <1>f, <1>g, <1>h, <1>i, <1>j, <1>k, <1>l, <1>m, <1>n, <1>o
     DEF PayoutsNext, RunStep

-----------------------------------------------------------------------------
(* Types: the refunds' side. *)

(* What a slot of Tasks holds follows from what it is doing. *)
LEMMA TaskKinds ==
    ASSUME RefundsTypeOK, NEW k \in Tasks
    PROVE  /\ task[k].op \in {"refund", "record"} => task[k] \in RefundTask
           /\ task[k].op \in {"refunded", "hold", "close", "ack"} => task[k] \in HookTask
BY DEF RefundsTypeOK, RefundTask, HookTask, IdleTask

(* Dropping what is owed for a call keeps the rows well formed and balanced. *)
LEMMA DropTyped ==
    ASSUME ledger \in [Rows -> Earning], RowsBalance, NEW c, DropOwed(c)
    PROVE  ledger' \in [Rows -> Earning] /\ RowsBalance'
<1>1. NoEarning \in Earning /\ NoEarning.gross = NoEarning.commission + NoEarning.net
  BY DEF NoEarning, Earning, NoPayout
<1>2. Dropped \in Earning /\ Dropped.gross = Dropped.commission + Dropped.net
  BY <1>1 DEF Dropped, Earning
<1> QED
  BY <1>2 DEF DropOwed, RowsBalance

(* Holding an earning back, or releasing it, leaves its amounts. *)
LEMMA HoldTyped ==
    ASSUME ledger \in [Rows -> Earning], RowsBalance, NEW b \in BOOLEAN, NEW H \in SUBSET Rows,
           ledger' = [r \in Rows |-> IF r \in H THEN [ledger[r] EXCEPT !.held = b] ELSE ledger[r]]
    PROVE  ledger' \in [Rows -> Earning] /\ RowsBalance'
<1>1. \A r \in Rows : /\ [ledger[r] EXCEPT !.held = b] \in Earning
                      /\ [ledger[r] EXCEPT !.held = b].gross = ledger[r].gross
                      /\ [ledger[r] EXCEPT !.held = b].commission = ledger[r].commission
                      /\ [ledger[r] EXCEPT !.held = b].net = ledger[r].net
  BY DEF Earning
<1> QED
  BY <1>1 DEF RowsBalance

(* A call is marked for review, refunded or disputed. *)
LEMMA CallTyped ==
    ASSUME call \in [Consultations -> Call], NEW c, NEW b \in {"pending", "charged", "refunded"},
           NEW d \in {"none", "open", "won", "lost"}, NEW v \in BOOLEAN
    PROVE  /\ [call EXCEPT ![c].billing = b] \in [Consultations -> Call]
           /\ [call EXCEPT ![c].review = v] \in [Consultations -> Call]
           /\ [call EXCEPT ![c].billing = b, ![c].review = v] \in [Consultations -> Call]
           /\ [call EXCEPT ![c].dispute = d, ![c].review = v] \in [Consultations -> Call]
BY DEF Call

(* A webhook that begins is a well-formed task. *)
LEMMA HookedTyped ==
    ASSUME RefundsTypeOK, NEW k \in Tasks, NEW op \in {"refunded", "hold", "close", "ack"},
           NEW e \in Event, NEW others \in BOOLEAN, NEW fresh \in SUBSET Sources,
           Hooked(k, op, e, others, fresh)
    PROVE  task' \in [Tasks -> RefundTask \cup HookTask \cup {IdleTask}]
<1> DEFINE x == [op |-> op, event |-> e, paidOut |-> PaidOut(e.of[1]), others |-> others,
                 fresh |-> fresh]
<1>1. PaidOut(e.of[1]) \in BOOLEAN
  BY DEF PaidOut
<1>2. x \in HookTask
  BY <1>1 DEF HookTask
<1> QED
  BY <1>2 DEF Hooked, TaskBegins, RefundsTypeOK

(* A webhook that has done its work still names its event. *)
LEMMA AckTyped ==
    ASSUME RefundsTypeOK, NEW k \in Tasks, task[k] \in HookTask, HookGoesToAck(k)
    PROVE  task' \in [Tasks -> RefundTask \cup HookTask \cup {IdleTask}]
<1>1. [task[k] EXCEPT !.op = "ack"] \in HookTask
  BY DEF HookTask
<1> QED
  BY <1>1 DEF HookGoesToAck, TaskGoes, RefundsTypeOK

(* The events about the payments of calls. *)
LEMMA ChargeEvents ==
    ASSUME NEW m \in Charges, NEW full \in BOOLEAN
    PROVE  /\ refunded(m, full) \in Event
           /\ event("dispute.created", m) \in Event
           /\ event("dispute.won", m) \in Event /\ event("dispute.lost", m) \in Event
BY DEF Event, event, refunded

(* Every step of a refund, of its webhooks, of Stripe and of the customer's   *)
(* bank keeps the types.                                                      *)
LEMMA RefundsTypes ==
    ASSUME Typed, RefundsNext, UNCHANGED payoutsOnly
    PROVE  EarningsTypeOK' /\ RefundsTypeOK' /\ RowsBalance'
<1>0. EarningsTypeOK /\ RefundsTypeOK /\ RowsBalance /\ ledger \in [Rows -> Earning]
      /\ call \in [Consultations -> Call] /\ events \subseteq Event /\ faults \in Nat
  BY DEF Typed, TypeOK, EarningsTypeOK
<1>a. ASSUME NEW k \in Tasks, NEW c \in Consultations, refundConsultation(k, c)
      PROVE  EarningsTypeOK' /\ RefundsTypeOK' /\ RowsBalance'
  <2>1. PICK of \in SUBSET Charges : TaskBegins(k, [op |-> "refund", c |-> c, of |-> of, todo |-> of])
    BY <1>a DEF refundConsultation, ChargesOf
  <2>2. [op |-> "refund", c |-> c, of |-> of, todo |-> of] \in RefundTask
    BY DEF RefundTask
  <2>3. RefundsTypeOK'
    BY <1>0, <1>a, <2>1, <2>2 DEF refundConsultation, TaskBegins, RefundsTypeOK
  <2> QED
    BY <1>0, <1>a, <2>3 DEF refundConsultation, EarningsTypeOK, RowsBalance
<1>b. ASSUME NEW k \in Tasks, RefundsPayment(k)
      PROVE  EarningsTypeOK' /\ RefundsTypeOK' /\ RowsBalance'
  <2>1. task[k] \in RefundTask
    BY <1>0, <1>b, TaskKinds DEF RefundsPayment
  <2>2. ASSUME NEW m \in Charges, Refund(m)
        PROVE  refunds' \in [Charges -> SUBSET Sources] /\ events' \subseteq Event
    <3>1. CASE "portal" \in refunds[m]
      BY <1>0, <2>2, <3>1 DEF Refund, RefundsTypeOK
    <3>2. CASE "portal" \notin refunds[m]
      <4>1. /\ refunds' = [refunds EXCEPT ![m] = @ \cup {"portal"}]
            /\ events' = events \cup {refunded(m, TRUE)}
        BY <2>2, <3>2 DEF Refund
      <4>2. refunded(m, TRUE) \in Event
        BY ChargeEvents
      <4> QED
        BY <1>0, <4>1, <4>2 DEF RefundsTypeOK, Sources
    <3> QED
      BY <3>1, <3>2
  <2>3. ASSUME TaskEnds(k)
        PROVE  task' \in [Tasks -> RefundTask \cup HookTask \cup {IdleTask}]
    BY <1>0, <2>3 DEF TaskEnds, RefundsTypeOK
  <2>4. PICK m \in task[k].todo :
           \/ /\ Refund(m)
              /\ TaskGoes(k, [task[k] EXCEPT !.todo = @ \ {m},
                                 !.op = IF task[k].todo = {m} THEN "record" ELSE @])
              /\ UNCHANGED faults
           \/ Fault("lost") /\ Refund(m) /\ TaskEnds(k)
           \/ /\ Fault("stripe") \/ UNCHANGED faults
              /\ TaskEnds(k)
              /\ UNCHANGED <<refunds, events>>
    BY <1>b DEF RefundsPayment
  <2>5. m \in Charges
    BY <2>1 DEF RefundTask
  <2>6. [task[k] EXCEPT !.todo = @ \ {m}, !.op = IF task[k].todo = {m} THEN "record" ELSE @]
           \in RefundTask
    BY <2>1 DEF RefundTask
  <2>7. /\ refunds' \in [Charges -> SUBSET Sources] /\ events' \subseteq Event /\ faults' \in Nat
        /\ task' \in [Tasks -> RefundTask \cup HookTask \cup {IdleTask}]
    BY <1>0, <2>2, <2>3, <2>4, <2>5, <2>6 DEF TaskGoes, RefundsTypeOK, Fault
  <2> QED
    BY <1>0, <1>b, <2>7 DEF RefundsPayment, EarningsTypeOK, RefundsTypeOK, RowsBalance
<1>c. ASSUME NEW k \in Tasks, RefundRecords(k)
      PROVE  EarningsTypeOK' /\ RefundsTypeOK' /\ RowsBalance'
  <2>1. ledger' \in [Rows -> Earning] /\ RowsBalance'
    BY <1>0, <1>c, DropTyped DEF RefundRecords
  <2>2. call' \in [Consultations -> Call]
    BY <1>0, <1>c, CallTyped DEF RefundRecords
  <2>3. RefundsTypeOK'
    BY <1>0, <1>c DEF RefundRecords, RefundsTypeOK, TaskEnds, Sources
  <2> QED
    BY <1>0, <1>c, <2>1, <2>2, <2>3 DEF RefundRecords, EarningsTypeOK
<1>d. ASSUME NEW k \in Tasks, NEW m \in Charges, NEW full \in BOOLEAN, ChargeRefunded(k, m, full)
      PROVE  EarningsTypeOK' /\ RefundsTypeOK' /\ RowsBalance'
  <2>1. FreshRefunds(m) \in SUBSET Sources /\ OthersRefunded(m) \in BOOLEAN
    BY DEF FreshRefunds, OthersRefunded, Sources
  <2>2. task' \in [Tasks -> RefundTask \cup HookTask \cup {IdleTask}]
    BY <1>0, <1>d, <2>1, HookedTyped, ChargeEvents DEF ChargeRefunded
  <2> QED
    BY <1>0, <1>d, <2>2 DEF ChargeRefunded, EarningsTypeOK, RefundsTypeOK, RowsBalance
<1>e. ASSUME NEW k \in Tasks, handleChargeRefunded(k)
      PROVE  EarningsTypeOK' /\ RefundsTypeOK' /\ RowsBalance'
  <2>1. task[k] \in HookTask
    BY <1>0, <1>e, TaskKinds DEF handleChargeRefunded
  <2>2. task' \in [Tasks -> RefundTask \cup HookTask \cup {IdleTask}]
    BY <1>0, <1>e, <2>1, AckTyped DEF handleChargeRefunded
  <2>3. task[k].fresh \in SUBSET Sources
    BY <2>1 DEF HookTask
  <2>4. recorded' \in [Charges -> SUBSET Sources] /\ txn' \in [Charges -> {"succeeded", "refunded"}]
    BY <1>0, <1>e, <2>3 DEF handleChargeRefunded, RefundsTypeOK
  <2> DEFINE c == task[k].event.of[1]
             v == call[c].review \/ task[k].paidOut
  <2>5. \/ DropOwed(c) /\ call' = [call EXCEPT ![c].billing = "refunded", ![c].review = v]
        \/ ledger' = ledger /\ call' = [call EXCEPT ![c].review = TRUE]
    BY <1>e DEF handleChargeRefunded
  <2>6. v \in BOOLEAN
    OBVIOUS
  <2> HIDE DEF c, v
  <2>7. call' \in [Consultations -> Call]
    <3>1. [call EXCEPT ![c].billing = "refunded", ![c].review = v] \in [Consultations -> Call]
      BY <1>0, <2>6 DEF Call
    <3>2. [call EXCEPT ![c].review = TRUE] \in [Consultations -> Call]
      BY <1>0 DEF Call
    <3> QED
      BY <2>5, <3>1, <3>2
  <2>8. ledger' \in [Rows -> Earning] /\ RowsBalance'
    BY <1>0, <2>5, DropTyped DEF RowsBalance
  <2> QED
    BY <1>0, <1>e, <2>2, <2>4, <2>7, <2>8 DEF handleChargeRefunded, EarningsTypeOK, RefundsTypeOK
<1>f. ASSUME NEW k \in Tasks, NEW m \in Charges, DisputeCreated(k, m) \/ DisputeClosed(k, m)
      PROVE  EarningsTypeOK' /\ RefundsTypeOK' /\ RowsBalance'
  <2>1. task' \in [Tasks -> RefundTask \cup HookTask \cup {IdleTask}]
    <3>1. FALSE \in BOOLEAN /\ {} \in SUBSET Sources
      OBVIOUS
    <3>2. CASE DisputeCreated(k, m)
      <4>1. Hooked(k, "hold", event("dispute.created", m), FALSE, {})
            /\ event("dispute.created", m) \in Event
        BY <3>2, ChargeEvents DEF DisputeCreated
      <4> QED
        BY <1>0, <3>1, <4>1, HookedTyped
    <3>3. CASE DisputeClosed(k, m)
      <4>1. PICK type \in {"dispute.won", "dispute.lost"} :
               Hooked(k, "close", event(type, m), FALSE, {})
        BY <3>3 DEF DisputeClosed
      <4>2. event(type, m) \in Event
        BY ChargeEvents
      <4> QED
        BY <1>0, <3>1, <4>1, <4>2, HookedTyped
    <3> QED
      BY <1>f, <3>2, <3>3
  <2> QED
    BY <1>0, <1>f, <2>1 DEF DisputeCreated, DisputeClosed, EarningsTypeOK, RefundsTypeOK, RowsBalance
<1>g. ASSUME NEW k \in Tasks, handleDisputeCreated(k)
      PROVE  EarningsTypeOK' /\ RefundsTypeOK' /\ RowsBalance'
  <2> DEFINE c == task[k].event.of[1]
             v == call[c].review \/ task[k].paidOut
             H == {r \in Rows : r[1] = c /\ Owed(r)}
  <2>1. task' \in [Tasks -> RefundTask \cup HookTask \cup {IdleTask}]
    BY <1>0, <1>g, TaskKinds, AckTyped DEF handleDisputeCreated
  <2>2. call' = [call EXCEPT ![c].dispute = "open", ![c].review = v] /\ v \in BOOLEAN
    BY <1>g DEF handleDisputeCreated
  <2>3. ledger' = [r \in Rows |-> IF r \in H THEN [ledger[r] EXCEPT !.held = TRUE] ELSE ledger[r]]
    BY <1>g DEF handleDisputeCreated
  <2>4. call' \in [Consultations -> Call]
    <3> HIDE DEF c, v
    <3> QED BY <1>0, <2>2, CallTyped
  <2>5. ledger' \in [Rows -> Earning] /\ RowsBalance'
    BY <1>0, <2>3, HoldTyped
  <2> QED
    BY <1>0, <1>g, <2>1, <2>4, <2>5 DEF handleDisputeCreated, EarningsTypeOK, RefundsTypeOK
<1>h. ASSUME NEW k \in Tasks, handleDisputeClosed(k)
      PROVE  EarningsTypeOK' /\ RefundsTypeOK' /\ RowsBalance'
  <2> DEFINE c == task[k].event.of[1]
             lost == task[k].event.type = "dispute.lost"
             d == IF lost THEN "lost" ELSE "won"
             v == call[c].review \/ (lost /\ task[k].paidOut)
             H == {r \in Rows : r[1] = c}
  <2>1. task' \in [Tasks -> RefundTask \cup HookTask \cup {IdleTask}]
    BY <1>0, <1>h, TaskKinds, AckTyped DEF handleDisputeClosed
  <2>2. call' = [call EXCEPT ![c].dispute = d, ![c].review = v] /\ v \in BOOLEAN
        /\ d \in {"none", "open", "won", "lost"}
    BY <1>h DEF handleDisputeClosed
  <2>3. \/ DropOwed(c)
        \/ ledger' = [r \in Rows |-> IF r \in H THEN [ledger[r] EXCEPT !.held = FALSE] ELSE ledger[r]]
    BY <1>h DEF handleDisputeClosed
  <2>4. call' \in [Consultations -> Call]
    <3> HIDE DEF c, v, d
    <3> QED BY <1>0, <2>2, CallTyped
  <2>5. ledger' \in [Rows -> Earning] /\ RowsBalance'
    BY <1>0, <2>3, HoldTyped, DropTyped
  <2> QED
    BY <1>0, <1>h, <2>1, <2>4, <2>5 DEF handleDisputeClosed, EarningsTypeOK, RefundsTypeOK
<1>i. ASSUME NEW k \in Tasks, EventProcessed(k)
      PROVE  EarningsTypeOK' /\ RefundsTypeOK' /\ RowsBalance'
  BY <1>0, <1>i DEF EventProcessed, TaskEnds, EarningsTypeOK, RefundsTypeOK, RowsBalance
<1>j. ASSUME NEW m \in Charges, NEW source \in {"part", "dashboard"}, DashboardRefunds(m, source)
      PROVE  EarningsTypeOK' /\ RefundsTypeOK' /\ RowsBalance'
  <2>1. (source = "dashboard") \in BOOLEAN
    OBVIOUS
  <2>2. events' \subseteq Event
    BY <1>0, <1>j, <2>1, ChargeEvents DEF DashboardRefunds
  <2> QED
    BY <1>0, <1>j, <2>2 DEF DashboardRefunds, EarningsTypeOK, RefundsTypeOK, RowsBalance, Sources
<1>k. ASSUME NEW m \in Charges, DisputeOpens(m) \/ \E how \in {"won", "lost"} : DisputeCloses(m, how)
      PROVE  EarningsTypeOK' /\ RefundsTypeOK' /\ RowsBalance'
  <2>1. events' \subseteq Event
    BY <1>0, <1>k, ChargeEvents DEF DisputeOpens, DisputeCloses
  <2> QED
    BY <1>0, <1>k, <2>1 DEF DisputeOpens, DisputeCloses, EarningsTypeOK, RefundsTypeOK, RowsBalance
<1> QED
  BY <1>a, <1>b, <1>c, <1>d, <1>e, <1>f, <1>g, <1>h, <1>i, <1>j, <1>k
     DEF RefundsNext, TaskStep, EventArrives

-----------------------------------------------------------------------------
(* Types: settlement, restarts, and all of it.                              *)

(* What settlement writes to the ledger is well formed and balanced. *)
LEMMA SettledTyped ==
    ASSUME EarningsTypeOK, RowsBalance, NEW c \in Consultations, SettleRecords(c)
    PROVE  EarningsTypeOK' /\ RowsBalance'
<1> DEFINE commission == computeConsultationCommissionCents(GrossCents, CommissionPercent)
           x == [NoEarning EXCEPT !.status = "earned", !.gross = GrossCents,
                     !.commission = commission, !.net = GrossCents - commission]
<1>1. commission \in 0..GrossCents
  BY CommissionWithinGross
<1> HIDE DEF commission
<1>2. /\ commission \in Nat /\ GrossCents \in Nat /\ GrossCents - commission \in Nat
      /\ GrossCents = commission + (GrossCents - commission)
  BY <1>1, GrossAssumption
<1>3. NoEarning \in Earning
  BY DEF NoEarning, Earning, NoPayout
<1>4. x \in Earning /\ x.gross = x.commission + x.net
  <2>1. /\ x \in Earning
        /\ x.gross = GrossCents /\ x.commission = commission /\ x.net = GrossCents - commission
    BY <1>2, <1>3 DEF Earning
  <2> QED
    BY <1>2, <2>1
<1> HIDE DEF x
<1>5. ledger' = [ledger EXCEPT ![<<c, 0>>] = x]
  BY DEF SettleRecords, commission, x
<1>6. call' = [call EXCEPT ![c].billing = "charged"]
  BY DEF SettleRecords
<1>7. call' \in [Consultations -> Call]
  BY <1>6, CallTyped DEF EarningsTypeOK
<1>8. ledger' \in [Rows -> Earning] /\ RowsBalance'
  BY <1>4, <1>5 DEF EarningsTypeOK, RowsBalance
<1> QED
  BY <1>7, <1>8 DEF SettleRecords, EarningsTypeOK

(* The tables, the messages and the memories start well formed. *)
LEMMA InitTyped == Init => Typed
<1> SUFFICES ASSUME Init PROVE Typed
  OBVIOUS
<1>1. EarningsInit /\ PayoutsInit /\ RefundsInit
  BY DEF Init
<1>2. NoEarning \in Earning /\ NoEarning.gross = NoEarning.commission + NoEarning.net
  BY DEF NoEarning, Earning, NoPayout
<1>3. EarningsTypeOK /\ RowsBalance
  <2>1. \A r \in Rows : ledger[r] = NoEarning
    BY <1>1 DEF EarningsInit
  <2>2. [status |-> "none", cents |-> 0, transfer |-> NoTransfer, rows |-> {}] \in Payout
    BY DEF Payout
  <2>3. ledger \in [Rows -> Earning] /\ payout \in [Payouts -> Payout]
    BY <1>1, <1>2, <2>2 DEF EarningsInit
  <2> QED
    BY <1>1, <1>2, <2>1, <2>3 DEF EarningsInit, EarningsTypeOK, RowsBalance, Call
<1>4. PayoutsTypeOK /\ RunHasPayout
  BY <1>1, IdleRunTyped DEF PayoutsInit, PayoutsTypeOK, RunHasPayout
<1>5. RefundsTypeOK
  BY <1>1 DEF RefundsInit, RefundsTypeOK, Sources
<1> QED
  BY <1>3, <1>4, <1>5 DEF Typed, TypeOK

(* And every step keeps them so. *)
LEMMA NextTyped == Typed /\ [Next]_vars => Typed'
<1> SUFFICES ASSUME Typed, [Next]_vars PROVE Typed'
  OBVIOUS
<1>0. /\ EarningsTypeOK /\ RunTyped /\ StripeTyped /\ RefundsTypeOK /\ RowsBalance
  BY DEF Typed, TypeOK, PayoutsTypeOK, RunTyped, StripeTyped
<1>1. CASE Settlement
  <2>1. EarningsTypeOK' /\ RowsBalance'
    BY <1>0, <1>1, SettledTyped DEF Settlement
  <2> QED
    BY <1>0, <1>1, <2>1
       DEF Settlement, payoutsOnly, refundsOnly, Typed, TypeOK, PayoutsTypeOK, RefundsTypeOK,
           RunTyped, StripeTyped, RunHasPayout
<1>2. CASE PayoutSide
  <2>1. EarningsTypeOK' /\ RunTyped' /\ StripeTyped' /\ RowsBalance'
    BY <1>2, PayoutsTypes DEF PayoutSide
  <2>2. RefundsTypeOK'
    BY <1>0, <1>2 DEF PayoutSide, refundsOnly, RefundsTypeOK
  <2> QED
    BY <2>1, <2>2 DEF Typed, TypeOK, PayoutsTypeOK, RunTyped, StripeTyped
<1>3. CASE RefundSide
  <2>1. EarningsTypeOK' /\ RefundsTypeOK' /\ RowsBalance'
    BY <1>3, RefundsTypes DEF RefundSide
  <2> QED
    BY <1>0, <1>3, <2>1
       DEF RefundSide, payoutsOnly, Typed, TypeOK, PayoutsTypeOK, RunTyped, StripeTyped, RunHasPayout
<1>4. CASE BillingRestarts
  <2>1. EarningsTypeOK' /\ RowsBalance'
    BY <1>0, <1>4 DEF BillingRestarts, Fault, EarningsTypeOK, RowsBalance
  <2>2. PayoutsTypeOK' /\ RunHasPayout'
    BY <1>0, <1>4, IdleRunTyped DEF BillingRestarts, PayoutsTypeOK, StripeTyped, RunHasPayout
  <2>3. RefundsTypeOK'
    BY <1>0, <1>4 DEF BillingRestarts, RefundsTypeOK
  <2> QED
    BY <2>1, <2>2, <2>3 DEF Typed, TypeOK
<1>5. CASE UNCHANGED vars
  BY <1>0, <1>5
     DEF vars, payoutsOnly, refundsOnly, Typed, TypeOK, EarningsTypeOK, PayoutsTypeOK,
         RefundsTypeOK, RowsBalance, RunHasPayout, RunTyped, StripeTyped
<1> QED
  BY <1>1, <1>2, <1>3, <1>4, <1>5 DEF Next

(* The tables, the messages and what requests in progress remember stay      *)
(* within what the code can write, for any number of calls, payments,        *)
(* payouts, requests and faults.                                             *)
THEOREM TypeCorrect == Spec => []TypeOK
<1>1. Typed => TypeOK
  BY DEF Typed
<1> QED
  BY <1>1, InitTyped, NextTyped, PTL DEF Spec

(* Splitting an earning for an exact amount loses and creates nothing in any *)
(* row, whatever rounding gives.                                             *)
THEOREM RowsAlwaysBalance == Spec => []RowsBalance
<1>1. Typed => RowsBalance
  BY DEF Typed
<1> QED
  BY <1>1, InitTyped, NextTyped, PTL DEF Spec

-----------------------------------------------------------------------------
(* Money: a payout is not sent twice.                                        *)

\* What a slot may hold as far as Money goes, the payouts being pay
Harmless(x, pay) ==
    /\ x.op = "send" /\ key[x.payout] = 0 => NothingStands(x.payout)
    /\ x.op = "return" => Reversed(x.payout)
    /\ \A p \in Payouts : pay[p].status = "none" => x.payout # p

(* A free slot harms nothing. *)
LEMMA IdleHarmless == \A pay : Harmless(IdleRun, pay)
BY DEF Harmless, IdleRun, Payouts, NoPayout

(* A step that leaves Stripe's transfers and keys alone keeps Money when what *)
(* it puts into slots is harmless and what it tells is no reversal.           *)
LEMMA MoneyKept ==
    ASSUME Typed, Money, UNCHANGED <<transfers, key>>,
           \A p \in Payouts : payout'[p].status = "none" => payout[p].status = "none",
           \A e \in events' \ events : e.type # "transfer.reversed",
           \A w \in Runs : run'[w] = run[w] \/ Harmless(run'[w], payout')
    PROVE  Money'
<1>1. OneTransfer'
  BY DEF Money, OneTransfer
<1>2. SendsOnce'
  BY DEF Money, SendsOnce, Harmless, NothingStands
<1>3. ReversalsHappened'
  <2>1. \A w \in Runs : run'[w].op = "return" => Reversed(run[w].payout)'
    BY DEF Money, ReversalsHappened, Harmless, Reversed
  <2>2. ASSUME NEW p \in Payouts, NEW n \in Nat \ {0},
               event("transfer.reversed", <<p, n>>) \in events'
        PROVE  Reversed(p)'
    <3>1. event("transfer.reversed", <<p, n>>).type = "transfer.reversed"
      BY DEF event
    <3>2. event("transfer.reversed", <<p, n>>) \in events
      BY <2>2, <3>1
    <3>3. Reversed(p)
      BY <3>2 DEF Money, ReversalsHappened
    <3> QED
      BY <3>3 DEF Reversed
  <2> QED
    BY <2>1, <2>2 DEF ReversalsHappened, event
<1>4. UnmadeIsUntouched'
  BY DEF Money, UnmadeIsUntouched, Harmless
<1> QED
  BY <1>1, <1>2, <1>3, <1>4 DEF Money

(* The same for a step that fills or moves one slot and tells nothing.        *)
LEMMA MoneyKeptBySlot ==
    ASSUME Typed, Money, UNCHANGED <<transfers, key>>, events' \subseteq events,
           \A p \in Payouts : payout'[p].status = "none" => payout[p].status = "none",
           NEW w \in Runs, NEW x, run' = [run EXCEPT ![w] = x], Harmless(x, payout')
    PROVE  Money'
<1>1. \A v \in Runs : run'[v] = run[v] \/ Harmless(run'[v], payout')
  BY DEF Typed, TypeOK, PayoutsTypeOK
<1>2. \A e \in events' \ events : e.type # "transfer.reversed"
  OBVIOUS
<1> QED
  BY <1>1, <1>2, MoneyKept

(* Once back, the money of a payout stays back.                               *)
LEMMA SendKeepsMoney ==
    ASSUME Typed, Money, NEW w \in Runs, sendPayoutTransfer(w)
    PROVE  Money' /\ \A p \in Payouts : Reversed(p) => Reversed(p)'
<1> DEFINE p == run[w].payout
<1>0. /\ run \in [Runs -> Run] /\ transfers \in [Payouts -> Seq({"live", "reversed"})]
      /\ key \in [Payouts -> Nat] /\ p \in Payouts /\ run[w].op = "send" /\ payout' = payout
  BY DEF sendPayoutTransfer, Typed, TypeOK, PayoutsTypeOK, RunHasPayout
<1>1. payout[p].status # "none"
  BY <1>0 DEF Money, UnmadeIsUntouched
<1>2. PICK x : run' = [run EXCEPT ![w] = x] /\ x.op = "record" /\ x.payout = p
               /\ \/ Transfer(p)
                  \/ UNCHANGED <<transfers, key, events>>
  <2>1. \E x : RunGoes(w, x) /\ x.op = "record" /\ x.payout = p
    <3>1. /\ [run[w] EXCEPT !.op = "record"].op = "record"
          /\ [run[w] EXCEPT !.op = "record"].payout = p
          /\ [run[w] EXCEPT !.op = "record", !.transfer = <<p, key'[p]>>].op = "record"
          /\ [run[w] EXCEPT !.op = "record", !.transfer = <<p, key'[p]>>].payout = p
      BY <1>0 DEF Run
    <3>2. RunGoes(w, [run[w] EXCEPT !.op = "record"])
          \/ RunGoes(w, [run[w] EXCEPT !.op = "record", !.transfer = <<p, key'[p]>>])
      BY DEF sendPayoutTransfer
    <3> QED
      BY <3>1, <3>2
  <2>2. Transfer(p) \/ UNCHANGED <<transfers, key, events>>
    BY DEF sendPayoutTransfer
  <2> QED
    BY <2>1, <2>2 DEF RunGoes
<1>3. Harmless(x, payout')
  BY <1>0, <1>1, <1>2 DEF Harmless
<1>4. CASE UNCHANGED <<transfers, key, events>>
  BY <1>0, <1>2, <1>3, <1>4, MoneyKeptBySlot DEF Reversed
<1>5. CASE Transfer(p) /\ key[p] # 0
  BY <1>0, <1>2, <1>3, <1>5, MoneyKeptBySlot DEF Reversed, Transfer
<1>6. CASE Transfer(p) /\ key[p] = 0
  <2> DEFINE s == transfers[p]
             t == Append(s, "live")
             n == Len(s) + 1
  <2>1. NothingStands(p)
    BY <1>0, <1>6 DEF Money, SendsOnce
  <2>2. /\ transfers' = [transfers EXCEPT ![p] = t]
        /\ key' = [key EXCEPT ![p] = n]
        /\ events' = events \cup {event("transfer.created", <<p, n>>)}
    BY <1>6 DEF Transfer
  <2>a. s \in Seq({"live", "reversed"})
    BY <1>0
  <2>b. /\ Len(t) = n /\ DOMAIN t = 1..n /\ n \in Nat \ {0}
        /\ DOMAIN s = 1..(n - 1) /\ \A m \in 1..(n - 1) : t[m] = s[m]
    BY <2>a
  <2>c. /\ transfers'[p] = t /\ key'[p] = n
        /\ \A q \in Payouts \ {p} : transfers'[q] = transfers[q] /\ key'[q] = key[q]
    BY <1>0, <2>2
  <2>3. OneTransfer'
    <3>1. ASSUME NEW m \in DOMAIN t, m # Len(t)
          PROVE  t[m] = "reversed"
      BY <2>1, <2>b, <3>1 DEF NothingStands
    <3>2. \A m \in DOMAIN transfers'[p] : m # Len(transfers'[p]) => transfers'[p][m] = "reversed"
      BY <2>c, <3>1
    <3>3. key'[p] \in {0, Len(transfers'[p])}
      BY <2>b, <2>c
    <3>4. ASSUME NEW q \in Payouts \ {p}
          PROVE  /\ \A m \in DOMAIN transfers'[q] : m # Len(transfers'[q]) => transfers'[q][m] = "reversed"
                 /\ key'[q] \in {0, Len(transfers'[q])}
      BY <2>c DEF Money, OneTransfer
    <3> QED
      BY <3>2, <3>3, <3>4 DEF OneTransfer
  <2>4. \A q \in Payouts : Reversed(q) => Reversed(q)'
    <3>1. Reversed(p) => t # <<>> /\ t[1] = "reversed"
      <4>1. s # <<>> => 1 \in 1..(n - 1)
        BY <2>a, <2>b
      <4>2. t # <<>>
        BY <2>b
      <4> QED
        BY <2>b, <4>1, <4>2 DEF Reversed
    <3> QED
      BY <2>c, <3>1 DEF Reversed
  <2>5. SendsOnce'
    <3>1. ASSUME NEW v \in Runs, run'[v].op = "send", key'[run'[v].payout] = 0
          PROVE  NothingStands(run[v].payout)'
      <4>1. run'[v] = run[v]
        BY <1>0, <1>2, <3>1
      <4>2. run[v].payout \in Payouts \ {p}
        BY <2>b, <2>c, <3>1, <4>1 DEF Typed, RunHasPayout
      <4>3. NothingStands(run[v].payout)
        BY <2>c, <3>1, <4>1, <4>2 DEF Money, SendsOnce
      <4> QED
        BY <2>c, <4>1, <4>2, <4>3 DEF NothingStands
    <3> QED
      BY <3>1 DEF SendsOnce, NothingStands
  <2>6. ReversalsHappened'
    <3>1. \A v \in Runs : run'[v].op = "return" => run[v].op = "return" /\ run'[v] = run[v]
      BY <1>0, <1>2
    <3>2. \A v \in Runs : run[v].op = "return" => run[v].payout \in Payouts
      BY DEF Typed, RunHasPayout
    <3>3. \A q \in Payouts, m \in Nat \ {0} :
             event("transfer.reversed", <<q, m>>) # event("transfer.created", <<p, n>>)
      BY DEF event
    <3>4. \A v \in Runs : run'[v].op = "return" => Reversed(run[v].payout)'
      BY <2>4, <3>1, <3>2 DEF Money, ReversalsHappened
    <3>5. \A q \in Payouts : \A m \in Nat \ {0} :
             event("transfer.reversed", <<q, m>>)' \in events' => Reversed(q)'
      BY <2>2, <2>4, <3>3 DEF Money, ReversalsHappened, event
    <3> QED
      BY <3>4, <3>5 DEF ReversalsHappened
  <2>7. UnmadeIsUntouched'
    BY <1>0, <1>1, <1>2, <2>c DEF Money, UnmadeIsUntouched
  <2> QED
    BY <2>3, <2>4, <2>5, <2>6, <2>7 DEF Money
<1> QED
  BY <1>2, <1>4, <1>5, <1>6

(* A transfer that comes back is the latest of its payout.                    *)
LEMMA ReversalKeepsMoney ==
    ASSUME Typed, Money, NEW p \in Payouts, NEW n \in DOMAIN transfers[p], TransferReverses(p, n)
    PROVE  Money' /\ \A q \in Payouts : Reversed(q) => Reversed(q)'
<1> DEFINE s == transfers[p]
           t == [s EXCEPT ![n] = "reversed"]
<1>0. /\ transfers \in [Payouts -> Seq({"live", "reversed"})] /\ run' = run /\ payout' = payout
      /\ key' = key
  BY DEF TransferReverses, Typed, TypeOK, PayoutsTypeOK
<1>1. s \in Seq({"live", "reversed"}) /\ s[n] = "live" /\ n = Len(s) /\ n \in Nat \ {0}
  <2>1. s \in Seq({"live", "reversed"})
    BY <1>0
  <2>2. s[n] = "live"
    BY DEF TransferReverses
  <2>3. n = Len(s)
    BY <2>2 DEF Money, OneTransfer
  <2> QED
    BY <2>1, <2>2, <2>3
<1>2. /\ transfers' = [transfers EXCEPT ![p] = t]
      /\ events' = events \cup {event("transfer.reversed", <<p, n>>)}
  BY DEF TransferReverses
<1>a. /\ transfers'[p] = t /\ \A q \in Payouts \ {p} : transfers'[q] = transfers[q]
      /\ DOMAIN t = 1..n /\ Len(t) = n
  <2>1. t \in Seq({"live", "reversed"}) /\ Len(t) = Len(s) /\ DOMAIN t = DOMAIN s
    BY <1>1
  <2> QED
    BY <1>0, <1>1, <1>2, <2>1
<1>b. \A m \in 1..n : t[m] = "reversed"
  <2>1. ASSUME NEW m \in 1..n
        PROVE  t[m] = "reversed"
    <3>1. m \in DOMAIN s
      BY <1>1
    <3>2. CASE m = n
      BY <3>1, <3>2
    <3>3. CASE m # n
      BY <1>1, <3>1, <3>3 DEF Money, OneTransfer
    <3> QED
      BY <3>2, <3>3
  <2> QED
    BY <2>1
<1> HIDE DEF t
<1>3. OneTransfer'
  BY <1>0, <1>1, <1>a, <1>b DEF Money, OneTransfer
<1>c. Reversed(p)'
  <2>1. 1 \in 1..n /\ t # <<>>
    BY <1>1, <1>a
  <2> QED
    BY <1>a, <1>b, <2>1 DEF Reversed
<1>4. \A q \in Payouts : Reversed(q) => Reversed(q)'
  BY <1>a, <1>c DEF Reversed
<1>5. SendsOnce'
  <2>1. ASSUME NEW v \in Runs, run[v].op = "send", key[run[v].payout] = 0
        PROVE  NothingStands(run[v].payout)'
    <3>1. run[v].payout \in Payouts /\ NothingStands(run[v].payout)
      BY <2>1 DEF Money, SendsOnce, Typed, RunHasPayout
    <3>2. CASE run[v].payout = p
      BY <1>0, <1>a, <1>b, <3>2 DEF NothingStands
    <3>3. CASE run[v].payout # p
      BY <1>0, <1>a, <3>1, <3>3 DEF NothingStands
    <3> QED
      BY <3>2, <3>3
  <2> QED
    BY <1>0, <2>1 DEF SendsOnce, NothingStands
<1>6. ReversalsHappened'
  <2>1. \A v \in Runs : run[v].op = "return" => run[v].payout \in Payouts
    BY DEF Typed, RunHasPayout
  <2>2. ASSUME NEW q \in Payouts, NEW m \in Nat \ {0},
               event("transfer.reversed", <<q, m>>) = event("transfer.reversed", <<p, n>>)
        PROVE  q = p
    BY <2>2 DEF event
  <2>4. \A q \in Payouts : \A m \in Nat \ {0} :
           event("transfer.reversed", <<q, m>>)' \in events' => Reversed(q)'
    BY <1>2, <1>4, <2>2, <1>c DEF Money, ReversalsHappened, event
  <2> QED
    BY <1>0, <1>4, <2>1, <2>4 DEF Money, ReversalsHappened
<1>7. UnmadeIsUntouched'
  <2>1. payout[p].status # "none"
    BY <1>1 DEF Money, UnmadeIsUntouched
  <2> QED
    BY <1>0, <1>a, <2>1 DEF Money, UnmadeIsUntouched
<1> QED
  BY <1>3, <1>4, <1>5, <1>6, <1>7 DEF Money

(* Stripe forgets a key only when nothing of its payout is under way.         *)
LEMMA ExpiryKeepsMoney ==
    ASSUME Typed, Money, NEW p \in Payouts, KeyExpires(p)
    PROVE  Money'
<1>0. /\ key \in [Payouts -> Nat] /\ key' = [key EXCEPT ![p] = 0]
      /\ UNCHANGED <<payout, events, run, transfers>> /\ \A w \in Runs : run[w].payout # p
  BY DEF KeyExpires, Typed, TypeOK, PayoutsTypeOK
<1>1. OneTransfer'
  BY <1>0 DEF Money, OneTransfer
<1>2. SendsOnce'
  <2>1. \A w \in Runs : run[w].op = "send" => run[w].payout \in Payouts \ {p}
    BY <1>0 DEF Typed, RunHasPayout
  <2> QED
    BY <1>0, <2>1 DEF Money, SendsOnce, NothingStands
<1>3. ReversalsHappened' /\ UnmadeIsUntouched'
  BY <1>0 DEF Money, ReversalsHappened, UnmadeIsUntouched, Reversed, event
<1> QED
  BY <1>1, <1>2, <1>3 DEF Money

(* Who goes on to send after looking for an earlier transfer has found none   *)
(* that stands.                                                               *)
LEMMA ReconcileHarmless ==
    ASSUME Typed, Money, NEW w \in Runs, reconcileSentTransfer(w)
    PROVE  Money'
<1> DEFINE p == run[w].payout
           n == Len(transfers[p])
<1>0. /\ run[w] \in Run /\ p \in Payouts /\ transfers[p] \in Seq({"live", "reversed"})
      /\ UNCHANGED <<payout, events, transfers, key>>
  BY DEF reconcileSentTransfer, Typed, TypeOK, PayoutsTypeOK, RunHasPayout
<1>1. payout[p].status # "none"
  BY <1>0 DEF reconcileSentTransfer, Money, UnmadeIsUntouched
<1>2. CASE RunGoes(w, [run[w] EXCEPT !.op = "record", !.transfer = <<p, n>>])
  <2> DEFINE x == [run[w] EXCEPT !.op = "record", !.transfer = <<p, n>>]
  <2>1. x.op = "record" /\ x.payout = p
    BY <1>0 DEF Run
  <2>2. Harmless(x, payout')
    <3> HIDE DEF x
    <3> QED BY <1>0, <1>1, <2>1 DEF Harmless
  <2> QED
    BY <1>0, <1>2, <2>2, MoneyKeptBySlot DEF RunGoes
<1>3. CASE ~(n > 0 /\ transfers[p][n] = "live") /\ RunGoes(w, [run[w] EXCEPT !.op = "send"])
  <2> DEFINE x == [run[w] EXCEPT !.op = "send"]
  <2>1. x.op = "send" /\ x.payout = p
    BY <1>0 DEF Run
  <2>3. NothingStands(p)
    <3>1. ASSUME NEW m \in DOMAIN transfers[p]
          PROVE  transfers[p][m] = "reversed"
      <4>1. CASE m = n
        BY <1>0, <1>3, <4>1
      <4>2. CASE m # n
        BY <1>0, <4>2 DEF Money, OneTransfer
      <4> QED
        BY <4>1, <4>2
    <3> QED
      BY <3>1 DEF NothingStands
  <2>4. Harmless(x, payout')
    <3> HIDE DEF x
    <3> QED BY <1>0, <1>1, <2>1, <2>3 DEF Harmless
  <2> QED
    BY <1>0, <1>3, <2>4, MoneyKeptBySlot DEF RunGoes
<1>4. CASE RunEnds(w)
  BY <1>0, <1>4, IdleHarmless, MoneyKeptBySlot DEF RunEnds
<1> QED
  BY <1>2, <1>3, <1>4 DEF reconcileSentTransfer

(* Every step of the payouts keeps Money, and money that came back stays back. *)
LEMMA PayoutsMoney ==
    ASSUME Typed, Money, PayoutsNext
    PROVE  Money' /\ \A p \in Payouts : Reversed(p) => Reversed(p)'
<1>0. run \in [Runs -> Run] /\ payout \in [Payouts -> Payout]
  BY DEF Typed, TypeOK, PayoutsTypeOK, EarningsTypeOK
<1>a. ASSUME NEW w \in Runs, runPayouts(w) \/ payExpertNow(w)
      PROVE  Money' /\ UNCHANGED transfers
  <2>1. PICK R, cents : Reads(w, R, cents)
    <3>1. CASE runPayouts(w)
      BY <3>1 DEF runPayouts
    <3>2. CASE payExpertNow(w)
      BY <3>2 DEF payExpertNow
    <3> QED
      BY <1>a, <3>1, <3>2
  <2> DEFINE x == [IdleRun EXCEPT !.op = "claim", !.rows = R, !.target = cents,
                       !.nets = [r \in Rows |-> IF r \in R THEN ledger[r].net ELSE 0]]
  <2>2. x.op = "claim" /\ x.payout = NoPayout /\ run' = [run EXCEPT ![w] = x]
    BY <2>1 DEF Reads, RunBegins, IdleRun
  <2> HIDE DEF x
  <2>3. Harmless(x, payout')
    BY <2>2 DEF Harmless, Payouts, NoPayout
  <2> QED
    BY <1>a, <2>2, <2>3, MoneyKeptBySlot DEF runPayouts, payExpertNow
<1>b. ASSUME NEW w \in Runs, NotPayable(w) \/ ClaimConflicts(w) \/ TransferEventProcessed(w)
      PROVE  Money' /\ UNCHANGED transfers
  <2>1. RunEnds(w) /\ UNCHANGED <<payout, transfers, key>> /\ events' \subseteq events
    BY <1>b DEF NotPayable, ClaimConflicts, TransferEventProcessed
  <2> QED
    BY <2>1, IdleHarmless, MoneyKeptBySlot DEF RunEnds
<1>c. ASSUME NEW w \in Runs, RecordsOutcome(w) \/ MarksPaid(w)
      PROVE  Money' /\ UNCHANGED transfers
  <2>1. RunEnds(w) /\ UNCHANGED <<events, transfers, key>>
    BY <1>c DEF RecordsOutcome, MarksPaid
  <2>2. \A p \in Payouts : payout'[p].status = "none" => payout[p].status = "none"
    <3>1. \A p \in Payouts : \A t :
             /\ [payout[p] EXCEPT !.status = "failed"].status = "failed"
             /\ [payout[p] EXCEPT !.status = "paid"].status = "paid"
             /\ [payout[p] EXCEPT !.status = "paid", !.transfer = t].status = "paid"
      BY <1>0 DEF Payout
    <3> QED
      BY <1>0, <1>c, <3>1 DEF RecordsOutcome, MarksPaid
  <2> QED
    BY <2>1, <2>2, IdleHarmless, MoneyKeptBySlot DEF RunEnds
<1>d. ASSUME NEW w \in Runs, createPayoutForLedgerRows(w)
      PROVE  Money' /\ UNCHANGED transfers
  <2>1. PICK p, T, base, cents :
             /\ p \in Payouts /\ Fresh(p) /\ claimRowsIntoPayout(p, T, base, cents)
             /\ RunGoes(w, [IdleRun EXCEPT !.op = "send", !.payout = p])
    BY <1>d DEF createPayoutForLedgerRows, Claims
  <2> DEFINE x == [IdleRun EXCEPT !.op = "send", !.payout = p]
  <2>2. x.op = "send" /\ x.payout = p
    BY DEF IdleRun
  <2>3. payout' = [payout EXCEPT ![p] =
                     [status |-> "processing", cents |-> cents, transfer |-> NoTransfer, rows |-> T]]
    BY <2>1 DEF claimRowsIntoPayout
  <2>4. p \in Payouts /\ transfers[p] = <<>>
    BY <2>1 DEF Fresh, Money, UnmadeIsUntouched
  <2>5. Harmless(x, payout')
    <3> HIDE DEF x
    <3> QED BY <1>0, <2>2, <2>3, <2>4 DEF Harmless, NothingStands
  <2>6. \A q \in Payouts : payout'[q].status = "none" => payout[q].status = "none"
    BY <1>0, <2>3
  <2>7. run' = [run EXCEPT ![w] = x] /\ UNCHANGED <<events, transfers, key>>
    BY <1>d, <2>1 DEF RunGoes, createPayoutForLedgerRows
  <2> HIDE DEF x
  <2> QED
    BY <2>5, <2>6, <2>7, MoneyKeptBySlot
<1>e. ASSUME NEW w \in Runs, NEW p \in Payouts, reattemptFailedPayouts(w, p) \/ markPaid(w, p)
      PROVE  Money' /\ UNCHANGED transfers
  <2>1. PICK op \in {"reconcile", "mark"} :
             run' = [run EXCEPT ![w] = [IdleRun EXCEPT !.op = op, !.payout = p]]
    BY <1>e DEF reattemptFailedPayouts, markPaid, RunBegins
  <2> DEFINE x == [IdleRun EXCEPT !.op = op, !.payout = p]
  <2>2. x.op = op /\ x.payout = p /\ run' = [run EXCEPT ![w] = x]
    BY <2>1 DEF IdleRun
  <2> HIDE DEF x
  <2>3. payout[p].status = "failed" /\ UNCHANGED <<payout, events, transfers, key>>
    BY <1>e DEF reattemptFailedPayouts, markPaid, Retryable
  <2>4. Harmless(x, payout')
    BY <2>2, <2>3 DEF Harmless
  <2> QED
    BY <2>2, <2>3, <2>4, MoneyKeptBySlot
<1>f. ASSUME NEW p \in Payouts, NEW n \in DOMAIN transfers[p], NEW w \in Runs,
             TransferCreated(w, <<p, n>>) \/ TransferReversed(w, <<p, n>>)
      PROVE  Money' /\ UNCHANGED transfers
  <2>1. n \in Nat \ {0} /\ transfers[p] # <<>>
    BY DEF Typed, TypeOK, PayoutsTypeOK
  <2>2. payout[p].status # "none"
    BY <2>1 DEF Money, UnmadeIsUntouched
  <2>3. \A type : LET ack == Acks(w, type, <<p, n>>, p)
                 IN  /\ ack.op = "ack" /\ ack.payout = p
                     /\ [ack EXCEPT !.op = "return"].op = "return"
                     /\ [ack EXCEPT !.op = "return"].payout = p
    BY DEF Acks, IdleRun
  <2>4. PICK x : /\ run' = [run EXCEPT ![w] = x] /\ x.payout = p
                 /\ \/ x.op = "ack"
                    \/ x.op = "return" /\ event("transfer.reversed", <<p, n>>) \in events
    <3>1. CASE TransferCreated(w, <<p, n>>)
      BY <2>3, <3>1 DEF TransferCreated, RunBegins
    <3>2. CASE TransferReversed(w, <<p, n>>)
      BY <2>3, <3>2 DEF TransferReversed, RunBegins
    <3> QED
      BY <1>f, <3>1, <3>2
  <2>5. x.op = "return" => Reversed(p)
    BY <2>1, <2>4 DEF Money, ReversalsHappened
  <2>6. UNCHANGED <<events, transfers, key>>
    BY <1>f DEF TransferCreated, TransferReversed
  <2>7. \A q \in Payouts : payout'[q].status = "none" => payout[q].status = "none"
    <3>1. [payout[p] EXCEPT !.status = "paid", !.transfer = <<p, n>>].status = "paid"
      BY <1>0 DEF Payout
    <3>2. payout' = payout
          \/ payout' = [payout EXCEPT ![p] = [payout[p] EXCEPT !.status = "paid", !.transfer = <<p, n>>]]
      BY <1>f DEF TransferCreated, TransferReversed
    <3> QED
      BY <1>0, <3>1, <3>2
  <2>8. Harmless(x, payout')
    BY <2>2, <2>4, <2>5, <2>7 DEF Harmless
  <2> QED
    BY <2>4, <2>6, <2>7, <2>8, MoneyKeptBySlot
<1>g. ASSUME NEW w \in Runs, ReturnsEarnings(w)
      PROVE  Money' /\ UNCHANGED transfers
  <2> DEFINE p == run[w].payout
             x == [run[w] EXCEPT !.op = "ack"]
  <2>1. x.op = "ack" /\ x.payout = p /\ run' = [run EXCEPT ![w] = x]
    BY <1>0, <1>g DEF ReturnsEarnings, RunGoes, Run
  <2>2. p \in Payouts /\ payout[p].status # "none"
    BY <1>g DEF ReturnsEarnings, Typed, RunHasPayout, Money, UnmadeIsUntouched
  <2>3. /\ payout' = [payout EXCEPT ![p] = [payout[p] EXCEPT !.status = "failed"]]
        /\ [payout[p] EXCEPT !.status = "failed"].status = "failed"
    BY <1>0, <1>g, <2>2 DEF ReturnsEarnings, Payout
  <2>4. UNCHANGED <<events, transfers, key>>
    BY <1>g DEF ReturnsEarnings
  <2> HIDE DEF x
  <2>5. \A q \in Payouts : payout'[q].status = "none" => payout[q].status = "none"
    BY <1>0, <2>2, <2>3
  <2>6. Harmless(x, payout')
    BY <1>0, <2>1, <2>2, <2>3 DEF Harmless
  <2> QED
    BY <2>1, <2>4, <2>5, <2>6, MoneyKeptBySlot
<1>h. ASSUME NEW w \in Runs, reconcileSentTransfer(w)
      PROVE  Money' /\ UNCHANGED transfers
  BY <1>h, ReconcileHarmless DEF reconcileSentTransfer
<1>i. ASSUME NEW p \in Payouts, KeyExpires(p)
      PROVE  Money' /\ UNCHANGED transfers
  BY <1>i, ExpiryKeepsMoney DEF KeyExpires
<1>1. ASSUME Money' /\ UNCHANGED transfers
      PROVE  Money' /\ \A p \in Payouts : Reversed(p) => Reversed(p)'
  BY <1>1 DEF Reversed
<1> QED
  BY <1>a, <1>b, <1>c, <1>d, <1>e, <1>f, <1>g, <1>h, <1>i, <1>1, SendKeepsMoney, ReversalKeepsMoney
     DEF PayoutsNext, RunStep

(* Steps on the other side tell of no transfer and leave the slots of Runs.   *)
LEMMA OthersMoney ==
    ASSUME Typed, Money, Settlement \/ RefundSide \/ BillingRestarts \/ UNCHANGED vars
    PROVE  Money'
<1>1. UNCHANGED <<transfers, key>>
  BY DEF Settlement, RefundSide, BillingRestarts, vars, payoutsOnly
<1>2. UNCHANGED payout
  BY DEF Settlement, SettleRecords, RefundSide, BillingRestarts, vars, RefundsNext, TaskStep,
         EventArrives, RefundsPayment, RefundRecords, handleChargeRefunded, handleDisputeCreated,
         handleDisputeClosed, EventProcessed, refundConsultation, ChargeRefunded, DisputeCreated,
         DisputeClosed, DashboardRefunds, DisputeOpens, DisputeCloses
<1>3. \A w \in Runs : run'[w] = run[w] \/ run'[w] = IdleRun
  BY DEF Settlement, RefundSide, BillingRestarts, vars, payoutsOnly
<1>4. ASSUME NEW e \in events' \ events PROVE e.type # "transfer.reversed"
  <2>1. CASE RefundSide
    <3>1. \A m, full : refunded(m, full).type = "charge.refunded"
      BY DEF refunded
    <3>2. \A type, m : event(type, m).type = type
      BY DEF event
    <3>3. ASSUME NEW k \in Tasks, RefundsPayment(k)
          PROVE  e.type # "transfer.reversed"
      BY <1>4, <3>1, <3>3 DEF RefundsPayment, Refund
    <3>4. ASSUME NEW m \in Charges, NEW source, DashboardRefunds(m, source)
          PROVE  e.type # "transfer.reversed"
      BY <1>4, <3>1, <3>4 DEF DashboardRefunds
    <3>5. ASSUME NEW m \in Charges, NEW how, DisputeOpens(m) \/ DisputeCloses(m, how)
          PROVE  e.type # "transfer.reversed"
      BY <1>4, <3>2, <3>5 DEF DisputeOpens, DisputeCloses
    <3> QED
      BY <1>4, <2>1, <3>3, <3>4, <3>5
         DEF RefundSide, RefundsNext, TaskStep, EventArrives, RefundRecords, handleChargeRefunded,
             handleDisputeCreated, handleDisputeClosed, EventProcessed, refundConsultation,
             ChargeRefunded, DisputeCreated, DisputeClosed
  <2> QED
    BY <1>4, <2>1 DEF Settlement, SettleRecords, BillingRestarts, vars
<1> QED
  BY <1>1, <1>2, <1>3, <1>4, IdleHarmless, MoneyKept

-----------------------------------------------------------------------------
(* Owners: a row belongs to one payout as long as its money is out.          *)

\* What becomes of a row when nothing is claimed, returned or earned
RowKept(r) ==
    /\ ledger'[r].payout = ledger[r].payout
    /\ \/ ledger'[r].status = ledger[r].status
       \/ ledger[r].status = "earned" /\ ledger[r].payout = NoPayout

BillingKept == \A c \in Consultations : call'[c].billing = "pending" => call[c].billing = "pending"

PayoutsKept ==
    \A p \in Payouts : (Reversed(p) => Reversed(p)') /\ payout'[p].rows = payout[p].rows

(* Owners stays when the rows keep their payouts and the payouts their rows.  *)
LEMMA OwnersKept ==
    ASSUME Typed, Owners, BillingKept, PayoutsKept, \A r \in Rows : RowKept(r)
    PROVE  Owners'
<1>0. \A p \in Payouts : payout[p].rows \subseteq Rows
  BY DEF Typed, TypeOK, EarningsTypeOK, Payout
<1>1. OwnsItsRows'
  <2> SUFFICES ASSUME NEW p \in Payouts, NEW r \in payout'[p].rows
               PROVE  Reversed(p)' \/ ledger'[r].payout = p
    BY DEF OwnsItsRows
  <2> QED
    BY <1>0 DEF PayoutsKept, RowKept, Owners, OwnsItsRows
<1>2. OnlyEarnedIsPaid'
  BY DEF OnlyEarnedIsPaid, RowKept, Owners
<1>3. UnsettledHasNothing'
  <2>1. \A r \in Rows : r[1] \in Consultations
    BY DEF Rows
  <2> QED
    BY <2>1 DEF BillingKept, UnsettledHasNothing, RowKept, Owners
<1> QED
  BY <1>1, <1>2, <1>3 DEF Owners

(* The row that settlement writes is owed and nobody's.                       *)
LEMMA SettledRow ==
    ASSUME NEW c \in Consultations, SettleRecords(c)
    PROVE  \E x : ledger' = [ledger EXCEPT ![<<c, 0>>] = x] /\ x.status = "earned"
                 /\ x.payout = NoPayout
<1> DEFINE commission == computeConsultationCommissionCents(GrossCents, CommissionPercent)
           y == [NoEarning EXCEPT !.status = "earned", !.gross = GrossCents,
                     !.commission = commission, !.net = GrossCents - commission]
<1>1. ledger' = [ledger EXCEPT ![<<c, 0>>] = y]
  BY DEF SettleRecords
<1>2. NoEarning \in Earning /\ NoEarning.payout = NoPayout
  BY DEF NoEarning, Earning, NoPayout
<1> HIDE DEF commission
<1>3. y.status = "earned" /\ y.payout = NoPayout
  BY <1>2 DEF Earning
<1> HIDE DEF y
<1> QED
  BY <1>1, <1>3

(* Settlement earns the row that nobody can own yet.                          *)
LEMMA SettlementOwners ==
    ASSUME Typed, Owners, Settlement
    PROVE  Owners'
<1>1. PICK c \in Consultations : SettleRecords(c)
  BY DEF Settlement
<1>2. PICK x : ledger' = [ledger EXCEPT ![<<c, 0>>] = x] /\ x.status = "earned" /\ x.payout = NoPayout
  BY <1>1, SettledRow
<1>3. /\ ledger \in [Rows -> Earning] /\ call \in [Consultations -> Call]
      /\ <<c, 0>> \in Rows /\ \A r \in Rows : r[1] \in Consultations
      /\ \A p \in Payouts : payout[p].rows \subseteq Rows
  BY PartsAssumption DEF Typed, TypeOK, EarningsTypeOK, Rows, Payout
<1>4. /\ call[c].billing = "pending" /\ call'[c].billing = "charged"
      /\ \A b \in Consultations \ {c} : call'[b] = call[b]
      /\ UNCHANGED <<payout, transfers>>
  BY <1>1, <1>3 DEF SettleRecords, Settlement, payoutsOnly, Call
<1>5. ledger[<<c, 0>>].payout = NoPayout
  <2>1. ledger[<<c, 0>>].status = "none"
    BY <1>3, <1>4 DEF Owners, UnsettledHasNothing
  <2> QED
    BY <1>3, <2>1 DEF Owners, OnlyEarnedIsPaid
<1>6. \A r \in Rows : ledger'[r].payout = ledger[r].payout
  BY <1>2, <1>3, <1>5
<1>7. OwnsItsRows'
  BY <1>3, <1>4, <1>6 DEF Owners, OwnsItsRows, Reversed
<1>8. OnlyEarnedIsPaid'
  BY <1>2, <1>3, <1>6 DEF Owners, OnlyEarnedIsPaid
<1>9. UnsettledHasNothing'
  BY <1>2, <1>3, <1>4 DEF Owners, UnsettledHasNothing
<1> QED
  BY <1>7, <1>8, <1>9 DEF Owners

\* What a claim makes of the rows before it stamps some: a split earns one more
SplitFrom(base) ==
    /\ \A x \in Rows : base[x].payout = ledger[x].payout
    /\ \/ \A x \in Rows : base[x].status = ledger[x].status
       \/ \E s \in Rows :
             /\ ledger[s].status = "none" /\ base[s].status = "earned"
             /\ call[s[1]].billing # "pending"
             /\ \A x \in Rows \ {s} : base[x].status = ledger[x].status

(* A claim takes some rows, possibly split, into a payout nobody has used.    *)
LEMMA ClaimShape ==
    ASSUME Typed, Owners, NEW w \in Runs, createPayoutForLedgerRows(w)
    PROVE  \E p \in Payouts, R \in SUBSET Rows, base \in [Rows -> Earning], cents \in Nat :
              Fresh(p) /\ claimRowsIntoPayout(p, R, base, cents) /\ SplitFrom(base)
<1> DEFINE nets == run[w].nets
           Total(T) == SumFunctionOnSet(nets, T)
           target == run[w].target
<1>0. /\ ledger \in [Rows -> Earning] /\ run[w] \in Run /\ RowsBalance
      /\ \A r \in Rows : r[1] \in Consultations
  BY DEF Typed, TypeOK, EarningsTypeOK, PayoutsTypeOK, Rows
<1>1. PICK p \in Payouts, T \in SUBSET run[w].rows :
           /\ Fresh(p)
           /\ \/ claimRowsIntoPayout(p, T, ledger, target)
              \/ \E r \in run[w].rows \ T, s \in Rows :
                    /\ Payable(r)
                    /\ (target - Total(T)) \in 1..(nets[r] - 1) /\ ledger[r].net = nets[r]
                    /\ FreshPart(r[1], s)
                    /\ claimRowsIntoPayout(p, T \cup {s},
                           [ledger EXCEPT ![r] = Shrunk(r, target - Total(T)),
                                          ![s] = Part(r, target - Total(T))], target)
  BY Zenon DEF createPayoutForLedgerRows, Claims
<1>2. run[w].rows \subseteq Rows /\ target \in Nat
  BY <1>0 DEF Run
<1>3. CASE claimRowsIntoPayout(p, T, ledger, target)
  <2>1. SplitFrom(ledger)
    BY DEF SplitFrom
  <2> QED
    BY <1>0, <1>1, <1>2, <1>3, <2>1
<1>4. CASE ~claimRowsIntoPayout(p, T, ledger, target)
  <2>1. PICK r \in run[w].rows \ T, s \in Rows :
             /\ Payable(r)
             /\ (target - Total(T)) \in 1..(nets[r] - 1) /\ ledger[r].net = nets[r]
             /\ FreshPart(r[1], s)
             /\ claimRowsIntoPayout(p, T \cup {s},
                    [ledger EXCEPT ![r] = Shrunk(r, target - Total(T)),
                                   ![s] = Part(r, target - Total(T))], target)
    BY <1>1, <1>4, Zenon
  <2> DEFINE cents == target - Total(T)
             base == [ledger EXCEPT ![r] = Shrunk(r, cents), ![s] = Part(r, cents)]
  <2>2. r \in Rows /\ ledger[r] \in Earning /\ cents \in 1..(ledger[r].net - 1)
        /\ ledger[r].gross = ledger[r].commission + ledger[r].net
    BY <1>0, <1>2, <2>1 DEF RowsBalance
  <2> HIDE DEF cents
  <2>3. /\ Part(r, cents) \in Earning /\ Shrunk(r, cents) \in Earning
        /\ Part(r, cents).status = "earned" /\ Part(r, cents).payout = NoPayout
        /\ Shrunk(r, cents).status = ledger[r].status
        /\ Shrunk(r, cents).payout = ledger[r].payout
    BY <2>2, SplitBalances
  <2>4. ledger[s].status = "none" /\ s[1] = r[1]
    BY <2>1, <2>2 DEF FreshPart, RowsOf
  <2>5. ledger[s].payout = NoPayout /\ call[s[1]].billing # "pending"
    BY <2>1, <2>2, <2>4 DEF Owners, OnlyEarnedIsPaid, UnsettledHasNothing, Payable, Owed
  <2>6. base \in [Rows -> Earning]
    BY <1>0, <2>2, <2>3
  <2>7. SplitFrom(base)
    <3>1. \A x \in Rows \ {s} : base[x].payout = ledger[x].payout /\ base[x].status = ledger[x].status
      BY <1>0, <2>2, <2>3
    <3>2. base[s].payout = NoPayout /\ base[s].status = "earned"
      BY <1>0, <2>3
    <3> HIDE DEF base
    <3> QED
      BY <2>4, <2>5, <3>1, <3>2 DEF SplitFrom
  <2>8. claimRowsIntoPayout(p, T \cup {s}, base, target)
    BY <2>1 DEF cents
  <2>9. T \cup {s} \in SUBSET Rows
    BY <1>2
  <2> HIDE DEF base
  <2> QED
    BY <1>1, <1>2, <2>6, <2>7, <2>8, <2>9
<1> QED
  BY <1>3, <1>4

(* A claim takes rows that no payout owns; a split makes such a row.          *)
LEMMA ClaimOwners ==
    ASSUME Typed, Owners, NEW w \in Runs, createPayoutForLedgerRows(w)
    PROVE  Owners'
<1>0. /\ payout \in [Payouts -> Payout]
      /\ \A p \in Payouts : payout[p].rows \subseteq Rows
      /\ \A r \in Rows : r[1] \in Consultations
  BY DEF Typed, TypeOK, EarningsTypeOK, PayoutsTypeOK, Payout, Rows
<1>1. PICK p \in Payouts, R \in SUBSET Rows, base \in [Rows -> Earning], cents \in Nat :
           claimRowsIntoPayout(p, R, base, cents) /\ SplitFrom(base)
  BY ClaimShape
<1>2. \A r \in Rows : /\ r \in R => /\ ledger'[r].payout = p /\ ledger[r].payout = NoPayout
                                    /\ base[r].status = "earned"
                      /\ r \notin R => ledger'[r].payout = ledger[r].payout
                      /\ ledger'[r].status = base[r].status
  <2>1. \A r \in Rows : [base[r] EXCEPT !.payout = p].payout = p
                        /\ [base[r] EXCEPT !.payout = p].status = base[r].status
    BY DEF Earning
  <2>2. /\ ledger' = [r \in Rows |-> IF r \in R THEN [base[r] EXCEPT !.payout = p] ELSE base[r]]
        /\ \A r \in R : base[r].status = "earned" /\ base[r].payout = NoPayout
    BY <1>1 DEF claimRowsIntoPayout
  <2> QED
    BY <1>1, <2>1, <2>2 DEF SplitFrom
<1>3. payout'[p].rows = R /\ \A q \in Payouts \ {p} : payout'[q] = payout[q]
  BY <1>0, <1>1 DEF claimRowsIntoPayout
<1>4. UNCHANGED <<call, transfers>>
  BY DEF createPayoutForLedgerRows
<1>5. OwnsItsRows'
  <2> SUFFICES ASSUME NEW q \in Payouts, NEW r \in payout'[q].rows
               PROVE  Reversed(q)' \/ ledger'[r].payout = q
    BY DEF OwnsItsRows
  <2>1. CASE q = p
    BY <1>2, <1>3, <2>1
  <2>2. CASE q # p
    <3>1. r \in Rows /\ (Reversed(q) \/ ledger[r].payout = q)
      BY <1>0, <1>3, <2>2 DEF Owners, OwnsItsRows
    <3>2. q # NoPayout
      BY DEF Payouts, NoPayout
    <3> QED
      BY <1>2, <1>4, <3>1, <3>2 DEF Reversed
  <2> QED
    BY <2>1, <2>2
<1>6. OnlyEarnedIsPaid'
  BY <1>1, <1>2 DEF Owners, OnlyEarnedIsPaid, SplitFrom
<1>7. UnsettledHasNothing'
  BY <1>0, <1>1, <1>2, <1>4 DEF Owners, UnsettledHasNothing, SplitFrom
<1> QED
  BY <1>5, <1>6, <1>7 DEF Owners

(* Rows are returned when the money of their payout has come back.            *)
LEMMA ReturnOwners ==
    ASSUME Typed, Money, Owners, NEW w \in Runs, ReturnsEarnings(w)
    PROVE  Owners'
<1> DEFINE p == run[w].payout
<1>0. /\ ledger \in [Rows -> Earning] /\ payout \in [Payouts -> Payout] /\ p \in Payouts
      /\ \A q \in Payouts : payout[q].rows \subseteq Rows
  BY DEF ReturnsEarnings, Typed, TypeOK, EarningsTypeOK, RunHasPayout, Payout
<1>1. Reversed(p)
  BY DEF ReturnsEarnings, Money, ReversalsHappened
<1>2. \A r \in Rows : [ledger[r] EXCEPT !.payout = NoPayout].payout = NoPayout
                      /\ [ledger[r] EXCEPT !.payout = NoPayout].status = ledger[r].status
  BY <1>0 DEF Earning
<1>3. \A r \in Rows : /\ ledger'[r].status = ledger[r].status
                      /\ ledger[r].payout # p => ledger'[r].payout = ledger[r].payout
                      /\ ledger[r].payout = p => ledger'[r].payout = NoPayout
  BY <1>2 DEF ReturnsEarnings
<1>4. \A q \in Payouts : payout'[q].rows = payout[q].rows
  BY <1>0 DEF ReturnsEarnings, Payout
<1>5. UNCHANGED <<call, transfers>>
  BY DEF ReturnsEarnings
<1>6. OwnsItsRows'
  BY <1>0, <1>1, <1>3, <1>4, <1>5 DEF Owners, OwnsItsRows, Reversed
<1>7. OnlyEarnedIsPaid' /\ UnsettledHasNothing'
  BY <1>3, <1>5 DEF Owners, OnlyEarnedIsPaid, UnsettledHasNothing
<1> QED
  BY <1>6, <1>7 DEF Owners

(* Dropping and holding touch no row that a payout owns, and no owner.        *)
LEMMA DropKeepsRows ==
    ASSUME Typed, NEW c, DropOwed(c)
    PROVE  \A r \in Rows : RowKept(r)
<1>1. Dropped.payout = NoPayout
  BY DEF Dropped, NoEarning
<1> QED
  BY <1>1 DEF DropOwed, RowKept, Owed

(* Setting or clearing the hold on rows leaves their status and payout.       *)
LEMMA HoldKeepsRows ==
    ASSUME Typed, NEW b, NEW H,
           ledger' = [r \in Rows |-> IF r \in H THEN [ledger[r] EXCEPT !.held = b] ELSE ledger[r]]
    PROVE  \A r \in Rows : RowKept(r)
<1>1. \A r \in Rows : /\ [ledger[r] EXCEPT !.held = b].payout = ledger[r].payout
                      /\ [ledger[r] EXCEPT !.held = b].status = ledger[r].status
  BY DEF Typed, TypeOK, EarningsTypeOK, Earning
<1> QED
  BY <1>1 DEF RowKept

\* A step that neither writes rows nor makes a payout of them
Quiet == UNCHANGED <<call, ledger>> /\ \A p \in Payouts : payout'[p].rows = payout[p].rows

(* Which steps of the payouts are more than that, or touch Stripe's transfers. *)
LEMMA PayoutsSteps ==
    ASSUME Typed, PayoutsNext
    PROVE  \/ Quiet /\ UNCHANGED transfers
           \/ \E w \in Runs : createPayoutForLedgerRows(w) \/ ReturnsEarnings(w)
           \/ Quiet /\ \E w \in Runs : sendPayoutTransfer(w)
           \/ Quiet /\ \E p \in Payouts : \E n \in DOMAIN transfers[p] : TransferReverses(p, n)
<1>0. payout \in [Payouts -> Payout]
  BY DEF Typed, TypeOK, EarningsTypeOK
<1>1. UNCHANGED <<call, ledger, payout>> => Quiet
  BY DEF Quiet
<1>a. ASSUME NEW w \in Runs,
             \/ runPayouts(w) \/ payExpertNow(w) \/ NotPayable(w) \/ ClaimConflicts(w)
             \/ reconcileSentTransfer(w) \/ TransferEventProcessed(w)
             \/ \E p \in Payouts : reattemptFailedPayouts(w, p) \/ markPaid(w, p)
      PROVE  Quiet /\ UNCHANGED transfers
  BY <1>1, <1>a
     DEF runPayouts, payExpertNow, NotPayable, ClaimConflicts, reconcileSentTransfer,
         TransferEventProcessed, reattemptFailedPayouts, markPaid
<1>b. ASSUME NEW w \in Runs, RecordsOutcome(w) \/ MarksPaid(w)
      PROVE  Quiet /\ UNCHANGED transfers
  <2>1. \A p \in Payouts : payout'[p].rows = payout[p].rows
    <3> DEFINE p == run[w].payout
               t == run[w].transfer
    <3>1. \/ payout' = [payout EXCEPT ![p] = [payout[p] EXCEPT !.status = "failed"]]
          \/ payout' = [payout EXCEPT ![p] = [payout[p] EXCEPT !.status = "paid"]]
          \/ payout' = [payout EXCEPT ![p] = [payout[p] EXCEPT !.status = "paid", !.transfer = t]]
      BY <1>b DEF RecordsOutcome, MarksPaid
    <3>2. p \in Payouts
      BY <1>b DEF RecordsOutcome, MarksPaid, Typed, RunHasPayout
    <3>3. PICK x : /\ payout' = [payout EXCEPT ![p] = x]
                   /\ \/ x = [payout[p] EXCEPT !.status = "failed"]
                      \/ x = [payout[p] EXCEPT !.status = "paid"]
                      \/ x = [payout[p] EXCEPT !.status = "paid", !.transfer = t]
      BY <3>1
    <3>4. x.rows = payout[p].rows
      BY <1>0, <3>2, <3>3 DEF Payout
    <3> QED
      BY <1>0, <3>2, <3>3, <3>4
  <2> QED
    BY <1>b, <2>1 DEF RecordsOutcome, MarksPaid, Quiet
<1>c. ASSUME NEW w \in Runs, NEW p \in Payouts, NEW n \in DOMAIN transfers[p],
             TransferCreated(w, <<p, n>>) \/ TransferReversed(w, <<p, n>>)
      PROVE  Quiet /\ UNCHANGED transfers
  <2>1. [payout[p] EXCEPT !.status = "paid", !.transfer = <<p, n>>].rows = payout[p].rows
    BY <1>0 DEF Payout
  <2>2. payout' = payout
        \/ payout' = [payout EXCEPT ![p] = [payout[p] EXCEPT !.status = "paid", !.transfer = <<p, n>>]]
    BY <1>c DEF TransferCreated, TransferReversed
  <2>3. \A q \in Payouts : payout'[q].rows = payout[q].rows
    BY <1>0, <2>1, <2>2
  <2> QED
    BY <1>c, <2>3 DEF TransferCreated, TransferReversed, Quiet
<1>d. ASSUME NEW p \in Payouts, KeyExpires(p)
      PROVE  Quiet /\ UNCHANGED transfers
  BY <1>1, <1>d DEF KeyExpires
<1>e. ASSUME NEW w \in Runs, sendPayoutTransfer(w) PROVE Quiet
  BY <1>1, <1>e DEF sendPayoutTransfer
<1>f. ASSUME NEW p \in Payouts, NEW n \in DOMAIN transfers[p], TransferReverses(p, n) PROVE Quiet
  BY <1>1, <1>f DEF TransferReverses
<1> QED
  BY <1>a, <1>b, <1>c, <1>d, <1>e, <1>f DEF PayoutsNext, RunStep

(* Every step keeps Owners.                                                   *)
LEMMA PayoutsOwners ==
    ASSUME Typed, Money, Owners, PayoutsNext
    PROVE  Owners'
<1>1. CASE Quiet
  <2>1. BillingKept /\ PayoutsKept /\ \A r \in Rows : RowKept(r)
    BY <1>1, PayoutsMoney DEF Quiet, BillingKept, PayoutsKept, RowKept
  <2> QED
    BY <2>1, OwnersKept
<1> QED
  BY <1>1, ClaimOwners, ReturnOwners, PayoutsSteps

(* What refunds and disputes write to the rows: they drop the owed ones of a  *)
(* call, or hold or release some; and no settled call becomes a pending one.  *)
LEMMA RefundsWrite ==
    ASSUME Typed, RefundsNext
    PROVE  /\ BillingKept /\ UNCHANGED payout
           /\ \/ UNCHANGED ledger
              \/ \E c : DropOwed(c)
              \/ \E b, H : ledger' = [r \in Rows |-> IF r \in H THEN [ledger[r] EXCEPT !.held = b]
                                                            ELSE ledger[r]]
<1>0. call \in [Consultations -> Call]
  BY DEF Typed, TypeOK, EarningsTypeOK
<1> DEFINE SetsHolds ==
             \E b, H : ledger' = [r \in Rows |-> IF r \in H THEN [ledger[r] EXCEPT !.held = b]
                                                         ELSE ledger[r]]
           Goal == /\ BillingKept /\ UNCHANGED payout
                   /\ UNCHANGED ledger \/ (\E c : DropOwed(c)) \/ SetsHolds
<1>a. UNCHANGED <<call, ledger, payout>> => Goal
  BY DEF BillingKept
<1>b. ASSUME NEW k \in Tasks, RefundRecords(k)
      PROVE  Goal
  <2>1. BillingKept
    BY <1>0, <1>b DEF RefundRecords, BillingKept, Call
  <2>2. UNCHANGED payout /\ \E c : DropOwed(c)
    BY <1>b, Zenon DEF RefundRecords
  <2> HIDE DEF SetsHolds
  <2> QED
    BY <2>1, <2>2
<1>c. ASSUME NEW k \in Tasks, handleChargeRefunded(k)
      PROVE  Goal
  <2> DEFINE c == task[k].event.of[1]
             v == call[c].review \/ task[k].paidOut
  <2>1. /\ UNCHANGED payout
        /\ \/ DropOwed(c) /\ call' = [call EXCEPT ![c].billing = "refunded", ![c].review = v]
           \/ ledger' = ledger /\ call' = [call EXCEPT ![c].review = TRUE]
    BY <1>c DEF handleChargeRefunded
  <2> HIDE DEF c, v, SetsHolds
  <2>2. BillingKept
    BY <1>0, <2>1 DEF BillingKept, Call
  <2> QED
    BY <2>1, <2>2
<1>d. ASSUME NEW k \in Tasks, handleDisputeCreated(k)
      PROVE  Goal
  <2> DEFINE c == task[k].event.of[1]
             v == call[c].review \/ task[k].paidOut
             H == {r \in Rows : r[1] = c /\ Owed(r)}
  <2>1. /\ UNCHANGED payout
        /\ call' = [call EXCEPT ![c].dispute = "open", ![c].review = v]
        /\ ledger' = [r \in Rows |-> IF r \in H THEN [ledger[r] EXCEPT !.held = TRUE] ELSE ledger[r]]
    BY <1>d DEF handleDisputeCreated
  <2> HIDE DEF c, v, H
  <2>2. BillingKept
    BY <1>0, <2>1 DEF BillingKept, Call
  <2>3. SetsHolds
    BY <2>1, Zenon
  <2> HIDE DEF SetsHolds
  <2> QED
    BY <2>1, <2>2, <2>3
<1>e. ASSUME NEW k \in Tasks, handleDisputeClosed(k)
      PROVE  Goal
  <2> DEFINE c == task[k].event.of[1]
             lost == task[k].event.type = "dispute.lost"
             d == IF lost THEN "lost" ELSE "won"
             v == call[c].review \/ (lost /\ task[k].paidOut)
             H == {r \in Rows : r[1] = c}
  <2>1. /\ UNCHANGED payout
        /\ call' = [call EXCEPT ![c].dispute = d, ![c].review = v]
        /\ \/ DropOwed(c)
           \/ ledger' = [r \in Rows |-> IF r \in H THEN [ledger[r] EXCEPT !.held = FALSE] ELSE ledger[r]]
    BY <1>e DEF handleDisputeClosed
  <2> HIDE DEF c, d, v, H
  <2>2. BillingKept
    BY <1>0, <2>1 DEF BillingKept, Call
  <2>3. (\E x : DropOwed(x)) \/ SetsHolds
    BY <2>1, Zenon
  <2> HIDE DEF SetsHolds
  <2> QED
    BY <2>1, <2>2, <2>3
<1> HIDE DEF Goal
<1>f. Goal
  BY <1>a, <1>b, <1>c, <1>d, <1>e
     DEF RefundsNext, TaskStep, EventArrives, RefundsPayment, EventProcessed, refundConsultation,
         ChargeRefunded, DisputeCreated, DisputeClosed, DashboardRefunds, DisputeOpens, DisputeCloses
<1> QED
  BY <1>f, Zenon DEF Goal, SetsHolds

(* Refunds and disputes keep Owners.                                          *)
LEMMA RefundsOwners ==
    ASSUME Typed, Owners, RefundsNext, UNCHANGED payoutsOnly
    PROVE  Owners'
<1>1. BillingKept /\ PayoutsKept
  BY RefundsWrite DEF PayoutsKept, Reversed, payoutsOnly
<1>2. CASE UNCHANGED ledger
  BY <1>1, <1>2, OwnersKept DEF RowKept
<1>3. CASE \E c : DropOwed(c)
  BY <1>1, <1>3, DropKeepsRows, OwnersKept
<1>4. CASE \E b, H : ledger' = [r \in Rows |-> IF r \in H THEN [ledger[r] EXCEPT !.held = b]
                                                       ELSE ledger[r]]
  <2>1. \A r \in Rows : RowKept(r)
    BY <1>4, HoldKeepsRows
  <2> QED
    BY <1>1, <2>1, OwnersKept
<1> QED
  BY <1>2, <1>3, <1>4, RefundsWrite

-----------------------------------------------------------------------------
(* The invariant, and what it is for.                                         *)

(* The invariant holds at first.                                              *)
LEMMA InitInductive == Init => IInv
<1> SUFFICES ASSUME Init PROVE IInv
  OBVIOUS
<1>1. EarningsInit /\ PayoutsInit
  BY DEF Init
<1>2. Money
  <2>1. \A w \in Runs : run[w] = IdleRun
    BY <1>1 DEF PayoutsInit
  <2>2. OneTransfer
    BY <1>1 DEF PayoutsInit, OneTransfer
  <2>3. SendsOnce /\ ReversalsHappened
    BY <1>1, <2>1, IdleRunTyped DEF SendsOnce, ReversalsHappened, EarningsInit
  <2>4. UnmadeIsUntouched
    BY <1>1, <2>1 DEF UnmadeIsUntouched, PayoutsInit, IdleRun, Payouts, NoPayout
  <2> QED
    BY <2>2, <2>3, <2>4 DEF Money
<1>3. Owners
  BY <1>1 DEF EarningsInit, Owners, OwnsItsRows, OnlyEarnedIsPaid, UnsettledHasNothing, NoEarning
<1> QED
  BY <1>2, <1>3, InitTyped DEF IInv

(* Every step of payouts, refunds, settlement and restarts keeps it.          *)
LEMMA NextInductive ==
    IInv /\ [Next]_vars => IInv'
<1> SUFFICES ASSUME IInv, [Next]_vars PROVE IInv'
  OBVIOUS
<1>0. Typed /\ Money /\ Owners /\ Typed'
  BY NextTyped DEF IInv
<1>1. CASE PayoutSide
  BY <1>0, <1>1, PayoutsMoney, PayoutsOwners DEF PayoutSide, IInv
<1>2. CASE RefundSide
  BY <1>0, <1>2, OthersMoney, RefundsOwners DEF RefundSide, IInv
<1>3. CASE Settlement
  BY <1>0, <1>3, OthersMoney, SettlementOwners DEF IInv
<1>4. CASE BillingRestarts \/ UNCHANGED vars
  <2>1. UNCHANGED <<call, ledger, payout, transfers>>
    BY <1>4 DEF BillingRestarts, vars, payoutsOnly
  <2>2. BillingKept /\ PayoutsKept /\ \A r \in Rows : RowKept(r)
    BY <2>1 DEF BillingKept, PayoutsKept, RowKept, Reversed
  <2> QED
    BY <1>0, <1>4, <2>2, OthersMoney, OwnersKept DEF IInv
<1> QED
  BY <1>1, <1>2, <1>3, <1>4 DEF Next

(* Of a payout at most one transfer to the expert stands, and two payouts made *)
(* from the same ledger row do not both stand unless one of them was sent again *)
(* after its transfer was reversed: for any number of calls, payouts, payout    *)
(* requests, retries and webhooks at once, with Stripe failing, answers lost,   *)
(* keys expiring, transfers reversed and restarts in any number.                *)
THEOREM PaidOnce == Spec => []EarningPaidOnce
<1>1. IInv => EarningPaidOnce
  <2> SUFFICES ASSUME IInv PROVE EarningPaidOnce
    OBVIOUS
  <2>0. transfers \in [Payouts -> Seq({"live", "reversed"})]
    BY DEF IInv, Typed, TypeOK, PayoutsTypeOK
  <2>1. \A p \in Payouts : \A n \in Standing(p) : n = Len(transfers[p])
    BY DEF IInv, Money, OneTransfer, Standing
  <2>2. ASSUME NEW p \in Payouts, Standing(p) # {}, ~SentAgain(p)
        PROVE  \A r \in payout[p].rows : ledger[r].payout = p
    <3>1. PICK n \in DOMAIN transfers[p] : transfers[p][n] = "live" /\ n = Len(transfers[p])
      BY <2>1, <2>2 DEF Standing
    <3>2. n = 1
      BY <2>0, <2>2, <3>1 DEF SentAgain
    <3>3. ~Reversed(p)
      BY <3>1, <3>2 DEF Reversed
    <3> QED
      BY <3>3 DEF IInv, Owners, OwnsItsRows
  <2> QED
    BY <2>1, <2>2 DEF EarningPaidOnce
<1> QED
  BY <1>1, InitInductive, NextInductive, PTL DEF Spec

-----------------------------------------------------------------------------
(* Refunds: what is recorded as refunded was.                                 *)

Full == {m \in Charges : FullyRefunded(m)}

\* F being the payments refunded in full: a refund request knows which payments
\* are left, a webhook what it was told and what it read.
Meant(x, F) ==
    /\ x.op \in {"refund", "record"} => x.of \subseteq ChargesOf(x.c)
    /\ x.op = "refund" => ChargesOf(x.c) \subseteq F \cup x.todo
    /\ x.op = "record" => ChargesOf(x.c) \subseteq F
    /\ x.op = "refunded" =>
          \E m \in Charges, full \in BOOLEAN :
             /\ x.event = refunded(m, full)
             /\ full => m \in F
             /\ x.others => ChargesOf(m[1]) \ {m} \subseteq F

RefundsMeant ==
    /\ \A m \in Charges : txn[m] = "refunded" => m \in Full
    /\ \A m \in Charges : refunded(m, TRUE) \in events => m \in Full
    /\ \A k \in Tasks : Meant(task[k], Full)
    /\ \A c \in Consultations : call[c].billing = "refunded" => ChargesOf(c) \subseteq Full

(* What a request means stays meant when more has been refunded.              *)
LEMMA MeantGrows ==
    ASSUME NEW F, NEW G, F \subseteq G, NEW x, Meant(x, F)
    PROVE  Meant(x, G)
BY DEF Meant

(* A request with nothing left to write means nothing.                        *)
LEMMA DoneIsMeant == \A F, x : x.op \in {"ack", "hold", "close"} \/ x = IdleTask => Meant(x, F)
BY DEF Meant, IdleTask

(* Refunds are not undone, so it is enough that a step means what it writes.  *)
LEMMA MeaningKept ==
    ASSUME Typed, RefundsMeant, Full \subseteq Full',
           \A m \in Charges : txn'[m] = "refunded" => txn[m] = "refunded" \/ m \in Full',
           \A m \in Charges :
              refunded(m, TRUE) \in events' => refunded(m, TRUE) \in events \/ m \in Full',
           \A c \in Consultations :
              call'[c].billing = "refunded"
              => call[c].billing = "refunded" \/ ChargesOf(c) \subseteq Full',
           \/ task' = task
           \/ \E k \in Tasks : \E x : task' = [task EXCEPT ![k] = x] /\ Meant(x, Full')
    PROVE  RefundsMeant'
<1>1. \A k \in Tasks : task'[k] = task[k] \/ Meant(task'[k], Full')
  BY DEF Typed, TypeOK, RefundsTypeOK
<1>2. \A k \in Tasks : Meant(task'[k], Full')
  BY <1>1, MeantGrows DEF RefundsMeant
<1> QED
  BY <1>2 DEF RefundsMeant, refunded, ChargesOf, Charges

(* Every step on the refunds' side means what it writes.                      *)
LEMMA RefundsKeepMeaning ==
    ASSUME Typed, RefundsMeant, RefundsNext
    PROVE  RefundsMeant'
<1>0. /\ task \in [Tasks -> RefundTask \cup HookTask \cup {IdleTask}]
      /\ txn \in [Charges -> {"succeeded", "refunded"}] /\ refunds \in [Charges -> SUBSET Sources]
      /\ call \in [Consultations -> Call] /\ \A c : ChargesOf(c) \subseteq Charges
  BY DEF Typed, TypeOK, RefundsTypeOK, EarningsTypeOK, ChargesOf
<1>1. UNCHANGED refunds => Full' = Full
  BY DEF Full, FullyRefunded, Charges
<1>2. \A m \in Charges : OthersRefunded(m) => ChargesOf(m[1]) \ {m} \subseteq Full
  BY <1>0 DEF OthersRefunded, RefundsMeant
<1>a. ASSUME NEW k \in Tasks, NEW c \in Consultations, refundConsultation(k, c)
      PROVE  RefundsMeant'
  <2> DEFINE of == {m \in ChargesOf(c) : txn[m] = "succeeded"}
             x == [op |-> "refund", c |-> c, of |-> of, todo |-> of]
  <2>1. ChargesOf(c) \subseteq Full \cup of
    BY <1>0 DEF RefundsMeant
  <2>2. Meant(x, Full)
    <3> HIDE DEF of
    <3>1. of \subseteq ChargesOf(c)
      BY DEF of
    <3> QED
      BY <2>1, <3>1 DEF Meant
  <2>3. task' = [task EXCEPT ![k] = x] /\ UNCHANGED <<refunds, txn, events, call>>
    BY <1>a DEF refundConsultation, TaskBegins
  <2> HIDE DEF x
  <2> QED
    BY <1>1, <2>2, <2>3, MeaningKept
<1>b. ASSUME NEW k \in Tasks, RefundsPayment(k)
      PROVE  RefundsMeant'
  <2>0. /\ task[k] \in RefundTask /\ task[k].op = "refund" /\ Meant(task[k], Full)
        /\ UNCHANGED <<txn, call>>
    BY <1>b, TaskKinds DEF RefundsPayment, Typed, TypeOK, RefundsMeant
  <2> DEFINE x(m) == [task[k] EXCEPT !.todo = @ \ {m},
                                     !.op = IF task[k].todo = {m} THEN "record" ELSE @]
  <2>1. PICK m \in task[k].todo :
           \/ Refund(m) /\ TaskGoes(k, x(m))
           \/ Refund(m) /\ TaskEnds(k)
           \/ TaskEnds(k) /\ UNCHANGED <<refunds, events>>
    BY <1>b DEF RefundsPayment
  <2>2. m \in Charges
    BY <2>0 DEF RefundTask
  <2>3. CASE TaskEnds(k) /\ UNCHANGED <<refunds, events>>
    BY <1>1, <2>0, <2>3, DoneIsMeant, MeaningKept DEF TaskEnds
  <2>4. ASSUME Refund(m)
        PROVE  /\ Full \subseteq Full' /\ m \in Full'
               /\ \A y \in Charges :
                     refunded(y, TRUE) \in events' => refunded(y, TRUE) \in events \/ y \in Full'
    <3>1. \A y \in Charges : FullyRefunded(y) => FullyRefunded(y)'
      BY <1>0, <2>4 DEF Refund, FullyRefunded
    <3>2. FullyRefunded(m)'
      BY <1>0, <2>2, <2>4 DEF Refund, FullyRefunded
    <3>3. Full \subseteq Full' /\ m \in Full'
      BY <2>2, <3>1, <3>2 DEF Full, Charges
    <3> QED
      BY <2>4, <3>3 DEF Refund, refunded
  <2>5. CASE Refund(m) /\ TaskEnds(k)
    BY <2>0, <2>4, <2>5, DoneIsMeant, MeaningKept DEF TaskEnds
  <2>6. CASE Refund(m) /\ TaskGoes(k, x(m))
    <3>1. /\ x(m).c = task[k].c /\ x(m).of = task[k].of /\ x(m).todo = task[k].todo \ {m}
          /\ x(m).op = IF task[k].todo = {m} THEN "record" ELSE "refund"
      BY <2>0 DEF RefundTask
    <3>2. task' = [task EXCEPT ![k] = x(m)]
      BY <2>6 DEF TaskGoes
    <3> HIDE DEF x
    <3>3. Meant(x(m), Full')
      BY <2>0, <2>4, <2>6, <3>1 DEF Meant
    <3> QED
      BY <2>0, <2>4, <2>6, <3>2, <3>3, MeaningKept
  <2> QED
    BY <2>1, <2>3, <2>5, <2>6
<1>c. ASSUME NEW k \in Tasks, RefundRecords(k)
      PROVE  RefundsMeant'
  <2> DEFINE c == task[k].c
  <2>1. task[k] \in RefundTask /\ task[k].op = "record" /\ Meant(task[k], Full)
    BY <1>c, TaskKinds DEF RefundRecords, Typed, TypeOK, RefundsMeant
  <2>2. ChargesOf(c) \subseteq Full /\ task[k].of \subseteq ChargesOf(c) /\ c \in Consultations
    BY <2>1 DEF Meant, RefundTask
  <2>3. Full' = Full /\ events' = events
    BY <1>1, <1>c DEF RefundRecords
  <2>4. \A m \in Charges : txn'[m] = "refunded" => txn[m] = "refunded" \/ m \in Full'
    BY <1>c, <2>2, <2>3 DEF RefundRecords
  <2>5. \A b \in Consultations :
           call'[b].billing = "refunded"
           => call[b].billing = "refunded" \/ ChargesOf(b) \subseteq Full'
    BY <1>0, <1>c, <2>2, <2>3 DEF RefundRecords
  <2> QED
    BY <1>c, <2>3, <2>4, <2>5, DoneIsMeant, MeaningKept DEF RefundRecords, TaskEnds
<1>d. ASSUME NEW k \in Tasks, NEW m \in Charges, NEW full \in BOOLEAN, ChargeRefunded(k, m, full)
      PROVE  RefundsMeant'
  <2> DEFINE x(op) == [op |-> op, event |-> refunded(m, full), paidOut |-> PaidOut(refunded(m, full).of[1]),
                       others |-> OthersRefunded(m), fresh |-> FreshRefunds(m)]
  <2>1. \E op \in {"ack", "refunded"} : task' = [task EXCEPT ![k] = x(op)]
    BY <1>d DEF ChargeRefunded, Hooked, TaskBegins
  <2>2. full => m \in Full
    BY <1>d DEF ChargeRefunded, RefundsMeant
  <2>3. \A op \in {"ack", "refunded"} :
           x(op).op = op /\ x(op).event = refunded(m, full) /\ x(op).others = OthersRefunded(m)
    OBVIOUS
  <2> HIDE DEF x
  <2>4. \A op \in {"ack", "refunded"} : Meant(x(op), Full)
    BY <1>2, <2>2, <2>3 DEF Meant
  <2>5. UNCHANGED <<refunds, txn, events, call>>
    BY <1>d DEF ChargeRefunded
  <2> QED
    BY <1>1, <2>1, <2>4, <2>5, MeaningKept
<1>e. ASSUME NEW k \in Tasks, handleChargeRefunded(k)
      PROVE  RefundsMeant'
  <2>1. task[k] \in HookTask /\ task[k].op = "refunded" /\ Meant(task[k], Full)
    BY <1>e, TaskKinds DEF handleChargeRefunded, Typed, TypeOK, RefundsMeant
  <2>2. PICK m \in Charges, full \in BOOLEAN :
             /\ task[k].event = refunded(m, full)
             /\ full => m \in Full
             /\ task[k].others => ChargesOf(m[1]) \ {m} \subseteq Full
    BY <2>1 DEF Meant
  <2>3. task[k].event.of = m /\ task[k].event.full = full
    BY <2>2 DEF refunded
  <2>4. Full' = Full /\ events' = events
    BY <1>1, <1>e DEF handleChargeRefunded
  <2>5. \A y \in Charges : txn'[y] = "refunded" => txn[y] = "refunded" \/ y \in Full'
    BY <1>0, <1>e, <2>2, <2>3, <2>4 DEF handleChargeRefunded
  <2>6. (full \/ txn[m] = "refunded") => m \in Full
    BY <2>2 DEF RefundsMeant
  <2> DEFINE c == m[1]
             v == call[c].review \/ task[k].paidOut
  <2>7. \/ /\ call' = [call EXCEPT ![c].billing = "refunded", ![c].review = v]
           /\ ChargesOf(c) \subseteq Full
        \/ call' = [call EXCEPT ![c].review = TRUE]
    BY <1>2, <1>e, <2>2, <2>3, <2>6 DEF handleChargeRefunded
  <2> HIDE DEF c, v
  <2>8. \A b \in Consultations :
           call'[b].billing = "refunded"
           => call[b].billing = "refunded" \/ ChargesOf(b) \subseteq Full'
    <3>1. CASE call' = [call EXCEPT ![c].review = TRUE]
      BY <1>0, <3>1 DEF Call
    <3>2. CASE call' = [call EXCEPT ![c].billing = "refunded", ![c].review = v]
               /\ ChargesOf(c) \subseteq Full
      BY <1>0, <2>4, <3>2 DEF Call
    <3> QED
      BY <2>7, <3>1, <3>2
  <2> DEFINE x == [task[k] EXCEPT !.op = "ack"]
  <2>9. x.op = "ack" /\ task' = [task EXCEPT ![k] = x]
    BY <1>e, <2>1 DEF handleChargeRefunded, HookGoesToAck, TaskGoes, HookTask
  <2> HIDE DEF x
  <2> QED
    BY <2>4, <2>5, <2>8, <2>9, DoneIsMeant, MeaningKept
<1>f. ASSUME NEW k \in Tasks, NEW m \in Charges, DisputeCreated(k, m) \/ DisputeClosed(k, m)
      PROVE  RefundsMeant'
  <2> DEFINE x(op, type) == [op |-> op, event |-> event(type, m), paidOut |-> PaidOut(event(type, m).of[1]),
                             others |-> FALSE, fresh |-> {}]
  <2>1. \E op \in {"hold", "close"} : \E type : task' = [task EXCEPT ![k] = x(op, type)]
    BY <1>f DEF DisputeCreated, DisputeClosed, Hooked, TaskBegins
  <2>2. \A op, type : x(op, type).op = op
    OBVIOUS
  <2> HIDE DEF x
  <2>3. UNCHANGED <<refunds, txn, events, call>>
    BY <1>f DEF DisputeCreated, DisputeClosed
  <2> QED
    BY <1>1, <2>1, <2>2, <2>3, DoneIsMeant, MeaningKept
<1>g. ASSUME NEW k \in Tasks, handleDisputeCreated(k) \/ handleDisputeClosed(k)
      PROVE  RefundsMeant'
  <2> DEFINE x == [task[k] EXCEPT !.op = "ack"]
  <2>1. x.op = "ack" /\ task' = [task EXCEPT ![k] = x]
    BY <1>g, TaskKinds
       DEF handleDisputeCreated, handleDisputeClosed, HookGoesToAck, TaskGoes, HookTask, Typed, TypeOK
  <2> HIDE DEF x
  <2>2. UNCHANGED <<refunds, txn, events>>
    BY <1>g DEF handleDisputeCreated, handleDisputeClosed
  <2>3. \A c \in Consultations : call'[c].billing = call[c].billing
    <3>1. \E c, d, v : call' = [call EXCEPT ![c].dispute = d, ![c].review = v]
      BY <1>g, Zenon DEF handleDisputeCreated, handleDisputeClosed
    <3> QED
      BY <1>0, <3>1 DEF Call
  <2> QED
    BY <1>1, <2>1, <2>2, <2>3, DoneIsMeant, MeaningKept
<1>h. ASSUME NEW k \in Tasks, EventProcessed(k)
      PROVE  RefundsMeant'
  BY <1>1, <1>h, DoneIsMeant, MeaningKept DEF EventProcessed, TaskEnds
<1>i. ASSUME NEW m \in Charges, NEW source \in {"part", "dashboard"}, DashboardRefunds(m, source)
      PROVE  RefundsMeant'
  <2>1. \A y \in Charges : FullyRefunded(y) => FullyRefunded(y)'
    BY <1>0, <1>i DEF DashboardRefunds, FullyRefunded
  <2>2. source = "dashboard" => FullyRefunded(m)'
    BY <1>0, <1>i DEF DashboardRefunds, FullyRefunded
  <2>3. Full \subseteq Full' /\ (source = "dashboard" => m \in Full')
    BY <2>1, <2>2 DEF Full, Charges
  <2>4. \A y \in Charges :
           refunded(y, TRUE) \in events' => refunded(y, TRUE) \in events \/ y \in Full'
    BY <1>i, <2>3 DEF DashboardRefunds, refunded
  <2> QED
    BY <1>i, <2>3, <2>4, MeaningKept DEF DashboardRefunds
<1>j. ASSUME NEW m \in Charges, DisputeOpens(m) \/ \E how \in {"won", "lost"} : DisputeCloses(m, how)
      PROVE  RefundsMeant'
  <2>1. UNCHANGED <<refunds, txn, task, call>>
    BY <1>j DEF DisputeOpens, DisputeCloses
  <2>2. \A y \in Charges : refunded(y, TRUE) \in events' => refunded(y, TRUE) \in events
    BY <1>j DEF DisputeOpens, DisputeCloses, refunded, event
  <2> QED
    BY <1>1, <2>1, <2>2, MeaningKept
<1> QED
  BY <1>a, <1>b, <1>c, <1>d, <1>e, <1>f, <1>g, <1>h, <1>i, <1>j
     DEF RefundsNext, TaskStep, EventArrives

(* The payouts' side changes no call, and tells of transfers only.            *)
LEMMA PayoutsTell ==
    ASSUME PayoutsNext
    PROVE  call' = call /\ \A e \in events' \ events : e.type \in {"transfer.created", "transfer.reversed"}
<1> DEFINE Tells == \A e \in events' \ events : e.type \in {"transfer.created", "transfer.reversed"}
<1>1. \A p : Transfer(p) => Tells
  BY DEF Transfer, event
<1>a. ASSUME NEW w \in Runs, sendPayoutTransfer(w) PROVE call' = call /\ Tells
  <2>1. Transfer(run[w].payout) \/ events' = events
    BY <1>a DEF sendPayoutTransfer
  <2> QED
    BY <1>a, <1>1, <2>1 DEF sendPayoutTransfer
<1>b. ASSUME NEW p \in Payouts, NEW n \in DOMAIN transfers[p], TransferReverses(p, n)
      PROVE  call' = call /\ Tells
  BY <1>b DEF TransferReverses, event
<1>c. ASSUME NEW w \in Runs,
             \/ runPayouts(w) \/ payExpertNow(w) \/ NotPayable(w) \/ createPayoutForLedgerRows(w)
             \/ ClaimConflicts(w) \/ RecordsOutcome(w) \/ reconcileSentTransfer(w)
             \/ MarksPaid(w) \/ ReturnsEarnings(w)
      PROVE  call' = call /\ events' = events
  <2>1. CASE runPayouts(w) BY <2>1 DEF runPayouts
  <2>2. CASE payExpertNow(w) BY <2>2 DEF payExpertNow
  <2>3. CASE createPayoutForLedgerRows(w) BY <2>3 DEF createPayoutForLedgerRows
  <2> QED
    BY <1>c, <2>1, <2>2, <2>3
       DEF NotPayable, ClaimConflicts, RecordsOutcome, reconcileSentTransfer, MarksPaid, ReturnsEarnings
<1>d. ASSUME NEW w \in Runs, NEW p \in Payouts, reattemptFailedPayouts(w, p) \/ markPaid(w, p)
      PROVE  call' = call /\ events' = events
  BY <1>d DEF reattemptFailedPayouts, markPaid
<1>e. ASSUME NEW w \in Runs, NEW t, TransferCreated(w, t) \/ TransferReversed(w, t)
      PROVE  call' = call /\ events' = events
  BY <1>e DEF TransferCreated, TransferReversed
<1>f. ASSUME NEW w \in Runs, TransferEventProcessed(w) PROVE call' = call /\ events' \subseteq events
  BY <1>f DEF TransferEventProcessed
<1>g. ASSUME NEW p \in Payouts, KeyExpires(p) PROVE call' = call /\ events' = events
  BY <1>g DEF KeyExpires
<1>2. events' \subseteq events => Tells
  OBVIOUS
<1> HIDE DEF Tells
<1>3. call' = call /\ Tells
  BY <1>a, <1>b, <1>c, <1>d, <1>e, <1>f, <1>g, <1>2 DEF PayoutsNext, RunStep
<1> QED
  BY <1>3 DEF Tells

(* Settlement, payouts and restarts refund nothing.                           *)
LEMMA OthersKeepMeaning ==
    ASSUME Typed, RefundsMeant, Settlement \/ PayoutSide \/ BillingRestarts \/ UNCHANGED vars
    PROVE  RefundsMeant'
<1>1. UNCHANGED <<txn, refunds>>
  BY DEF Settlement, PayoutSide, BillingRestarts, vars, refundsOnly
<1>2. Full' = Full
  BY <1>1 DEF Full, FullyRefunded, Charges
<1>3. \A k \in Tasks : task'[k] = task[k] \/ task'[k] = IdleTask
  BY DEF Settlement, PayoutSide, BillingRestarts, vars, refundsOnly
<1>4. \A k \in Tasks : Meant(task'[k], Full')
  BY <1>2, <1>3, DoneIsMeant DEF RefundsMeant
<1>5. \A c \in Consultations : call'[c].billing = "refunded" => call[c].billing = "refunded"
  <2>1. CASE Settlement
    <3>1. PICK c \in Consultations : call' = [call EXCEPT ![c].billing = "charged"]
      BY <2>1 DEF Settlement, SettleRecords
    <3>2. call \in [Consultations -> Call]
      BY DEF Typed, TypeOK, EarningsTypeOK
    <3> QED
      BY <3>1, <3>2 DEF Call
  <2>2. CASE ~Settlement
    <3>1. call' = call
      BY <2>2, PayoutsTell DEF PayoutSide, BillingRestarts, vars
    <3> QED
      BY <3>1
  <2> QED
    BY <2>1, <2>2
<1>6. \A m \in Charges : refunded(m, TRUE) \in events' => refunded(m, TRUE) \in events
  <2>1. \A m : refunded(m, TRUE).type = "charge.refunded"
    BY DEF refunded
  <2>2. CASE PayoutSide
    BY <2>1, <2>2, PayoutsTell DEF PayoutSide
  <2> QED
    BY <2>2 DEF Settlement, SettleRecords, BillingRestarts, vars
<1> QED
  BY <1>1, <1>2, <1>4, <1>5, <1>6 DEF RefundsMeant, refunded, ChargesOf, Charges

(* A call is recorded as refunded only when each of its payments went back in *)
(* full, whatever requests, Dashboard refunds and webhooks cross.             *)
THEOREM RefundedWasRefunded == Spec => []RefundedCallWasRefunded
<1>1. Init => RefundsMeant
  BY DEF Init, EarningsInit, RefundsInit, RefundsMeant, Meant, IdleTask
<1>2. Typed /\ RefundsMeant /\ [Next]_vars => RefundsMeant'
  BY RefundsKeepMeaning, OthersKeepMeaning DEF Next, RefundSide
<1>3. RefundsMeant => RefundedCallWasRefunded
  BY DEF RefundsMeant, RefundedCallWasRefunded, Full
<1> QED
  BY <1>1, <1>2, <1>3, InitTyped, NextTyped, PTL DEF Spec

-----------------------------------------------------------------------------
(* The books: the rows of a settled call add up to what was paid for it.      *)

NoneDropped(c) == \A r \in RowsOf(c) : ledger[r].status # "dropped"

EarnedOf(c) == SumFunctionOnSet([r \in RowsOf(c) |-> ledger[r].gross], RowsOf(c))

BooksInv ==
    /\ UnsettledHasNothing
    /\ \A r \in Rows : ledger[r].status # "earned" => ledger[r].gross = 0
    /\ \A c \in Consultations :
          call[c].billing # "pending" /\ NoneDropped(c) => EarnedOf(c) = GrossCents

(* A call has finitely many rows. *)
LEMMA RowsAreFinite == \A c \in Consultations : IsFiniteSet(RowsOf(c)) /\ RowsOf(c) \subseteq Rows
<1> SUFFICES ASSUME NEW c \in Consultations
             PROVE  IsFiniteSet(RowsOf(c)) /\ RowsOf(c) \subseteq Rows
  OBVIOUS
<1>1. PICK N \in SUBSET Nat : N = 0..MaxParts /\ IsFiniteSet(N)
  BY PartsAssumption, FS_Interval
<1>2. PICK f : f = [i \in N |-> <<c, i>>]
  OBVIOUS
<1>3. PICK T : T = RowsOf(c)
  OBVIOUS
<1>4. f \in Surjection(N, T)
  BY <1>1, <1>2, <1>3 DEF Surjection, RowsOf, Rows
<1>5. IsFiniteSet(T)
  BY <1>1, <1>4, FS_Surjection
<1> QED
  BY <1>3, <1>5 DEF RowsOf

\* No call is settled
BillingSame ==
    \A c \in Consultations : call'[c].billing = "pending" <=> call[c].billing = "pending"

(* The books stay when the rows keep status and gross, or are dropped.        *)
LEMMA BooksKept ==
    ASSUME Typed, BooksInv, BillingSame,
           \A r \in Rows : \/ ledger'[r].status = ledger[r].status /\ ledger'[r].gross = ledger[r].gross
                           \/ /\ ledger'[r].status = "dropped" /\ ledger'[r].gross = 0
                              /\ ledger[r].status = "earned"
    PROVE  BooksInv'
<1>1. UnsettledHasNothing'
  BY DEF BooksInv, UnsettledHasNothing, BillingSame, Rows
<1>2. \A r \in Rows : (ledger[r].status # "earned" => ledger[r].gross = 0)'
  BY DEF BooksInv
<1>3. ASSUME NEW c \in Consultations, (call[c].billing # "pending" /\ NoneDropped(c))'
      PROVE  (EarnedOf(c) = GrossCents)'
  <2>1. PICK S : S = RowsOf(c) /\ IsFiniteSet(S) /\ S \subseteq Rows
    BY RowsAreFinite
  <2>2. PICK f : f = [r \in S |-> ledger[r].gross]
    OBVIOUS
  <2>3. PICK g : g = [r \in S |-> ledger'[r].gross]
    OBVIOUS
  <2>4. EarnedOf(c) = SumFunctionOnSet(f, S) /\ EarnedOf(c)' = SumFunctionOnSet(g, S)
    BY <2>1, <2>2, <2>3, Zenon DEF EarnedOf
  <2>5. \A r \in S : ledger'[r].status # "dropped"
    BY <1>3, <2>1 DEF NoneDropped
  <2>6. \A r \in S : ledger'[r].status = ledger[r].status /\ ledger'[r].gross = ledger[r].gross
    BY <2>1, <2>5
  <2>7. SumFunctionOnSet(f, S) = SumFunctionOnSet(g, S)
    BY <2>1, <2>2, <2>3, <2>6, SumSame
  <2>8. NoneDropped(c)
    BY <2>1, <2>5, <2>6 DEF NoneDropped
  <2>9. call[c].billing # "pending"
    BY <1>3 DEF BillingSame
  <2> QED
    BY <2>4, <2>7, <2>8, <2>9 DEF BooksInv
<1> QED
  BY <1>1, <1>2, <1>3 DEF BooksInv

\* Only what was charged is taken back, and a request takes back one call's payments
ChargedCalls == {c \in Consultations : call[c].billing # "pending"}

ForCharged(x, C) ==
    x.op \in {"refund", "record"} => x.c \in C /\ x.todo \subseteq ChargesOf(x.c)

ChargedFirst ==
    /\ \A m \in Charges : refunds[m] # {} => m[1] \in ChargedCalls
    /\ \A k \in Tasks : ForCharged(task[k], ChargedCalls)

(* It stays so when a step refunds payments of charged calls only.            *)
LEMMA ChargedKept ==
    ASSUME Typed, ChargedFirst, BillingKept,
           \A m \in Charges : refunds'[m] # {} => refunds[m] # {} \/ m[1] \in ChargedCalls,
           \A k \in Tasks : task'[k] = task[k] \/ ForCharged(task'[k], ChargedCalls)
    PROVE  ChargedFirst'
<1>1. ChargedCalls \subseteq ChargedCalls'
  BY DEF BillingKept, ChargedCalls
<1>2. \A k \in Tasks : ForCharged(task'[k], ChargedCalls)
  BY DEF ChargedFirst
<1>3. \A k \in Tasks : ForCharged(task'[k], ChargedCalls')
  BY <1>1, <1>2 DEF ForCharged
<1>4. \A m \in Charges : refunds'[m] # {} => m[1] \in ChargedCalls'
  BY <1>1 DEF ChargedFirst
<1> QED
  BY <1>3, <1>4 DEF ChargedFirst, ForCharged, ChargesOf, Charges

(* Refunds are made of calls that were charged.                               *)
LEMMA RefundsOfCharged ==
    ASSUME Typed, ChargedFirst, RefundsNext
    PROVE  ChargedFirst'
<1>0. /\ task \in [Tasks -> RefundTask \cup HookTask \cup {IdleTask}]
      /\ refunds \in [Charges -> SUBSET Sources] /\ BillingKept
      /\ \A m \in Charges : m[1] \in Consultations
  BY RefundsWrite DEF Typed, TypeOK, RefundsTypeOK, Charges
<1>1. ASSUME NEW k \in Tasks, NEW x, task' = [task EXCEPT ![k] = x], ForCharged(x, ChargedCalls),
             \A m \in Charges : refunds'[m] # {} => refunds[m] # {} \/ m[1] \in ChargedCalls
      PROVE  ChargedFirst'
  <2>1. \A j \in Tasks : task'[j] = task[j] \/ ForCharged(task'[j], ChargedCalls)
    BY <1>0, <1>1
  <2> QED
    BY <1>0, <1>1, <2>1, ChargedKept
<1>2. \A x : x.op \in {"ack", "hold", "close", "refunded", "idle"} => ForCharged(x, ChargedCalls)
  BY DEF ForCharged
<1>3. ForCharged(IdleTask, ChargedCalls)
  BY DEF ForCharged, IdleTask
<1>a. ASSUME NEW k \in Tasks, NEW c \in Consultations, refundConsultation(k, c)
      PROVE  ChargedFirst'
  <2> DEFINE of == {m \in ChargesOf(c) : txn[m] = "succeeded"}
  <2>w. PICK x : x = [op |-> "refund", c |-> c, of |-> of, todo |-> of]
    OBVIOUS
  <2>1. task' = [task EXCEPT ![k] = x] /\ UNCHANGED refunds /\ c \in ChargedCalls
    BY <1>a, <2>w DEF refundConsultation, TaskBegins, Refundable, ChargedCalls
  <2>2. ForCharged(x, ChargedCalls)
    BY <2>w, <2>1 DEF ForCharged
  <2> QED
    BY <1>1, <2>1, <2>2
<1>b. ASSUME NEW k \in Tasks, RefundsPayment(k)
      PROVE  ChargedFirst'
  <2>1. PICK o \in RefundTask : o = task[k] /\ o.op = "refund"
    BY <1>b, TaskKinds DEF RefundsPayment, Typed, TypeOK
  <2>2. o.c \in ChargedCalls /\ o.todo \subseteq ChargesOf(o.c)
    BY <2>1 DEF ChargedFirst, ForCharged
  <2>3. PICK m \in o.todo :
           \/ Refund(m) /\ TaskGoes(k, [o EXCEPT !.todo = @ \ {m},
                                              !.op = IF o.todo = {m} THEN "record" ELSE @])
           \/ TaskEnds(k) /\ (Refund(m) \/ UNCHANGED refunds)
    BY <1>b, <2>1 DEF RefundsPayment
  <2>4. m \in Charges /\ m[1] \in ChargedCalls
    BY <2>2, <2>3 DEF ChargesOf
  <2>5. \A n \in Charges : refunds'[n] # {} => refunds[n] # {} \/ n[1] \in ChargedCalls
    BY <1>0, <2>3, <2>4 DEF Refund
  <2>6. CASE TaskEnds(k)
    BY <1>1, <1>3, <2>5, <2>6 DEF TaskEnds
  <2>7. CASE TaskGoes(k, [o EXCEPT !.todo = @ \ {m}, !.op = IF o.todo = {m} THEN "record" ELSE @])
    <3>1. PICK x : x = [o EXCEPT !.todo = @ \ {m}, !.op = IF o.todo = {m} THEN "record" ELSE @]
      OBVIOUS
    <3>2. x.c = o.c /\ x.todo = o.todo \ {m}
      BY <3>1 DEF RefundTask
    <3>3. ForCharged(x, ChargedCalls)
      BY <2>2, <3>2 DEF ForCharged
    <3> QED
      BY <1>1, <2>5, <2>7, <3>1, <3>3 DEF TaskGoes
  <2> QED
    BY <2>3, <2>6, <2>7
<1>c. ASSUME NEW k \in Tasks, RefundRecords(k) \/ EventProcessed(k)
      PROVE  ChargedFirst'
  <2>1. task' = [task EXCEPT ![k] = IdleTask] /\ UNCHANGED refunds
    BY <1>c DEF RefundRecords, EventProcessed, TaskEnds
  <2> QED
    BY <1>1, <1>3, <2>1
<1>d. ASSUME NEW k \in Tasks, NEW m \in Charges, EventArrives(k, m)
      PROVE  ChargedFirst'
  <2>1. UNCHANGED refunds
    BY <1>d, Zenon DEF EventArrives, ChargeRefunded, DisputeCreated, DisputeClosed
  <2>2. ASSUME NEW op \in {"ack", "refunded", "hold", "close"}, NEW e, NEW others, NEW fresh,
               Hooked(k, op, e, others, fresh)
        PROVE  ChargedFirst'
    <3>1. PICK x : x = [op |-> op, event |-> e, paidOut |-> PaidOut(e.of[1]), others |-> others,
                        fresh |-> fresh]
      OBVIOUS
    <3>2. task' = [task EXCEPT ![k] = x] /\ x.op \in {"ack", "refunded", "hold", "close"}
      BY <2>2, <3>1 DEF Hooked, TaskBegins
    <3>3. ForCharged(x, ChargedCalls)
      BY <1>2, <3>2
    <3> QED
      BY <1>1, <2>1, <3>2, <3>3
  <2>3. ASSUME NEW full \in BOOLEAN, ChargeRefunded(k, m, full) PROVE ChargedFirst'
    <3>1. PICK op \in {"ack", "refunded", "hold", "close"} :
            Hooked(k, op, refunded(m, full), OthersRefunded(m), FreshRefunds(m))
      BY <2>3 DEF ChargeRefunded
    <3> QED
      BY <2>2, <3>1
  <2>4. CASE DisputeCreated(k, m)
    BY <2>2, <2>4, Zenon DEF DisputeCreated
  <2>5. CASE DisputeClosed(k, m)
    BY <2>2, <2>5, Zenon DEF DisputeClosed
  <2> QED
    BY <1>d, <2>3, <2>4, <2>5 DEF EventArrives
<1>e. ASSUME NEW k \in Tasks, handleChargeRefunded(k) \/ handleDisputeCreated(k) \/ handleDisputeClosed(k)
      PROVE  ChargedFirst'
  <2>1. task[k] \in HookTask
    BY <1>e, TaskKinds
       DEF handleChargeRefunded, handleDisputeCreated, handleDisputeClosed, Typed, TypeOK
  <2>2. PICK x : x = [task[k] EXCEPT !.op = "ack"]
    OBVIOUS
  <2>3. x.op = "ack"
    BY <2>1, <2>2 DEF HookTask
  <2>4. HookGoesToAck(k) /\ UNCHANGED refunds
    BY <1>e, Zenon DEF handleChargeRefunded, handleDisputeCreated, handleDisputeClosed
  <2>5. task' = [task EXCEPT ![k] = x]
    BY <2>2, <2>4 DEF HookGoesToAck, TaskGoes
  <2>6. ForCharged(x, ChargedCalls)
    BY <1>2, <2>3
  <2> QED
    BY <1>1, <2>4, <2>5, <2>6
<1>f. ASSUME NEW m \in Charges, NEW source \in {"part", "dashboard"}, DashboardRefunds(m, source)
      PROVE  ChargedFirst'
  <2>1. m[1] \in ChargedCalls /\ UNCHANGED task
    BY <1>0, <1>f DEF DashboardRefunds, ChargedCalls
  <2>2. \A n \in Charges : refunds'[n] # {} => refunds[n] # {} \/ n[1] \in ChargedCalls
    BY <1>0, <1>f, <2>1 DEF DashboardRefunds
  <2> QED
    BY <1>0, <2>1, <2>2, ChargedKept
<1>g. ASSUME NEW m \in Charges, DisputeOpens(m) \/ \E how \in {"won", "lost"} : DisputeCloses(m, how)
      PROVE  ChargedFirst'
  <2>1. UNCHANGED <<refunds, task>>
    BY <1>g DEF DisputeOpens, DisputeCloses
  <2> QED
    BY <1>0, <2>1, ChargedKept
<1> QED
  BY <1>a, <1>b, <1>c, <1>d, <1>e, <1>f, <1>g, Zenon DEF RefundsNext, TaskStep

(* A call is not recorded as refunded before it was charged.                  *)
LEMMA RefundsSettleNothing ==
    ASSUME Typed, RefundsMeant, ChargedFirst, RefundsNext
    PROVE  BillingSame
<1>0. /\ call \in [Consultations -> Call] /\ BillingKept
      /\ \A m \in Charges : m[1] \in Consultations
  BY RefundsWrite DEF Typed, TypeOK, EarningsTypeOK, Charges
<1>1. SUFFICES \A c \in Consultations : call[c].billing = "pending" => call'[c].billing = "pending"
  BY <1>0 DEF BillingSame, BillingKept
<1>2. \A m \in Full : m[1] \in ChargedCalls
  BY DEF Full, FullyRefunded, ChargedFirst
<1>a. CASE UNCHANGED call
  BY <1>a
<1>b. ASSUME NEW k \in Tasks, RefundRecords(k)
      PROVE  \A c \in Consultations : call[c].billing = "pending" => call'[c].billing = "pending"
  <2>1. task[k].c \in ChargedCalls /\ call' = [call EXCEPT ![task[k].c].billing = "refunded"]
    BY <1>b DEF RefundRecords, ChargedFirst, ForCharged
  <2> QED
    BY <1>0, <2>1 DEF ChargedCalls
<1>c. ASSUME NEW k \in Tasks, handleChargeRefunded(k)
      PROVE  \A c \in Consultations : call[c].billing = "pending" => call'[c].billing = "pending"
  <2>1. Meant(task[k], Full) /\ task[k].op = "refunded"
    BY <1>c DEF handleChargeRefunded, RefundsMeant
  <2>2. PICK m \in Charges, full \in BOOLEAN :
             task[k].event = refunded(m, full) /\ (full => m \in Full)
    BY <2>1 DEF Meant
  <2>3. task[k].event.of = m /\ task[k].event.full = full
    BY <2>2 DEF refunded
  <2>4. (full \/ txn[m] = "refunded") => m[1] \in ChargedCalls
    BY <1>2, <2>2 DEF RefundsMeant
  <2>5. PICK v, c : /\ c = m[1]
                    /\ \/ call' = [call EXCEPT ![c].billing = "refunded", ![c].review = v]
                          /\ c \in ChargedCalls
                       \/ call' = [call EXCEPT ![c].review = TRUE]
    BY <1>c, <2>3, <2>4 DEF handleChargeRefunded
  <2>6. CASE call' = [call EXCEPT ![c].review = TRUE]
    BY <1>0, <2>6 DEF Call
  <2>7. CASE call' = [call EXCEPT ![c].billing = "refunded", ![c].review = v] /\ c \in ChargedCalls
    BY <1>0, <2>7 DEF Call, ChargedCalls
  <2> QED
    BY <2>5, <2>6, <2>7
<1>d. ASSUME NEW k \in Tasks, handleDisputeCreated(k) \/ handleDisputeClosed(k)
      PROVE  \A c \in Consultations : call[c].billing = "pending" => call'[c].billing = "pending"
  <2>1. \E c, d, v : call' = [call EXCEPT ![c].dispute = d, ![c].review = v]
    BY <1>d, Zenon DEF handleDisputeCreated, handleDisputeClosed
  <2> QED
    BY <1>0, <2>1 DEF Call
<1> QED
  BY <1>a, <1>b, <1>c, <1>d
     DEF RefundsNext, TaskStep, EventArrives, RefundsPayment, EventProcessed, refundConsultation,
         ChargeRefunded, DisputeCreated, DisputeClosed, DashboardRefunds, DisputeOpens, DisputeCloses

(* Dropping and holding leave the books right.                                *)
LEMMA RefundsBooks ==
    ASSUME Typed, BooksInv, BillingSame, RefundsNext
    PROVE  BooksInv'
<1>1. CASE UNCHANGED ledger
  BY <1>1, BooksKept
<1>2. CASE \E c : DropOwed(c)
  <2>1. Dropped.status = "dropped" /\ Dropped.gross = 0
    BY DEF Dropped, NoEarning
  <2> QED
    BY <1>2, <2>1, BooksKept DEF DropOwed, Owed
<1>3. CASE \E b, H : ledger' = [r \in Rows |-> IF r \in H THEN [ledger[r] EXCEPT !.held = b]
                                                       ELSE ledger[r]]
  <2>1. PICK b, H : ledger' = [r \in Rows |-> IF r \in H THEN [ledger[r] EXCEPT !.held = b]
                                                        ELSE ledger[r]]
    BY <1>3
  <2>2. \A r \in Rows : /\ [ledger[r] EXCEPT !.held = b].status = ledger[r].status
                        /\ [ledger[r] EXCEPT !.held = b].gross = ledger[r].gross
    BY DEF Typed, TypeOK, EarningsTypeOK, Earning
  <2> QED
    BY <2>1, <2>2, BooksKept
<1> QED
  BY <1>1, <1>2, <1>3, RefundsWrite

(* Stamping rows with a payout leaves their status and gross.                 *)
LEMMA StampKeeps ==
    ASSUME NEW p, NEW T, NEW cents, NEW base \in [Rows -> Earning],
           claimRowsIntoPayout(p, T, base, cents)
    PROVE  \A r \in Rows : ledger'[r].status = base[r].status /\ ledger'[r].gross = base[r].gross
<1>1. \A r \in Rows : /\ [base[r] EXCEPT !.payout = p].status = base[r].status
                      /\ [base[r] EXCEPT !.payout = p].gross = base[r].gross
  BY DEF Earning
<1> QED
  BY <1>1 DEF claimRowsIntoPayout

(* A split moves part of a row's gross to a row that had none.                *)
LEMMA SplitBooks ==
    ASSUME Typed, BooksInv, UNCHANGED call, NEW r \in Rows, NEW s \in Rows,
           ledger[r].status = "earned", ledger[s].status = "none", s[1] = r[1],
           ledger'[r].status = "earned", ledger'[s].status = "earned",
           ledger'[r].gross \in Int, ledger'[s].gross \in Int,
           ledger'[r].gross + ledger'[s].gross = ledger[r].gross,
           \A x \in Rows \ {r, s} : ledger'[x].status = ledger[x].status
                                    /\ ledger'[x].gross = ledger[x].gross
    PROVE  BooksInv'
<1>0. /\ r # s /\ \A x \in Rows : x[1] \in Consultations /\ ledger[x].gross \in Int
      /\ ledger[s].gross = 0
  BY DEF Typed, TypeOK, EarningsTypeOK, Earning, Rows, BooksInv
<1>1. UnsettledHasNothing'
  <2>1. call[r[1]].billing # "pending"
    BY DEF BooksInv, UnsettledHasNothing
  <2> QED
    BY <2>1 DEF BooksInv, UnsettledHasNothing, Rows
<1>2. \A x \in Rows : (ledger[x].status # "earned" => ledger[x].gross = 0)'
  BY DEF BooksInv
<1>3. ASSUME NEW c \in Consultations, (call[c].billing # "pending" /\ NoneDropped(c))'
      PROVE  (EarnedOf(c) = GrossCents)'
  <2>1. PICK S : S = RowsOf(c) /\ IsFiniteSet(S) /\ S \subseteq Rows
    BY RowsAreFinite
  <2>2. PICK f : f = [x \in S |-> ledger[x].gross]
    OBVIOUS
  <2>3. PICK g : g = [x \in S |-> ledger'[x].gross]
    OBVIOUS
  <2>4. EarnedOf(c) = SumFunctionOnSet(f, S) /\ EarnedOf(c)' = SumFunctionOnSet(g, S)
    BY <2>1, <2>2, <2>3, Zenon DEF EarnedOf
  <2>5. NoneDropped(c)
    BY <1>3, <2>1 DEF NoneDropped
  <2>6. EarnedOf(c) = GrossCents
    BY <1>3, <2>5 DEF BooksInv
  <2>7. r \in S <=> s \in S
    BY <2>1 DEF RowsOf
  <2>8. CASE r \notin S
    <3>1. \A x \in S : f[x] = g[x]
      BY <2>1, <2>2, <2>3, <2>7, <2>8
    <3>2. SumFunctionOnSet(f, S) = SumFunctionOnSet(g, S)
      BY <2>1, <3>1, SumSame
    <3> QED
      BY <2>4, <2>6, <3>2
  <2>9. CASE r \in S
    <3>1. \A x \in S : x = r \/ x = s \/ g[x] = f[x]
      BY <2>1, <2>2, <2>3
    <3>2. /\ f[s] = 0 /\ f[r] = ledger[r].gross
          /\ g[r] = ledger'[r].gross /\ g[s] = ledger'[s].gross
      BY <1>0, <2>2, <2>3, <2>7, <2>9
    <3>3. \A x \in S : f[x] \in Int /\ g[x] \in Int
      BY <1>0, <2>1, <2>2, <3>1, <3>2
    <3>4. SumFunctionOnSet(g, S) = SumFunctionOnSet(f, S) - f[r] - f[s] + g[r] + g[s]
      BY <1>0, <2>1, <2>7, <2>9, <3>1, <3>3, SumTwoChanged
    <3>5. SumFunctionOnSet(f, S) \in Int
      BY <2>1, <3>3, SumType
    <3>6. SumFunctionOnSet(g, S) = SumFunctionOnSet(f, S)
      BY <1>0, <3>2, <3>4, <3>5
    <3> QED
      BY <2>4, <2>6, <3>6
  <2> QED
    BY <2>8, <2>9
<1> QED
  BY <1>1, <1>2, <1>3 DEF BooksInv

(* A claim keeps the books, with or without a split.                          *)
LEMMA ClaimBooks ==
    ASSUME Typed, BooksInv, NEW w \in Runs, createPayoutForLedgerRows(w)
    PROVE  BooksInv'
<1> DEFINE nets == run[w].nets
           Total(T) == SumFunctionOnSet(nets, T)
           target == run[w].target
<1>0. /\ ledger \in [Rows -> Earning] /\ run[w] \in Run /\ RowsBalance /\ UNCHANGED call
  BY DEF Typed, TypeOK, EarningsTypeOK, PayoutsTypeOK, createPayoutForLedgerRows
<1>1. PICK p \in Payouts, T \in SUBSET run[w].rows :
           \/ claimRowsIntoPayout(p, T, ledger, target)
           \/ \E r \in run[w].rows \ T, s \in Rows :
                 /\ Payable(r)
                 /\ (target - Total(T)) \in 1..(nets[r] - 1) /\ ledger[r].net = nets[r]
                 /\ FreshPart(r[1], s)
                 /\ claimRowsIntoPayout(p, T \cup {s},
                        [ledger EXCEPT ![r] = Shrunk(r, target - Total(T)),
                                       ![s] = Part(r, target - Total(T))], target)
  BY Zenon DEF createPayoutForLedgerRows, Claims
<1>2. CASE claimRowsIntoPayout(p, T, ledger, target)
  BY <1>0, <1>2, StampKeeps, BooksKept DEF BillingSame
<1>3. CASE ~claimRowsIntoPayout(p, T, ledger, target)
  <2>1. PICK r \in run[w].rows \ T, s \in Rows :
             /\ Payable(r)
             /\ (target - Total(T)) \in 1..(nets[r] - 1) /\ ledger[r].net = nets[r]
             /\ FreshPart(r[1], s)
             /\ claimRowsIntoPayout(p, T \cup {s},
                    [ledger EXCEPT ![r] = Shrunk(r, target - Total(T)),
                                   ![s] = Part(r, target - Total(T))], target)
    BY <1>1, <1>3, Zenon
  <2> DEFINE cents == target - Total(T)
             base == [ledger EXCEPT ![r] = Shrunk(r, cents), ![s] = Part(r, cents)]
  <2>2. r \in Rows /\ ledger[r] \in Earning /\ cents \in 1..(ledger[r].net - 1)
        /\ ledger[r].gross = ledger[r].commission + ledger[r].net
    BY <1>0, <2>1 DEF RowsBalance, Run
  <2>3. ledger[r].status = "earned" /\ ledger[s].status = "none" /\ s[1] = r[1]
    BY <2>1 DEF Payable, Owed, FreshPart, RowsOf
  <2>4. claimRowsIntoPayout(p, T \cup {s}, base, target)
    BY <2>1
  <2> HIDE DEF cents
  <2>5. PICK part \in Earning, rest \in Earning :
           /\ part = Part(r, cents) /\ rest = Shrunk(r, cents)
           /\ part.gross + rest.gross = ledger[r].gross
           /\ part.status = "earned" /\ rest.status = "earned"
    BY <2>2, <2>3, SplitBalances
  <2>6. base = [ledger EXCEPT ![r] = rest, ![s] = part]
    BY <2>5
  <2> HIDE DEF base
  <2>7. /\ base \in [Rows -> Earning] /\ base[r] = rest /\ base[s] = part
        /\ \A x \in Rows \ {r, s} : base[x] = ledger[x]
    BY <1>0, <2>2, <2>3, <2>6
  <2>8. \A x \in Rows : ledger'[x].status = base[x].status /\ ledger'[x].gross = base[x].gross
    BY <2>4, <2>7, StampKeeps
  <2>9. part.gross \in Int /\ rest.gross \in Int
    BY DEF Earning
  <2>10. /\ ledger'[r].status = "earned" /\ ledger'[s].status = "earned"
         /\ ledger'[r].gross \in Int /\ ledger'[s].gross \in Int
         /\ ledger'[r].gross + ledger'[s].gross = ledger[r].gross
    BY <2>2, <2>5, <2>7, <2>8, <2>9
  <2>11. \A x \in Rows \ {r, s} : ledger'[x].status = ledger[x].status
                                  /\ ledger'[x].gross = ledger[x].gross
    BY <2>7, <2>8
  <2> QED
    BY <1>0, <2>2, <2>3, <2>10, <2>11, SplitBooks
<1> QED
  BY <1>2, <1>3

(* Settlement writes the whole of what was paid to the first row.             *)
LEMMA SettlementBooks ==
    ASSUME Typed, BooksInv, NEW c \in Consultations, SettleRecords(c)
    PROVE  BooksInv'
<1> DEFINE commission == computeConsultationCommissionCents(GrossCents, CommissionPercent)
<1>1. PICK x : x = [NoEarning EXCEPT !.status = "earned", !.gross = GrossCents,
                        !.commission = commission, !.net = GrossCents - commission]
  OBVIOUS
<1>2. PICK o \in Rows : o = <<c, 0>>
  <2>1. 0 \in 0..MaxParts
    BY PartsAssumption
  <2> QED
    BY <2>1 DEF Rows
<1>3. ledger' = [ledger EXCEPT ![o] = x] /\ call[c].billing = "pending"
      /\ call' = [call EXCEPT ![c].billing = "charged"]
  BY <1>1, <1>2 DEF SettleRecords
<1> HIDE DEF commission
<1>4. x.status = "earned" /\ x.gross = GrossCents
  BY <1>1 DEF NoEarning
<1>5. /\ ledger \in [Rows -> Earning] /\ call \in [Consultations -> Call]
      /\ GrossCents \in Nat
  BY GrossAssumption DEF Typed, TypeOK, EarningsTypeOK
<1>6. /\ \A r \in Rows : ledger'[r] = IF r = o THEN x ELSE ledger[r]
      /\ \A d \in Consultations : d # c => call'[d] = call[d]
      /\ call'[c].billing = "charged"
  BY <1>3, <1>5 DEF Call
<1>7. UnsettledHasNothing'
  BY <1>2, <1>6 DEF BooksInv, UnsettledHasNothing, Rows
<1>8. \A r \in Rows : (ledger[r].status # "earned" => ledger[r].gross = 0)'
  BY <1>4, <1>6 DEF BooksInv
<1>9. ASSUME NEW d \in Consultations, (call[d].billing # "pending" /\ NoneDropped(d))'
      PROVE  (EarnedOf(d) = GrossCents)'
  <2>1. PICK S : S = RowsOf(d) /\ IsFiniteSet(S) /\ S \subseteq Rows
    BY RowsAreFinite
  <2>2. PICK f : f = [r \in S |-> ledger[r].gross]
    OBVIOUS
  <2>3. PICK g : g = [r \in S |-> ledger'[r].gross]
    OBVIOUS
  <2>4. EarnedOf(d) = SumFunctionOnSet(f, S) /\ EarnedOf(d)' = SumFunctionOnSet(g, S)
    BY <2>1, <2>2, <2>3, Zenon DEF EarnedOf
  <2>5. CASE d # c
    <3>1. o \notin S
      BY <1>2, <2>1, <2>5 DEF RowsOf
    <3>2. \A r \in S : ledger'[r] = ledger[r]
      BY <1>6, <2>1, <3>1
    <3>3. NoneDropped(d) /\ call[d].billing # "pending"
      BY <1>6, <1>9, <2>1, <2>5, <3>2 DEF NoneDropped
    <3>4. SumFunctionOnSet(f, S) = SumFunctionOnSet(g, S)
      BY <2>1, <2>2, <2>3, <3>2, SumSame
    <3> QED
      BY <2>4, <3>3, <3>4 DEF BooksInv
  <2>6. CASE d = c
    <3>1. o \in S
      BY <1>2, <2>1, <2>6 DEF RowsOf
    <3>2. \A r \in S : ledger[r].gross = 0
      <4>1. \A r \in S : call[r[1]].billing = "pending"
        BY <1>3, <2>1, <2>6 DEF RowsOf
      <4> QED
        BY <2>1, <4>1 DEF BooksInv, UnsettledHasNothing
    <3>3. \A r \in S : f[r] = 0
      BY <2>2, <3>2
    <3>4. g[o] = GrossCents /\ \A r \in S : r = o \/ g[r] = f[r]
      BY <1>2, <1>4, <1>6, <2>1, <2>2, <2>3, <3>1
    <3>5. \A r \in S : f[r] \in Int /\ g[r] \in Int
      BY <1>5, <3>3, <3>4
    <3>6. SumFunctionOnSet(f, S) = 0
      BY <2>1, <3>3, SumType
    <3>7. SumFunctionOnSet(g, S) = SumFunctionOnSet(f, S) - f[o] + g[o]
      BY <2>1, <3>1, <3>4, <3>5, SumOneChanged
    <3> QED
      BY <1>5, <2>4, <3>1, <3>3, <3>4, <3>6, <3>7
  <2> QED
    BY <2>5, <2>6
<1> QED
  BY <1>7, <1>8, <1>9 DEF BooksInv

(* No payout keeps other books.                                               *)
LEMMA PayoutsBooks ==
    ASSUME Typed, BooksInv, PayoutsNext
    PROVE  BooksInv'
<1>1. CASE Quiet
  BY <1>1, BooksKept DEF Quiet, BillingSame
<1>2. ASSUME NEW w \in Runs, createPayoutForLedgerRows(w) PROVE BooksInv'
  BY <1>2, ClaimBooks
<1>3. ASSUME NEW w \in Runs, ReturnsEarnings(w) PROVE BooksInv'
  <2>1. \A r \in Rows : /\ [ledger[r] EXCEPT !.payout = NoPayout].status = ledger[r].status
                        /\ [ledger[r] EXCEPT !.payout = NoPayout].gross = ledger[r].gross
    BY DEF Typed, TypeOK, EarningsTypeOK, Earning
  <2>2. \A r \in Rows : ledger'[r].status = ledger[r].status /\ ledger'[r].gross = ledger[r].gross
    BY <1>3, <2>1 DEF ReturnsEarnings
  <2>3. UNCHANGED call
    BY <1>3 DEF ReturnsEarnings
  <2> QED
    BY <2>2, <2>3, BooksKept DEF BillingSame
<1> QED
  BY <1>1, <1>2, <1>3, PayoutsSteps

(* Splitting an earning for an exact amount, claiming, returning, holding and *)
(* releasing lose and create nothing: the rows of a settled call of which     *)
(* none was dropped add up to what the customer paid.                         *)
THEOREM BooksAlwaysBalance == Spec => []BooksBalance
<1>1. Init => BooksInv /\ ChargedFirst
  <2> SUFFICES ASSUME Init PROVE BooksInv /\ ChargedFirst
    OBVIOUS
  <2>1. BooksInv
    BY DEF Init, EarningsInit, BooksInv, UnsettledHasNothing, NoEarning, Rows
  <2>2. ChargedFirst
    BY DEF Init, EarningsInit, RefundsInit, ChargedFirst, ForCharged, IdleTask
  <2> QED
    BY <2>1, <2>2
<1>2. Typed /\ RefundsMeant /\ BooksInv /\ ChargedFirst /\ [Next]_vars => BooksInv' /\ ChargedFirst'
  <2> SUFFICES ASSUME Typed, RefundsMeant, BooksInv, ChargedFirst, [Next]_vars
               PROVE  BooksInv' /\ ChargedFirst'
    OBVIOUS
  <2>1. CASE RefundSide
    <3>1. RefundsNext /\ BillingSame
      BY <2>1, RefundsSettleNothing DEF RefundSide
    <3> QED
      BY <3>1, RefundsBooks, RefundsOfCharged
  <2>2. CASE PayoutSide
    <3>1. PayoutsNext /\ UNCHANGED <<task, refunds, call>>
      BY <2>2, PayoutsTell DEF PayoutSide, refundsOnly
    <3> QED
      BY <3>1, PayoutsBooks, ChargedKept DEF BillingKept
  <2>3. CASE Settlement
    <3>1. PICK c \in Consultations : SettleRecords(c)
      BY <2>3 DEF Settlement
    <3>2. UNCHANGED <<task, refunds>>
      BY <2>3 DEF Settlement, refundsOnly
    <3>3. BillingKept
      BY <3>1 DEF SettleRecords, BillingKept, Typed, TypeOK, EarningsTypeOK, Call
    <3> QED
      BY <3>1, <3>2, <3>3, SettlementBooks, ChargedKept
  <2>4. CASE BillingRestarts \/ UNCHANGED vars
    <3>1. /\ UNCHANGED <<call, ledger, refunds>>
          /\ \A k \in Tasks : task'[k] = task[k] \/ task'[k] = IdleTask
      BY <2>4 DEF BillingRestarts, vars, refundsOnly
    <3>2. \A k \in Tasks : task'[k] = task[k] \/ ForCharged(task'[k], ChargedCalls)
      BY <3>1 DEF ForCharged, IdleTask
    <3>3. BillingSame /\ BillingKept
      BY <3>1 DEF BillingSame, BillingKept
    <3> QED
      BY <3>1, <3>2, <3>3, BooksKept, ChargedKept
  <2> QED
    BY <2>1, <2>2, <2>3, <2>4 DEF Next
<1>3. Init => RefundsMeant
  BY DEF Init, EarningsInit, RefundsInit, RefundsMeant, Meant, IdleTask
<1>4. Typed /\ RefundsMeant /\ [Next]_vars => RefundsMeant'
  BY RefundsKeepMeaning, OthersKeepMeaning DEF Next, RefundSide
<1>5. Typed /\ BooksInv => BooksBalance
  BY DEF Typed, BooksInv, BooksBalance, NoneDropped, EarnedOf
<1> QED
  BY <1>1, <1>2, <1>3, <1>4, <1>5, InitTyped, NextTyped, PTL DEF Spec

-----------------------------------------------------------------------------
(* The earnings implement IdealEarnings.                                      *)

\* Money for the row is with the expert, by a first transfer
Out(r) == \E p \in Payouts : r \in payout[p].rows /\ FirstStands(p)

SentMatchesOut == \A r \in Rows : Cardinality(StandingFor(r)) = IF Out(r) THEN 1 ELSE 0

(* The rows of a payout whose first transfer stands are its own.              *)
LEMMA OutIsOwned ==
    ASSUME Owners, NEW p \in Payouts, FirstStands(p), NEW r \in payout[p].rows
    PROVE  ledger[r].payout = p
BY DEF Owners, OwnsItsRows, FirstStands, Reversed

(* With at most one first transfer standing for a row there is one or none.   *)
LEMMA SentIsOut == IInv => SentMatchesOut
<1> SUFFICES ASSUME IInv, NEW r \in Rows
             PROVE  Cardinality(StandingFor(r)) = IF Out(r) THEN 1 ELSE 0
  BY DEF SentMatchesOut
<1>1. CASE Out(r)
  <2>1. PICK p \in Payouts : r \in payout[p].rows /\ FirstStands(p)
    BY <1>1 DEF Out
  <2>2. \A q \in Payouts : r \in payout[q].rows /\ FirstStands(q) => ledger[r].payout = q
    BY OutIsOwned DEF IInv
  <2>3. StandingFor(r) = {p}
    BY <2>1, <2>2 DEF StandingFor
  <2> QED
    BY <1>1, <2>3, FS_Singleton
<1>2. CASE ~Out(r)
  <2>1. StandingFor(r) = {}
    BY <1>2 DEF Out, StandingFor
  <2> QED
    BY <1>2, <2>1, FS_EmptySet
<1> QED
  BY <1>1, <1>2

(* The same in the next state.                                                *)
LEMMA SentIsOutNext == IInv' => SentMatchesOut'
BY SentIsOut, PTL

\* Nothing that the ledger promises about changes, but for the rows named
Same(R) ==
    /\ \A r \in Rows \ R : ledger'[r].status = ledger[r].status
    /\ \A r \in Rows \ R : Out(r)' <=> Out(r)

(* The steps of IdealEarnings, by what happens to rows and money.             *)
LEMMA IdealSteps ==
    ASSUME SentMatchesOut, SentMatchesOut'
    PROVE  /\ Same({}) => UNCHANGED Ideal!vars
           /\ \A x \in Rows :
                 /\ Same({x}) /\ ledger[x].status = "none" /\ ledger'[x].status = "earned"
                 /\ Out(x)' <=> Out(x)
                 => Ideal!Earned(x)
           /\ \A R \in SUBSET Rows :
                 /\ /\ Same(R) /\ \A r \in R : ledger[r].status = "earned" /\ ~Out(r)
                    /\ \A r \in R : ledger'[r].status = ledger[r].status /\ Out(r)'
                    => Ideal!Paid(R)
                 /\ /\ Same(R) /\ \A r \in R : Out(r) /\ ~Out(r)'
                    /\ \A r \in R : ledger'[r].status = ledger[r].status
                    => Ideal!Reversed(R)
                 /\ /\ Same(R) /\ \A r \in R : ledger[r].status = "earned" /\ ~Out(r)
                    /\ \A r \in R : ledger'[r].status = "dropped" /\ ~Out(r)'
                    => Ideal!Dropped(R)
<1> DEFINE status == [r \in Rows |-> ledger[r].status]
           sent == [r \in Rows |-> Cardinality(StandingFor(r))]
<1>1. sent = [r \in Rows |-> IF Out(r) THEN 1 ELSE 0]
  BY DEF SentMatchesOut
<1>2. sent' = [r \in Rows |-> IF Out(r)' THEN 1 ELSE 0]
  BY DEF SentMatchesOut
<1>3. ASSUME Same({}) PROVE UNCHANGED Ideal!vars
  <2>1. status' = status
    BY <1>3 DEF Same
  <2>2. sent' = sent
    BY <1>1, <1>2, <1>3 DEF Same
  <2> QED
    BY <2>1, <2>2 DEF Ideal!vars
<1>4. ASSUME NEW x \in Rows, Same({x}), ledger[x].status = "none", ledger'[x].status = "earned",
             Out(x)' <=> Out(x)
      PROVE  Ideal!Earned(x)
  <2>1. status' = [r \in Rows |-> IF r \in {x} THEN "earned" ELSE status[r]]
    BY <1>4 DEF Same
  <2>2. sent' = sent
    BY <1>1, <1>2, <1>4 DEF Same
  <2> QED
    BY <1>4, <2>1, <2>2 DEF Ideal!Earned, Ideal!Becomes
<1>5. ASSUME NEW R \in SUBSET Rows, Same(R), \A r \in R : ledger[r].status = "earned" /\ ~Out(r),
             \A r \in R : ledger'[r].status = ledger[r].status /\ Out(r)'
      PROVE  Ideal!Paid(R)
  <2>1. status' = status
    BY <1>5 DEF Same
  <2>2. sent' = [r \in Rows |-> IF r \in R THEN 1 ELSE sent[r]]
    BY <1>1, <1>2, <1>5 DEF Same
  <2>3. \A r \in R : status[r] = "earned" /\ sent[r] = 0
    BY <1>1, <1>5
  <2> QED
    BY <2>1, <2>2, <2>3 DEF Ideal!Paid, Ideal!Due, Ideal!Becomes
<1>6. ASSUME NEW R \in SUBSET Rows, Same(R), \A r \in R : Out(r) /\ ~Out(r)',
             \A r \in R : ledger'[r].status = ledger[r].status
      PROVE  Ideal!Reversed(R)
  <2>1. status' = status
    BY <1>6 DEF Same
  <2>2. sent' = [r \in Rows |-> IF r \in R THEN 0 ELSE sent[r]]
    BY <1>1, <1>2, <1>6 DEF Same
  <2>3. \A r \in R : sent[r] = 1
    BY <1>1, <1>6
  <2> QED
    BY <2>1, <2>2, <2>3 DEF Ideal!Reversed, Ideal!Becomes
<1>7. ASSUME NEW R \in SUBSET Rows, Same(R), \A r \in R : ledger[r].status = "earned" /\ ~Out(r),
             \A r \in R : ledger'[r].status = "dropped" /\ ~Out(r)'
      PROVE  Ideal!Dropped(R)
  <2>1. status' = [r \in Rows |-> IF r \in R THEN "dropped" ELSE status[r]]
    BY <1>7 DEF Same
  <2>2. sent' = sent
    BY <1>1, <1>2, <1>7 DEF Same
  <2>3. \A r \in R : status[r] = "earned" /\ sent[r] = 0
    BY <1>1, <1>7
  <2> QED
    BY <2>1, <2>2, <2>3 DEF Ideal!Dropped, Ideal!Due, Ideal!Becomes
<1> QED
  BY <1>3, <1>4, <1>5, <1>6, <1>7

(* Where payouts keep their rows and Stripe its transfers, money stays out.   *)
LEMMA OutKept ==
    ASSUME UNCHANGED transfers, \A p \in Payouts : payout'[p].rows = payout[p].rows
    PROVE  \A r : Out(r)' <=> Out(r)
BY DEF Out, FirstStands

(* The same where the first transfers stand as before.                        *)
LEMMA OutKeptByFirsts ==
    ASSUME \A p \in Payouts : FirstStands(p)' <=> FirstStands(p),
           \A p \in Payouts : payout'[p].rows = payout[p].rows
    PROVE  \A r : Out(r)' <=> Out(r)
BY DEF Out

(* The money of a row that no payout owns is not out.                         *)
LEMMA UnownedIsNotOut ==
    ASSUME Owners PROVE \A r \in Rows : ledger[r].payout = NoPayout => ~Out(r)
BY DEF Owners, OwnsItsRows, Out, FirstStands, Reversed, Payouts, NoPayout

(* A claim changes nothing that IdealEarnings can see.                        *)
LEMMA ClaimIsIdeal ==
    ASSUME IInv, SentMatchesOut, SentMatchesOut', NEW w \in Runs, createPayoutForLedgerRows(w)
    PROVE  [Ideal!Next]_(Ideal!vars)
<1>0. payout \in [Payouts -> Payout]
  BY DEF IInv, Typed, TypeOK, EarningsTypeOK
<1>1. PICK p \in Payouts, R \in SUBSET Rows, base \in [Rows -> Earning], cents \in Nat :
           Fresh(p) /\ claimRowsIntoPayout(p, R, base, cents) /\ SplitFrom(base)
  BY ClaimShape DEF IInv
<1>2. UNCHANGED transfers
  BY DEF createPayoutForLedgerRows
<1>3. transfers[p] = <<>> /\ \A q \in Payouts \ {p} : payout'[q] = payout[q]
  BY <1>0, <1>1 DEF Fresh, IInv, Money, UnmadeIsUntouched, claimRowsIntoPayout
<1>4. \A r : Out(r)' <=> Out(r)
  BY <1>2, <1>3 DEF Out, FirstStands
<1>5. \A r \in Rows : ledger'[r].status = base[r].status
  <2>1. \A r \in Rows : [base[r] EXCEPT !.payout = p].status = base[r].status
    BY DEF Earning
  <2> QED
    BY <1>1, <2>1 DEF claimRowsIntoPayout
<1>6. CASE \A x \in Rows : base[x].status = ledger[x].status
  BY <1>4, <1>5, <1>6, IdealSteps DEF Same
<1>7. CASE \E s \in Rows : /\ ledger[s].status = "none" /\ base[s].status = "earned"
                           /\ \A x \in Rows \ {s} : base[x].status = ledger[x].status
  <2>1. PICK s \in Rows : /\ ledger[s].status = "none" /\ base[s].status = "earned"
                          /\ \A x \in Rows \ {s} : base[x].status = ledger[x].status
    BY <1>7
  <2>2. Ideal!Earned(s)
    BY <1>4, <1>5, <2>1, IdealSteps DEF Same
  <2> QED
    BY <2>2 DEF Ideal!Next
<1> QED
  BY <1>1, <1>6, <1>7 DEF SplitFrom

(* A first transfer sends the rows of a payout; a later one is not seen.      *)
LEMMA SendIsIdeal ==
    ASSUME IInv, SentMatchesOut, SentMatchesOut', Quiet, NEW w \in Runs, sendPayoutTransfer(w)
    PROVE  [Ideal!Next]_(Ideal!vars)
<1>p. PICK p \in Payouts : p = run[w].payout
  BY DEF IInv, Typed, RunHasPayout, sendPayoutTransfer
<1> DEFINE R == payout[p].rows
           s == transfers[p]
           t == Append(s, "live")
<1>0. /\ transfers \in [Payouts -> Seq({"live", "reversed"})]
      /\ R \in SUBSET Rows /\ s \in Seq({"live", "reversed"})
  BY DEF IInv, Typed, TypeOK, EarningsTypeOK, PayoutsTypeOK, Payout
<1>1. CASE UNCHANGED transfers
  BY <1>1, OutKept, IdealSteps DEF Quiet, Same
<1>2. CASE transfers' # transfers
  <2>1. NothingStands(p) /\ transfers' = [transfers EXCEPT ![p] = t]
    <3>1. Transfer(p) /\ key[p] = 0
      BY <1>p, <1>2 DEF sendPayoutTransfer, Transfer
    <3>2. NothingStands(p)
      BY <1>p, <3>1 DEF sendPayoutTransfer, IInv, Money, SendsOnce
    <3> QED
      BY <3>1, <3>2 DEF Transfer
  <2>2. transfers'[p] = t /\ \A q \in Payouts \ {p} : transfers'[q] = transfers[q]
    BY <1>0, <2>1
  <2>3. ~FirstStands(p)
    BY <1>0, <2>1 DEF FirstStands, NothingStands
  <2>4. CASE s # <<>>
    <3>1. s[1] = "reversed" /\ t # <<>> /\ t[1] = s[1]
      BY <1>0, <2>1, <2>4 DEF NothingStands
    <3>2. ~FirstStands(p)'
      BY <2>2, <3>1 DEF FirstStands
    <3>3. \A q \in Payouts : FirstStands(q)' <=> FirstStands(q)
      BY <2>2, <2>3, <3>2 DEF FirstStands
    <3>4. \A r : Out(r)' <=> Out(r)
      BY <3>3, OutKeptByFirsts DEF Quiet
    <3> QED
      BY <3>4, IdealSteps DEF Quiet, Same
  <2>5. CASE s = <<>>
    <3>1. FirstStands(p)'
      <4>1. t # <<>> /\ t[1] = "live"
        BY <2>5
      <4> QED
        BY <2>2, <4>1 DEF FirstStands
    <3>2. \A q \in Payouts \ {p} : FirstStands(q)' <=> FirstStands(q)
      BY <2>2 DEF FirstStands
    <3>3. \A r \in R : ledger[r].payout = p
      BY <1>0, <2>5 DEF IInv, Owners, OwnsItsRows, Reversed
    <3>4. \A r \in R : ledger[r].status = "earned"
      BY <1>0, <3>3 DEF IInv, Owners, OnlyEarnedIsPaid, Payouts, NoPayout
    <3>5. \A r \in R : ~Out(r)
      <4> SUFFICES ASSUME NEW r \in R, NEW q \in Payouts, r \in payout[q].rows, FirstStands(q)
                   PROVE  FALSE
        BY DEF Out
      <4>1. ledger[r].payout = q
        BY OutIsOwned DEF IInv
      <4> QED
        BY <2>3, <3>3, <4>1
    <3>6. \A r \in R : Out(r)'
      BY <1>0, <3>1 DEF Out, Quiet
    <3>7. \A r \in Rows \ R : Out(r)' <=> Out(r)
      BY <1>0, <3>2 DEF Out, Quiet
    <3> HIDE DEF R
    <3>8. Ideal!Paid(R)
      BY <1>0, <3>4, <3>5, <3>6, <3>7, IdealSteps DEF Same, Quiet
    <3> QED
      BY <1>0, <3>8 DEF Ideal!Next
  <2> QED
    BY <2>4, <2>5
<1> QED
  BY <1>1, <1>2

(* A first transfer reversed at Stripe brings the rows of a payout back.      *)
LEMMA ReversalIsIdeal ==
    ASSUME IInv, SentMatchesOut, SentMatchesOut', Quiet,
           NEW p \in Payouts, NEW n \in DOMAIN transfers[p], TransferReverses(p, n)
    PROVE  [Ideal!Next]_(Ideal!vars)
<1> DEFINE R == payout[p].rows
           s == transfers[p]
           t == [s EXCEPT ![n] = "reversed"]
<1>0. /\ transfers \in [Payouts -> Seq({"live", "reversed"})] /\ R \in SUBSET Rows
      /\ s \in Seq({"live", "reversed"}) /\ s[n] = "live"
  BY DEF IInv, Typed, TypeOK, EarningsTypeOK, PayoutsTypeOK, Payout, TransferReverses
<1>1. transfers'[p] = t /\ \A q \in Payouts \ {p} : transfers'[q] = transfers[q]
  <2>1. transfers' = [transfers EXCEPT ![p] = t]
    BY DEF TransferReverses
  <2> QED
    BY <1>0, <2>1
<1>2. \A q \in Payouts \ {p} : FirstStands(q)' <=> FirstStands(q)
  BY <1>1 DEF FirstStands
<1>3. ~FirstStands(p)'
  <2>1. n = Len(s)
    BY <1>0 DEF IInv, Money, OneTransfer
  <2>2. 1 \in DOMAIN s /\ t[1] = "reversed"
    <3>1. 1 \in DOMAIN s
      BY <1>0, <2>1
    <3>2. CASE n = 1
      BY <3>1, <3>2
    <3>3. CASE n # 1
      BY <2>1, <3>1, <3>3 DEF IInv, Money, OneTransfer
    <3> QED
      BY <3>1, <3>2, <3>3
  <2> QED
    BY <1>1, <2>2 DEF FirstStands
<1>4. CASE ~FirstStands(p)
  <2>1. \A q \in Payouts : FirstStands(q)' <=> FirstStands(q)
    BY <1>2, <1>3, <1>4
  <2>2. \A r : Out(r)' <=> Out(r)
    BY <2>1, OutKeptByFirsts DEF Quiet
  <2> QED
    BY <2>2, IdealSteps DEF Quiet, Same
<1>5. CASE FirstStands(p)
  <2>1. \A r \in R : Out(r)
    BY <1>5 DEF Out
  <2>2. \A r \in R : ~Out(r)'
    <3> SUFFICES ASSUME NEW r \in R, NEW q \in Payouts, r \in payout[q].rows, FirstStands(q)'
                 PROVE  FALSE
      BY DEF Out, Quiet
    <3>1. q # p /\ FirstStands(q)
      BY <1>2, <1>3
    <3>2. ledger[r].payout = q /\ ledger[r].payout = p
      BY <1>5, <3>1, OutIsOwned DEF IInv
    <3> QED
      BY <3>1, <3>2
  <2>3. \A r \in Rows \ R : Out(r)' <=> Out(r)
    BY <1>0, <1>2 DEF Out, Quiet
  <2> HIDE DEF R
  <2>4. Ideal!Reversed(R)
    BY <1>0, <2>1, <2>2, <2>3, IdealSteps DEF Same, Quiet
  <2> QED
    BY <1>0, <2>4 DEF Ideal!Next
<1> QED
  BY <1>4, <1>5

(* Taking rows off a reversed payout changes nothing IdealEarnings can see. *)
LEMMA ReturnIsIdeal ==
    ASSUME IInv, SentMatchesOut, SentMatchesOut', NEW w \in Runs, ReturnsEarnings(w)
    PROVE  [Ideal!Next]_(Ideal!vars)
<1>0. ledger \in [Rows -> Earning] /\ payout \in [Payouts -> Payout] /\ run[w].payout \in Payouts
  BY DEF IInv, Typed, TypeOK, EarningsTypeOK, RunHasPayout, ReturnsEarnings
<1>1. \A r \in Rows : [ledger[r] EXCEPT !.payout = NoPayout].status = ledger[r].status
  BY <1>0 DEF Earning
<1>2. \A r \in Rows : ledger'[r].status = ledger[r].status
  BY <1>1 DEF ReturnsEarnings
<1>3. \A p \in Payouts : payout'[p].rows = payout[p].rows
  BY <1>0 DEF ReturnsEarnings, Payout
<1>4. \A r : Out(r)' <=> Out(r)
  BY <1>3, OutKept DEF ReturnsEarnings
<1> QED
  BY <1>2, <1>4, IdealSteps DEF Same

(* Dropping what is owed, and no more.                                        *)
LEMMA DropIsIdeal ==
    ASSUME IInv, SentMatchesOut, SentMatchesOut', UNCHANGED <<transfers, payout>>, NEW c, DropOwed(c)
    PROVE  [Ideal!Next]_(Ideal!vars)
<1>0. PICK R \in SUBSET Rows : R = {r \in Rows : r[1] = c /\ Owed(r)}
  OBVIOUS
<1>1. \A r : Out(r)' <=> Out(r)
  BY OutKept
<1>2. \A r \in R : ledger[r].status = "earned" /\ ~Out(r)
  BY <1>0, UnownedIsNotOut DEF Owed, IInv
<1>3. Dropped.status = "dropped"
  BY DEF Dropped, NoEarning
<1>4. /\ \A r \in R : ledger'[r].status = "dropped"
      /\ \A r \in Rows \ R : ledger'[r].status = ledger[r].status
  BY <1>0, <1>3 DEF DropOwed
<1>5. Ideal!Dropped(R)
  BY <1>1, <1>2, <1>4, IdealSteps DEF Same
<1> QED
  BY <1>5 DEF Ideal!Next

(* Nor does holding earnings or letting them go. *)
LEMMA HoldIsIdeal ==
    ASSUME IInv, SentMatchesOut, SentMatchesOut', UNCHANGED <<transfers, payout>>, NEW b, NEW H,
           ledger' = [r \in Rows |-> IF r \in H THEN [ledger[r] EXCEPT !.held = b] ELSE ledger[r]]
    PROVE  [Ideal!Next]_(Ideal!vars)
<1>1. \A r \in Rows : [ledger[r] EXCEPT !.held = b].status = ledger[r].status
  BY DEF IInv, Typed, TypeOK, EarningsTypeOK, Earning
<1>2. \A r : Out(r)' <=> Out(r)
  BY OutKept
<1> QED
  BY <1>1, <1>2, IdealSteps DEF Same

(* Refunds and disputes implement IdealEarnings: a drop, or a stutter. *)
LEMMA RefundsAreIdeal ==
    ASSUME IInv, SentMatchesOut, SentMatchesOut', RefundsNext, UNCHANGED payoutsOnly
    PROVE  [Ideal!Next]_(Ideal!vars)
<1>1. UNCHANGED transfers
  BY DEF payoutsOnly
<1>a. ASSUME UNCHANGED <<ledger, payout>>
      PROVE  [Ideal!Next]_(Ideal!vars)
  BY <1>1, <1>a, OutKept, IdealSteps DEF Same
<1>b. ASSUME NEW k \in Tasks, RefundRecords(k)
      PROVE  [Ideal!Next]_(Ideal!vars)
  BY <1>1, <1>b, DropIsIdeal DEF RefundRecords
<1>c. ASSUME NEW k \in Tasks, handleChargeRefunded(k)
      PROVE  [Ideal!Next]_(Ideal!vars)
  <2>1. UNCHANGED payout /\ (DropOwed(task[k].event.of[1]) \/ ledger' = ledger)
    BY <1>c DEF handleChargeRefunded
  <2> QED
    BY <1>1, <1>a, <2>1, DropIsIdeal
<1>d. ASSUME NEW k \in Tasks, handleDisputeCreated(k)
      PROVE  [Ideal!Next]_(Ideal!vars)
  <2> DEFINE H == {r \in Rows : r[1] = task[k].event.of[1] /\ Owed(r)}
  <2>1. /\ UNCHANGED payout
        /\ ledger' = [r \in Rows |-> IF r \in H THEN [ledger[r] EXCEPT !.held = TRUE] ELSE ledger[r]]
    BY <1>d DEF handleDisputeCreated
  <2> HIDE DEF H
  <2> QED
    BY <1>1, <2>1, HoldIsIdeal
<1>e. ASSUME NEW k \in Tasks, handleDisputeClosed(k)
      PROVE  [Ideal!Next]_(Ideal!vars)
  <2> DEFINE c == task[k].event.of[1]
             H == {r \in Rows : r[1] = c}
  <2>1. /\ UNCHANGED payout
        /\ \/ DropOwed(c)
           \/ ledger' = [r \in Rows |-> IF r \in H THEN [ledger[r] EXCEPT !.held = FALSE] ELSE ledger[r]]
    BY <1>e DEF handleDisputeClosed
  <2> HIDE DEF c, H
  <2> QED
    BY <1>1, <2>1, HoldIsIdeal, DropIsIdeal
<1> QED
  BY <1>a, <1>b, <1>c, <1>d, <1>e
     DEF RefundsNext, TaskStep, EventArrives, RefundsPayment, EventProcessed, refundConsultation,
         ChargeRefunded, DisputeCreated, DisputeClosed, DashboardRefunds, DisputeOpens, DisputeCloses

(* A settlement earns a new row. *)
LEMMA SettlementIsIdeal ==
    ASSUME IInv, SentMatchesOut, SentMatchesOut', Settlement
    PROVE  [Ideal!Next]_(Ideal!vars)
<1>1. PICK c \in Consultations : SettleRecords(c)
  BY DEF Settlement
<1>2. ledger \in [Rows -> Earning] /\ <<c, 0>> \in Rows
  BY PartsAssumption DEF IInv, Typed, TypeOK, EarningsTypeOK, Rows
<1>3. ledger[<<c, 0>>].status = "none"
  BY <1>1, <1>2 DEF IInv, Owners, UnsettledHasNothing, SettleRecords
<1>4. PICK x : ledger' = [ledger EXCEPT ![<<c, 0>>] = x] /\ x.status = "earned"
  BY <1>1, SettledRow
<1>5. ledger'[<<c, 0>>].status = "earned" /\ \A r \in Rows \ {<<c, 0>>} : ledger'[r] = ledger[r]
  BY <1>2, <1>4
<1>6. \A r : Out(r)' <=> Out(r)
  BY <1>1, OutKept DEF Settlement, SettleRecords, payoutsOnly
<1>7. Ideal!Earned(<<c, 0>>)
  BY <1>2, <1>3, <1>5, <1>6, IdealSteps DEF Same
<1> QED
  BY <1>2, <1>7 DEF Ideal!Next

(* The ledger, the payouts and Stripe's transfers together keep what          *)
(* IdealEarnings promises of every earning: paid by at most one first transfer *)
(* at a time, again only after that money came back, dropped only while none is *)
(* out.  Of transfers sent again under a payout whose first one was reversed    *)
(* nothing is said.                                                            *)
THEOREM Refinement == Spec => EarningsAreIdeal
<1>1. Init => Ideal!Init
  <2> SUFFICES ASSUME Init PROVE Ideal!Init
    OBVIOUS
  <2>1. \A r \in Rows : ledger[r].status = "none"
    BY DEF Init, EarningsInit, NoEarning
  <2>2. \A r \in Rows : ~Out(r)
    BY DEF Init, PayoutsInit, Out, FirstStands
  <2>3. SentMatchesOut
    BY InitInductive, SentIsOut
  <2>4. \A r \in Rows : Cardinality(StandingFor(r)) = 0
    BY <2>2, <2>3 DEF SentMatchesOut
  <2> QED
    BY <2>1, <2>4 DEF Ideal!Init
<1>2. IInv /\ IInv' /\ [Next]_vars => [Ideal!Next]_(Ideal!vars)
  <2> SUFFICES ASSUME IInv, IInv', [Next]_vars PROVE [Ideal!Next]_(Ideal!vars)
    OBVIOUS
  <2>1. SentMatchesOut /\ SentMatchesOut'
    BY SentIsOut, SentIsOutNext
  <2>2. CASE PayoutSide
    <3>1. CASE Quiet /\ UNCHANGED transfers
      BY <2>1, <3>1, OutKept, IdealSteps DEF Quiet, Same
    <3> QED
      BY <2>1, <2>2, <3>1, PayoutsSteps, ClaimIsIdeal, ReturnIsIdeal, SendIsIdeal, ReversalIsIdeal
         DEF PayoutSide, IInv
  <2>3. CASE RefundSide
    BY <2>1, <2>3, RefundsAreIdeal DEF RefundSide
  <2>4. CASE Settlement
    BY <2>1, <2>4, SettlementIsIdeal
  <2>5. CASE BillingRestarts \/ UNCHANGED vars
    <3>1. UNCHANGED <<ledger, payout, transfers>>
      BY <2>5 DEF BillingRestarts, vars, payoutsOnly
    <3> QED
      BY <2>1, <3>1, OutKept, IdealSteps DEF Same
  <2> QED
    BY <2>2, <2>3, <2>4, <2>5 DEF Next
<1> QED
  BY <1>1, <1>2, InitInductive, NextInductive, PTL DEF Spec, EarningsAreIdeal, Ideal!Spec

-----------------------------------------------------------------------------
(* Disputed earnings.  While a customer's bank disputes a charge, no new    *)
(* payout takes the expert's share of it.                                   *)


Made(p) == payout[p].status # "none"
Sent(p) == transfers[p] # <<>>

\* A payout that was not made has no rows and no transfer, and nobody works on it
UnmadeIsUnused ==
    \A p \in Payouts :
       ~Made(p) => ~Sent(p) /\ payout[p].rows = {} /\ \A w \in Runs : run[w].payout # p

\* A row is owned only by a payout that was made from it
ClaimedIsListed ==
    \A r \in Rows : ledger[r].payout # NoPayout => r \in payout[ledger[r].payout].rows

\* Rows are returned only by a payout whose transfer went out
ReturnWasSent == \A w \in Runs : run[w].op = "return" => Sent(run[w].payout)

Settled(c)  == call[c].billing # "pending"
Disputed(c) == call[c].dispute = "open"

\* Only what was charged can be disputed
DisputesAreOfSettled ==
    /\ \A c \in Consultations : Disputed(c) => Settled(c)
    /\ \A m \in Charges : event("dispute.created", m) \in events => Settled(m[1])
    /\ \A k \in Tasks : task[k].op = "hold" =>
          \E m \in Charges : task[k].event = event("dispute.created", m) /\ Settled(m[1])

\* A row that a payout with a transfer was once made from
WasSent(r) == \E p \in Payouts : r \in payout[p].rows /\ Sent(p)

NothingSlips == \A r \in Rows : Disputed(r[1]) /\ Payable(r) => WasSent(r)

PayoutsKnown == UnmadeIsUnused /\ ClaimedIsListed /\ ReturnWasSent

HeldInv == Typed /\ PayoutsKnown /\ DisputesAreOfSettled /\ NothingSlips

-----------------------------------------------------------------------------
(* What steps may do. *)

\* What was sent stays sent, from the rows it was sent for
SentStays == \A p \in Payouts : Sent(p) => Sent(p)' /\ payout'[p].rows = payout[p].rows

\* No disputed earning becomes payable unless its money was sent
NothingFreed ==
    \A r \in Rows : Disputed(r[1])' /\ Payable(r)' =>
                       (Disputed(r[1]) /\ Payable(r)) \/ WasSent(r)'

(* Then nothing slips. *)
LEMMA SlipsKept ==
    ASSUME NothingSlips, SentStays, NothingFreed
    PROVE  NothingSlips'
<1>1. \A r \in Rows : WasSent(r) => WasSent(r)'
  BY DEF WasSent, SentStays
<1> QED
  BY <1>1 DEF NothingSlips, NothingFreed

\* Payouts are not unmade, and get rows and transfers when they are made
UnmadeStays ==
    \A p \in Payouts :
       ~Made(p)' => ~Made(p) /\ (~Sent(p) => ~Sent(p)') /\ payout'[p].rows = payout[p].rows

(* A slot moves on to a payout that was made.                                 *)
LEMMA SlotKeeps ==
    ASSUME Typed, PayoutsKnown, NEW w \in Runs, NEW x, run' = [run EXCEPT ![w] = x],
           NEW q \in Payouts \cup {NoPayout}, x.payout = q, q # NoPayout => Made(q)',
           x.op = "return" => q # NoPayout /\ Sent(q)',
           SentStays, UnmadeStays
    PROVE  UnmadeIsUnused' /\ ReturnWasSent'
<1>0. run \in [Runs -> Run] /\ RunHasPayout
  BY DEF Typed, TypeOK, PayoutsTypeOK
<1>1. UnmadeIsUnused'
  <2> SUFFICES ASSUME NEW p \in Payouts, ~Made(p)'
               PROVE  ~Sent(p)' /\ payout'[p].rows = {} /\ \A v \in Runs : run'[v].payout # p
    BY DEF UnmadeIsUnused
  <2>1. ~Made(p) /\ ~Sent(p)' /\ payout'[p].rows = {} /\ \A v \in Runs : run[v].payout # p
    BY DEF UnmadeStays, PayoutsKnown, UnmadeIsUnused
  <2>2. x.payout # p
    BY <2>1 DEF Payouts, NoPayout
  <2> QED
    BY <1>0, <2>1, <2>2
<1>2. ReturnWasSent'
  <2> SUFFICES ASSUME NEW v \in Runs, run'[v].op = "return" PROVE Sent(run[v].payout)'
    BY DEF ReturnWasSent
  <2>1. CASE v = w
    BY <1>0, <2>1 DEF Sent
  <2>2. CASE v # w
    <3>1. run'[v] = run[v] /\ run[v].payout \in Payouts /\ Sent(run[v].payout)
      BY <1>0, <2>2 DEF ReturnWasSent, PayoutsKnown, RunHasPayout
    <3> QED
      BY <3>1 DEF SentStays, Sent
  <2> QED
    BY <2>1, <2>2
<1> QED
  BY <1>1, <1>2

-----------------------------------------------------------------------------
(* The payouts' steps. *)

(* What a claim does: rows that could be paid become those of a new payout.   *)
LEMMA ClaimTakes ==
    ASSUME Typed, NEW w \in Runs, createPayoutForLedgerRows(w)
    PROVE  \E p \in Payouts, R \in SUBSET Rows :
              /\ ~Made(p) /\ payout'[p].status = "processing" /\ payout'[p].rows = R
              /\ \A q \in Payouts \ {p} : payout'[q] = payout[q]
              /\ \A r \in R : ledger'[r].payout = p
              /\ \A r \in Rows \ R :
                    ledger'[r].payout = ledger[r].payout /\ (Payable(r)' => Payable(r))
              /\ run' = [run EXCEPT ![w] = [IdleRun EXCEPT !.op = "send", !.payout = p]]
<1> DEFINE nets == run[w].nets
           Total(T) == SumFunctionOnSet(nets, T)
           target == run[w].target
<1>0. /\ ledger \in [Rows -> Earning] /\ payout \in [Payouts -> Payout] /\ run[w] \in Run
      /\ RowsBalance
  BY DEF Typed, TypeOK, EarningsTypeOK, PayoutsTypeOK
<1>1. PICK p \in Payouts, T \in SUBSET run[w].rows :
           /\ Fresh(p)
           /\ \/ claimRowsIntoPayout(p, T, ledger, target)
              \/ \E r \in run[w].rows \ T, s \in Rows :
                    /\ Payable(r)
                    /\ (target - Total(T)) \in 1..(nets[r] - 1) /\ ledger[r].net = nets[r]
                    /\ FreshPart(r[1], s)
                    /\ claimRowsIntoPayout(p, T \cup {s},
                           [ledger EXCEPT ![r] = Shrunk(r, target - Total(T)),
                                          ![s] = Part(r, target - Total(T))], target)
           /\ run' = [run EXCEPT ![w] = [IdleRun EXCEPT !.op = "send", !.payout = p]]
  BY Zenon DEF createPayoutForLedgerRows, Claims, RunGoes
<1>2. run[w].rows \subseteq Rows /\ ~Made(p)
  BY <1>0, <1>1 DEF Run, Fresh, Made
<1>3. ASSUME NEW R \in SUBSET Rows, NEW base \in [Rows -> Earning],
             claimRowsIntoPayout(p, R, base, target),
             \A x \in Rows \ R : /\ base[x].payout = ledger[x].payout
                                 /\ base[x].status = "earned" /\ base[x].payout = NoPayout
                                    /\ ~base[x].held => Payable(x)
      PROVE  /\ payout'[p].status = "processing" /\ payout'[p].rows = R
             /\ \A q \in Payouts \ {p} : payout'[q] = payout[q]
             /\ \A r \in R : ledger'[r].payout = p
             /\ \A r \in Rows \ R :
                   ledger'[r].payout = ledger[r].payout /\ (Payable(r)' => Payable(r))
  <2>1. \A r \in R : [base[r] EXCEPT !.payout = p].payout = p
    BY DEF Earning
  <2>2. /\ ledger' = [r \in Rows |-> IF r \in R THEN [base[r] EXCEPT !.payout = p] ELSE base[r]]
        /\ payout' = [payout EXCEPT ![p] = [status |-> "processing", cents |-> target,
                                            transfer |-> NoTransfer, rows |-> R]]
    BY <1>3 DEF claimRowsIntoPayout
  <2>3. \A r \in Rows \ R : ledger'[r] = base[r]
    BY <2>2
  <2>4. \A r \in Rows \ R : Payable(r)' => Payable(r)
    BY <1>3, <2>3 DEF Payable, Owed
  <2>5. /\ payout'[p].status = "processing" /\ payout'[p].rows = R
        /\ \A q \in Payouts \ {p} : payout'[q] = payout[q]
    BY <1>0, <2>2
  <2> QED
    BY <1>3, <2>1, <2>2, <2>3, <2>4, <2>5
<1>4. CASE claimRowsIntoPayout(p, T, ledger, target)
  <2>1. \A x \in Rows \ T : ledger[x].status = "earned" /\ ledger[x].payout = NoPayout
                            /\ ~ledger[x].held => Payable(x)
    BY DEF Payable, Owed
  <2>2. T \in SUBSET Rows /\ \A x \in Rows \ T : ledger[x].payout = ledger[x].payout
    BY <1>2
  <2>3. /\ payout'[p].status = "processing" /\ payout'[p].rows = T
        /\ \A q \in Payouts \ {p} : payout'[q] = payout[q]
        /\ \A r \in T : ledger'[r].payout = p
        /\ \A r \in Rows \ T :
              ledger'[r].payout = ledger[r].payout /\ (Payable(r)' => Payable(r))
    BY <1>0, <1>3, <1>4, <2>1, <2>2
  <2> QED
    BY <1>1, <1>2, <2>2, <2>3
<1>5. CASE ~claimRowsIntoPayout(p, T, ledger, target)
  <2>1. PICK r \in run[w].rows \ T, s \in Rows :
             /\ Payable(r)
             /\ (target - Total(T)) \in 1..(nets[r] - 1) /\ ledger[r].net = nets[r]
             /\ FreshPart(r[1], s)
             /\ claimRowsIntoPayout(p, T \cup {s},
                    [ledger EXCEPT ![r] = Shrunk(r, target - Total(T)),
                                   ![s] = Part(r, target - Total(T))], target)
    BY <1>1, <1>5, Zenon
  <2> DEFINE cents == target - Total(T)
             base == [ledger EXCEPT ![r] = Shrunk(r, cents), ![s] = Part(r, cents)]
  <2>2. r \in Rows /\ ledger[r] \in Earning /\ cents \in 1..(ledger[r].net - 1)
        /\ ledger[r].gross = ledger[r].commission + ledger[r].net
    BY <1>0, <1>2, <2>1 DEF RowsBalance
  <2> HIDE DEF cents
  <2>3. /\ Part(r, cents) \in Earning /\ Shrunk(r, cents) \in Earning
        /\ Shrunk(r, cents).payout = ledger[r].payout
    BY <2>2, SplitBalances
  <2>4. base \in [Rows -> Earning] /\ base[r] = IF r = s THEN Part(r, cents) ELSE Shrunk(r, cents)
    BY <1>0, <2>2, <2>3
  <2>5. \A x \in Rows \ (T \cup {s}) :
           /\ base[x].payout = ledger[x].payout
           /\ base[x].status = "earned" /\ base[x].payout = NoPayout /\ ~base[x].held => Payable(x)
    <3> SUFFICES ASSUME NEW x \in Rows \ (T \cup {s})
                 PROVE  /\ base[x].payout = ledger[x].payout
                        /\ base[x].status = "earned" /\ base[x].payout = NoPayout /\ ~base[x].held
                           => Payable(x)
      OBVIOUS
    <3>1. CASE x = r
      BY <2>1, <2>3, <2>4, <3>1 DEF Payable, Owed
    <3>2. CASE x # r
      <4>1. base[x] = ledger[x]
        BY <1>0, <3>2
      <4> QED
        BY <4>1 DEF Payable, Owed
    <3> QED
      BY <3>1, <3>2
  <2>6. claimRowsIntoPayout(p, T \cup {s}, base, target)
    BY <2>1 DEF cents
  <2>7. T \cup {s} \in SUBSET Rows
    BY <1>2
  <2> DEFINE R == T \cup {s}
  <2> HIDE DEF base, R
  <2>8. /\ payout'[p].status = "processing" /\ payout'[p].rows = R
        /\ \A q \in Payouts \ {p} : payout'[q] = payout[q]
        /\ \A x \in R : ledger'[x].payout = p
        /\ \A x \in Rows \ R :
              ledger'[x].payout = ledger[x].payout /\ (Payable(x)' => Payable(x))
    BY <1>3, <2>4, <2>5, <2>6, <2>7 DEF R
  <2> QED
    BY <1>1, <1>2, <2>7, <2>8 DEF R
<1> QED
  BY <1>4, <1>5

(* A claim frees no disputed earning and leaves the payouts accounted for.    *)
LEMMA ClaimHolds ==
    ASSUME Typed, PayoutsKnown, NEW w \in Runs, createPayoutForLedgerRows(w)
    PROVE  SentStays /\ NothingFreed /\ PayoutsKnown'
<1>1. PICK p \in Payouts, R \in SUBSET Rows :
              /\ ~Made(p) /\ payout'[p].status = "processing" /\ payout'[p].rows = R
              /\ \A q \in Payouts \ {p} : payout'[q] = payout[q]
              /\ \A r \in R : ledger'[r].payout = p
              /\ \A r \in Rows \ R :
                    ledger'[r].payout = ledger[r].payout /\ (Payable(r)' => Payable(r))
              /\ run' = [run EXCEPT ![w] = [IdleRun EXCEPT !.op = "send", !.payout = p]]
  BY ClaimTakes
<1>2. UNCHANGED <<call, transfers>>
  BY DEF createPayoutForLedgerRows
<1>3. p # NoPayout /\ ~Sent(p)
  BY <1>1 DEF Payouts, NoPayout, PayoutsKnown, UnmadeIsUnused
<1>4. SentStays
  BY <1>1, <1>2, <1>3 DEF SentStays, Sent
<1>5. NothingFreed
  BY <1>1, <1>2, <1>3 DEF NothingFreed, Payable, Owed, Disputed
<1>6. UnmadeStays
  BY <1>1, <1>2 DEF UnmadeStays, Made, Sent
<1>7. UnmadeIsUnused' /\ ReturnWasSent'
  <2> DEFINE x == [IdleRun EXCEPT !.op = "send", !.payout = p]
  <2>1. x.payout = p /\ x.op = "send"
    BY DEF IdleRun
  <2>2. Made(p)'
    BY <1>1 DEF Made
  <2>3. run' = [run EXCEPT ![w] = x]
    BY <1>1
  <2> HIDE DEF x
  <2> QED
    BY <1>4, <1>6, <2>1, <2>2, <2>3, SlotKeeps
<1>8. ClaimedIsListed'
  <2> SUFFICES ASSUME NEW r \in Rows, ledger'[r].payout # NoPayout
               PROVE  r \in payout'[ledger'[r].payout].rows
    BY DEF ClaimedIsListed
  <2>1. CASE r \in R
    BY <1>1, <2>1
  <2>2. CASE r \notin R
    <3>1. /\ ledger'[r].payout = ledger[r].payout /\ r \in payout[ledger[r].payout].rows
          /\ ledger[r].payout \in Payouts
      BY <1>1, <2>2 DEF PayoutsKnown, ClaimedIsListed, Typed, TypeOK, EarningsTypeOK, Earning
    <3>2. payout[p].rows = {}
      BY <1>1 DEF PayoutsKnown, UnmadeIsUnused
    <3> QED
      BY <1>1, <3>1, <3>2
  <2> QED
    BY <2>1, <2>2
<1> QED
  BY <1>4, <1>5, <1>7, <1>8 DEF PayoutsKnown

(* A step that only works on payouts that were made frees nothing.            *)
LEMMA QuietHolds ==
    ASSUME Typed, PayoutsKnown, Quiet, NEW w \in Runs, NEW x, run' = [run EXCEPT ![w] = x],
           NEW q \in Payouts \cup {NoPayout}, x.payout = q, q # NoPayout => Made(q)',
           x.op = "return" => q # NoPayout /\ Sent(q)',
           \A p \in Payouts : Sent(p) => Sent(p)',
           \A p \in Payouts : ~Made(p)' => ~Made(p) /\ (~Sent(p) => ~Sent(p)')
    PROVE  SentStays /\ NothingFreed /\ PayoutsKnown'
<1>1. SentStays /\ UnmadeStays
  BY DEF SentStays, UnmadeStays, Quiet
<1>2. UnmadeIsUnused' /\ ReturnWasSent'
  BY <1>1, SlotKeeps
<1>3. NothingFreed
  BY DEF NothingFreed, Quiet, Disputed, Payable, Owed
<1>4. ClaimedIsListed'
  BY DEF Typed, TypeOK, EarningsTypeOK, Earning, PayoutsKnown, ClaimedIsListed, Quiet
<1> QED
  BY <1>2, <1>1, <1>3, <1>4 DEF PayoutsKnown

(* Rows are returned by a payout that was sent: the money has come back.      *)
LEMMA ReturnHolds ==
    ASSUME Typed, PayoutsKnown, NEW w \in Runs, ReturnsEarnings(w)
    PROVE  SentStays /\ NothingFreed /\ PayoutsKnown'
<1> DEFINE p == run[w].payout
           x == [run[w] EXCEPT !.op = "ack"]
<1>0. /\ ledger \in [Rows -> Earning] /\ payout \in [Payouts -> Payout] /\ run[w] \in Run
      /\ p \in Payouts /\ Sent(p) /\ Made(p) /\ p # NoPayout
  <2>1. /\ ledger \in [Rows -> Earning] /\ payout \in [Payouts -> Payout] /\ run[w] \in Run
        /\ p \in Payouts /\ Sent(p)
    BY DEF ReturnsEarnings, Typed, TypeOK, EarningsTypeOK, PayoutsTypeOK, RunHasPayout, PayoutsKnown,
           ReturnWasSent
  <2> QED
    BY <2>1 DEF PayoutsKnown, UnmadeIsUnused, Payouts, NoPayout
<1>1. x.op = "ack" /\ x.payout = p /\ run' = [run EXCEPT ![w] = x] /\ UNCHANGED <<call, transfers>>
  BY <1>0 DEF ReturnsEarnings, RunGoes, Run
<1>2. /\ payout'[p].status = "failed" /\ payout'[p].rows = payout[p].rows
      /\ \A q \in Payouts \ {p} : payout'[q] = payout[q]
  <2>1. PICK y : y = [payout[p] EXCEPT !.status = "failed"]
    OBVIOUS
  <2>2. payout' = [payout EXCEPT ![p] = y]
    BY <2>1 DEF ReturnsEarnings
  <2>3. y.status = "failed" /\ y.rows = payout[p].rows
    BY <1>0, <2>1 DEF Payout
  <2> QED
    BY <1>0, <2>2, <2>3
<1>3. \A r \in Rows : /\ ledger[r].payout = p => ledger'[r].payout = NoPayout
                      /\ ledger[r].payout # p => ledger'[r] = ledger[r]
  <2>1. \A r \in Rows : [ledger[r] EXCEPT !.payout = NoPayout].payout = NoPayout
    BY <1>0 DEF Earning
  <2> QED
    BY <2>1 DEF ReturnsEarnings
<1>4. SentStays /\ UnmadeStays
  BY <1>0, <1>1, <1>2 DEF SentStays, UnmadeStays, Sent, Made
<1>5. UnmadeIsUnused' /\ ReturnWasSent'
  <2>1. PICK q \in Payouts : q = p
    BY <1>0
  <2>2. Made(q)'
    BY <1>2, <2>1 DEF Made
  <2> HIDE DEF x
  <2> QED
    BY <1>1, <1>4, <2>1, <2>2, SlotKeeps
<1>6. ClaimedIsListed'
  <2>1. \A r \in Rows : ledger[r].payout \in Payouts \cup {NoPayout}
    BY <1>0 DEF Earning
  <2> QED
    BY <1>2, <1>3, <2>1 DEF ClaimedIsListed, PayoutsKnown
<1>7. NothingFreed
  <2> SUFFICES ASSUME NEW r \in Rows, Disputed(r[1])', Payable(r)'
               PROVE  (Disputed(r[1]) /\ Payable(r)) \/ WasSent(r)'
    BY DEF NothingFreed
  <2>1. CASE ledger[r].payout = p
    <3>1. r \in payout'[p].rows /\ Sent(p)
      BY <1>0, <1>2, <2>1 DEF PayoutsKnown, ClaimedIsListed
    <3> QED
      BY <1>0, <1>1, <3>1 DEF WasSent, Sent
  <2>2. CASE ledger[r].payout # p
    BY <1>1, <1>3, <2>2 DEF Disputed, Payable, Owed
  <2> QED
    BY <2>1, <2>2
<1> QED
  BY <1>4, <1>5, <1>6, <1>7 DEF PayoutsKnown

(* Every step of the payouts, and what Stripe does about their transfers.     *)
LEMMA PayoutsHold ==
    ASSUME Typed, PayoutsKnown, PayoutsNext
    PROVE  SentStays /\ NothingFreed /\ PayoutsKnown'
<1> DEFINE Goal == SentStays /\ NothingFreed /\ PayoutsKnown'
<1>0. /\ run \in [Runs -> Run] /\ payout \in [Payouts -> Payout] /\ RunHasPayout
      /\ transfers \in [Payouts -> Seq({"live", "reversed"})]
      /\ NoPayout \notin Payouts
  BY DEF Typed, TypeOK, PayoutsTypeOK, EarningsTypeOK, Payouts, NoPayout
<1>1. \A w \in Runs : run[w].op \notin {"idle", "claim"} =>
                         run[w].payout \in Payouts /\ Made(run[w].payout)
  BY <1>0 DEF RunHasPayout, PayoutsKnown, UnmadeIsUnused
<1>2. UNCHANGED <<call, ledger, payout>> => Quiet
  BY DEF Quiet
<1>3. UNCHANGED payout => \A p \in Payouts : ~Made(p)' => ~Made(p)
  BY DEF Made
<1>4. UNCHANGED transfers => \A p \in Payouts : Sent(p)' <=> Sent(p)
  BY DEF Sent
<1> HIDE DEF Goal
<1>a. ASSUME NEW w \in Runs, runPayouts(w) \/ payExpertNow(w)
      PROVE  Goal
  <2>1. PICK R, cents : Reads(w, R, cents)
    <3>1. CASE runPayouts(w)
      BY <3>1 DEF runPayouts
    <3>2. CASE payExpertNow(w)
      BY <3>2 DEF payExpertNow
    <3> QED
      BY <1>a, <3>1, <3>2
  <2>2. PICK x : x.op = "claim" /\ x.payout = NoPayout /\ run' = [run EXCEPT ![w] = x]
    BY <2>1 DEF Reads, RunBegins, IdleRun
  <2>3. UNCHANGED <<call, ledger, payout, transfers>>
    BY <1>a DEF runPayouts, payExpertNow
  <2> QED
    BY <1>2, <1>3, <1>4, <2>2, <2>3, QuietHolds DEF Goal
<1>b. ASSUME NEW w \in Runs, NotPayable(w) \/ ClaimConflicts(w) \/ TransferEventProcessed(w)
      PROVE  Goal
  <2>1. run' = [run EXCEPT ![w] = IdleRun] /\ UNCHANGED <<call, ledger, payout, transfers>>
    BY <1>b DEF NotPayable, ClaimConflicts, TransferEventProcessed, RunEnds
  <2>2. IdleRun.op = "idle" /\ IdleRun.payout = NoPayout
    BY DEF IdleRun
  <2> QED
    BY <1>2, <1>3, <1>4, <2>1, <2>2, QuietHolds DEF Goal
<1>c. ASSUME NEW w \in Runs, RecordsOutcome(w) \/ MarksPaid(w)
      PROVE  Goal
  <2> DEFINE p == run[w].payout
             t == run[w].transfer
  <2>1. p \in Payouts /\ Made(p)
    BY <1>1, <1>c DEF RecordsOutcome, MarksPaid
  <2>2. PICK y : /\ payout' = [payout EXCEPT ![p] = y]
                 /\ \/ y = [payout[p] EXCEPT !.status = "failed"]
                    \/ y = [payout[p] EXCEPT !.status = "paid"]
                    \/ y = [payout[p] EXCEPT !.status = "paid", !.transfer = t]
    BY <1>c DEF RecordsOutcome, MarksPaid
  <2>3. y.rows = payout[p].rows /\ y.status \in {"failed", "paid"}
    BY <1>0, <2>1, <2>2 DEF Payout
  <2>4. run' = [run EXCEPT ![w] = IdleRun] /\ UNCHANGED <<call, ledger, transfers>>
    BY <1>c DEF RecordsOutcome, MarksPaid, RunEnds
  <2>5. \A q \in Payouts : payout'[q].rows = payout[q].rows /\ (~Made(q)' => ~Made(q))
    BY <1>0, <2>1, <2>2, <2>3 DEF Made
  <2>6. Quiet
    BY <2>4, <2>5 DEF Quiet
  <2>7. IdleRun.op = "idle" /\ IdleRun.payout = NoPayout
    BY DEF IdleRun
  <2> QED
    BY <1>4, <2>4, <2>5, <2>6, <2>7, QuietHolds DEF Goal
<1>d. ASSUME NEW w \in Runs, NEW p \in Payouts, reattemptFailedPayouts(w, p) \/ markPaid(w, p)
      PROVE  Goal
  <2>1. PICK op \in {"reconcile", "mark"} :
             run' = [run EXCEPT ![w] = [IdleRun EXCEPT !.op = op, !.payout = p]]
    BY <1>d DEF reattemptFailedPayouts, markPaid, RunBegins
  <2>2. PICK x : x.op = op /\ x.payout = p /\ run' = [run EXCEPT ![w] = x]
    BY <2>1 DEF IdleRun
  <2>3. payout[p].status = "failed" /\ UNCHANGED <<call, ledger, payout, transfers>>
    BY <1>d DEF reattemptFailedPayouts, markPaid, Retryable
  <2>4. Made(p)'
    BY <2>3 DEF Made
  <2> QED
    BY <1>2, <1>3, <1>4, <2>2, <2>3, <2>4, QuietHolds DEF Goal
<1>e. ASSUME NEW p \in Payouts, NEW n \in DOMAIN transfers[p], NEW w \in Runs,
             TransferCreated(w, <<p, n>>) \/ TransferReversed(w, <<p, n>>)
      PROVE  Goal
  <2>1. Sent(p) /\ Made(p)
    <3>1. Sent(p)
      BY <1>0 DEF Sent
    <3> QED
      BY <3>1 DEF PayoutsKnown, UnmadeIsUnused
  <2>2. \A type : LET ack == Acks(w, type, <<p, n>>, p)
                 IN  /\ ack.op = "ack" /\ ack.payout = p
                     /\ [ack EXCEPT !.op = "return"].payout = p
    BY DEF Acks, IdleRun
  <2>3. PICK x : run' = [run EXCEPT ![w] = x] /\ x.payout = p
    <3>1. CASE TransferCreated(w, <<p, n>>)
      BY <2>2, <3>1 DEF TransferCreated, RunBegins
    <3>2. CASE TransferReversed(w, <<p, n>>)
      BY <2>2, <3>2 DEF TransferReversed, RunBegins
    <3> QED
      BY <1>e, <3>1, <3>2
  <2>4. UNCHANGED <<call, ledger, transfers>>
    BY <1>e DEF TransferCreated, TransferReversed
  <2>5. \A q \in Payouts : payout'[q].rows = payout[q].rows /\ (~Made(q)' => ~Made(q))
    <3> DEFINE y == [payout[p] EXCEPT !.status = "paid", !.transfer = <<p, n>>]
    <3>1. y.status = "paid" /\ y.rows = payout[p].rows
      BY <1>0 DEF Payout
    <3>2. payout' = payout \/ payout' = [payout EXCEPT ![p] = y]
      BY <1>e DEF TransferCreated, TransferReversed
    <3> HIDE DEF y
    <3> QED
      BY <1>0, <3>1, <3>2 DEF Made
  <2>6. Quiet
    BY <2>4, <2>5 DEF Quiet
  <2>7. Made(p)' /\ Sent(p)'
    BY <2>1, <2>4, <2>5 DEF Sent, Made
  <2> QED
    BY <1>0, <1>4, <2>3, <2>4, <2>5, <2>6, <2>7, QuietHolds DEF Goal
<1>f. ASSUME NEW w \in Runs, sendPayoutTransfer(w)
      PROVE  Goal
  <2>0. PICK p \in Payouts : p = run[w].payout /\ Made(p)
    BY <1>1, <1>f DEF sendPayoutTransfer
  <2>1. PICK x : run' = [run EXCEPT ![w] = x] /\ x.op = "record" /\ x.payout = p
    <3>1. \A t : /\ [run[w] EXCEPT !.op = "record", !.transfer = t].op = "record"
                 /\ [run[w] EXCEPT !.op = "record", !.transfer = t].payout = p
                 /\ [run[w] EXCEPT !.op = "record"].op = "record"
                 /\ [run[w] EXCEPT !.op = "record"].payout = p
      BY <1>0, <2>0 DEF Run
    <3> QED
      BY <1>f, <3>1 DEF sendPayoutTransfer, RunGoes
  <2>2. UNCHANGED <<call, ledger, payout>>
    BY <1>f DEF sendPayoutTransfer
  <2>3. \A q \in Payouts : (Sent(q) => Sent(q)') /\ (q # p => (~Sent(q) => ~Sent(q)'))
    <3>1. transfers' = transfers \/ transfers' = [transfers EXCEPT ![p] = Append(transfers[p], "live")]
      BY <1>f, <2>0 DEF sendPayoutTransfer, Transfer
    <3>2. transfers[p] \in Seq({"live", "reversed"})
      BY <1>0
    <3>3. Append(transfers[p], "live") # <<>>
      <4>1. Len(Append(transfers[p], "live")) = Len(transfers[p]) + 1 /\ Len(transfers[p]) \in Nat
        BY <3>2
      <4>2. Len(<<>>) = 0
        OBVIOUS
      <4> QED
        BY <4>1, <4>2
    <3> QED
      BY <1>0, <3>1, <3>3 DEF Sent
  <2>4. \A q \in Payouts : ~Made(q)' => ~Made(q) /\ q # p
    BY <2>0, <2>2 DEF Made
  <2>5. Made(p)'
    BY <2>4
  <2> QED
    BY <1>2, <2>1, <2>2, <2>3, <2>4, <2>5, QuietHolds DEF Goal
<1>g. ASSUME NEW w \in Runs, reconcileSentTransfer(w)
      PROVE  Goal
  <2>0. PICK p \in Payouts : p = run[w].payout /\ Made(p)
    BY <1>1, <1>g DEF reconcileSentTransfer
  <2>1. PICK x : /\ run' = [run EXCEPT ![w] = x] /\ x.op \in {"idle", "record", "send"}
                 /\ x.payout \in {p, NoPayout}
    <3>1. \A t : /\ [run[w] EXCEPT !.op = "record", !.transfer = t].op = "record"
                 /\ [run[w] EXCEPT !.op = "record", !.transfer = t].payout = p
                 /\ [run[w] EXCEPT !.op = "send"].op = "send"
                 /\ [run[w] EXCEPT !.op = "send"].payout = p
                 /\ IdleRun.op = "idle" /\ IdleRun.payout = NoPayout
      BY <1>0, <2>0 DEF Run, IdleRun
    <3>2. PICK x : /\ run' = [run EXCEPT ![w] = x]
                   /\ \/ \E t : x = [run[w] EXCEPT !.op = "record", !.transfer = t]
                      \/ x = [run[w] EXCEPT !.op = "send"]
                      \/ x = IdleRun
      BY <1>g DEF reconcileSentTransfer, RunGoes, RunEnds
    <3> QED
      BY <3>1, <3>2
  <2>2. UNCHANGED <<call, ledger, payout, transfers>>
    BY <1>g DEF reconcileSentTransfer
  <2>3. PICK q \in Payouts \cup {NoPayout} : x.payout = q /\ (q # NoPayout => q = p)
    BY <2>1
  <2>4. q # NoPayout => Made(q)'
    BY <2>0, <2>2, <2>3 DEF Made
  <2> QED
    BY <1>2, <1>3, <1>4, <2>1, <2>2, <2>3, <2>4, QuietHolds DEF Goal
<1>h. ASSUME UNCHANGED <<call, ledger, payout, run>>,
             \A p \in Payouts : (Sent(p) => Sent(p)') /\ (~Sent(p) => ~Sent(p)')
      PROVE  Goal
  <2>1. SentStays /\ NothingFreed
    BY <1>h DEF SentStays, NothingFreed, Disputed, Payable, Owed
  <2>2. UnmadeIsUnused' /\ ClaimedIsListed'
    BY <1>h DEF PayoutsKnown, UnmadeIsUnused, ClaimedIsListed, Made
  <2>3. ReturnWasSent'
    <3> SUFFICES ASSUME NEW v \in Runs, run'[v].op = "return" PROVE Sent(run[v].payout)'
      BY <1>h DEF ReturnWasSent
    <3>1. run[v].payout \in Payouts /\ Sent(run[v].payout)
      BY <1>0, <1>h DEF RunHasPayout, ReturnWasSent, PayoutsKnown
    <3> QED
      BY <1>h, <3>1
  <2> QED
    BY <2>1, <2>2, <2>3 DEF Goal, PayoutsKnown
<1>i. ASSUME NEW p \in Payouts, KeyExpires(p)
      PROVE  Goal
  BY <1>4, <1>h, <1>i DEF KeyExpires
<1>j. ASSUME NEW p \in Payouts, NEW n \in DOMAIN transfers[p], TransferReverses(p, n)
      PROVE  Goal
  <2>1. transfers' = [transfers EXCEPT ![p] = [transfers[p] EXCEPT ![n] = "reversed"]]
    BY <1>j DEF TransferReverses
  <2>2. transfers[p] \in Seq({"live", "reversed"}) /\ n \in DOMAIN transfers[p]
    BY <1>0
  <2>3. transfers[p] # <<>> /\ [transfers[p] EXCEPT ![n] = "reversed"] # <<>>
    <3>1. DOMAIN [transfers[p] EXCEPT ![n] = "reversed"] = DOMAIN transfers[p]
      OBVIOUS
    <3>2. DOMAIN <<>> = {}
      OBVIOUS
    <3> QED
      BY <2>2, <3>1, <3>2
  <2>4. \A q \in Payouts : Sent(q)' <=> Sent(q)
    BY <1>0, <2>1, <2>3 DEF Sent
  <2> QED
    BY <1>h, <1>j, <2>4 DEF TransferReverses
<1>k. ASSUME NEW w \in Runs, createPayoutForLedgerRows(w) \/ ReturnsEarnings(w)
      PROVE  Goal
  BY <1>k, ClaimHolds, ReturnHolds DEF Goal
<1>5. Goal
  BY <1>a, <1>b, <1>c, <1>d, <1>e, <1>f, <1>g, <1>i, <1>j, <1>k DEF PayoutsNext, RunStep
<1> QED
  BY <1>5 DEF Goal

-----------------------------------------------------------------------------
(* The refunds' steps, settlement and restarts. *)

(* Rows that keep their payouts leave the payouts accounted for.              *)
LEMMA PayoutsUntouched ==
    ASSUME Typed, PayoutsKnown, UNCHANGED <<payout, transfers>>, \A r \in Rows : RowKept(r),
           \A w \in Runs : run'[w] = run[w] \/ run'[w] = IdleRun
    PROVE  SentStays /\ PayoutsKnown'
<1>1. SentStays
  BY DEF SentStays, Sent
<1>2. UnmadeIsUnused'
  <2>1. \A p \in Payouts : IdleRun.payout # p
    BY DEF IdleRun, Payouts, NoPayout
  <2> QED
    BY <2>1 DEF PayoutsKnown, UnmadeIsUnused, Made, Sent
<1>3. ReturnWasSent'
  BY DEF PayoutsKnown, ReturnWasSent, Sent, IdleRun
<1>4. ClaimedIsListed'
  BY DEF PayoutsKnown, ClaimedIsListed, RowKept
<1> QED
  BY <1>1, <1>2, <1>3, <1>4 DEF PayoutsKnown

\* What a step may add to the disputes
DisputesMove ==
    /\ BillingKept
    /\ \A c \in Consultations : Disputed(c)' => Disputed(c) \/ Settled(c)
    /\ \A m \in Charges :
          event("dispute.created", m) \in events' => event("dispute.created", m) \in events \/ Settled(m[1])
    /\ \A k \in Tasks : task'[k].op = "hold" =>
          \/ task'[k] = task[k]
          \/ \E m \in Charges : task'[k].event = event("dispute.created", m) /\ Settled(m[1])

(* Then only what was charged is disputed.                                    *)
LEMMA DisputesKept ==
    ASSUME DisputesAreOfSettled, DisputesMove
    PROVE  DisputesAreOfSettled'
<1>1. \A c \in Consultations : Settled(c) => Settled(c)'
  BY DEF DisputesMove, BillingKept, Settled
<1>2. \A m \in Charges : m[1] \in Consultations
  BY DEF Charges
<1>3. \A c \in Consultations : Disputed(c)' => Settled(c)'
  BY <1>1 DEF DisputesAreOfSettled, DisputesMove
<1>4. \A m \in Charges : event("dispute.created", m) \in events' => Settled(m[1])'
  BY <1>1, <1>2 DEF DisputesAreOfSettled, DisputesMove
<1>5. ASSUME NEW k \in Tasks, task'[k].op = "hold"
      PROVE  \E m \in Charges : task'[k].event = event("dispute.created", m) /\ Settled(m[1])'
  <2>1. PICK m \in Charges : task'[k].event = event("dispute.created", m) /\ Settled(m[1])
    BY <1>5 DEF DisputesAreOfSettled, DisputesMove
  <2> QED
    BY <1>1, <1>2, <2>1
<1> QED
  BY <1>3, <1>4, <1>5 DEF DisputesAreOfSettled, event

\* No call is newly disputed, and none of its rows newly payable
NothingEased ==
    /\ \A c \in Consultations : Disputed(c)' => Disputed(c)
    /\ \A r \in Rows : Payable(r)' => Payable(r)

(* Dropping makes nothing payable.                                            *)
LEMMA DropEasesNothing ==
    ASSUME NEW c, DropOwed(c)
    PROVE  \A r \in Rows : Payable(r)' => Payable(r)
BY DEF DropOwed, Payable, Owed, Dropped, NoEarning

(* A step that eases nothing frees nothing.                                   *)
LEMMA EasedIsFreed == NothingEased => NothingFreed
<1>1. \A r \in Rows : r[1] \in Consultations
  BY DEF Rows
<1> QED
  BY <1>1 DEF NothingEased, NothingFreed

(* A dispute that opens holds back whatever of the earning is owed.           *)
LEMMA DisputeHolds ==
    ASSUME Typed, DisputesAreOfSettled, NEW k \in Tasks, handleDisputeCreated(k)
    PROVE  /\ NothingFreed /\ \A r \in Rows : RowKept(r)
           /\ BillingKept /\ \A c \in Consultations : Disputed(c)' => Disputed(c) \/ Settled(c)
<1>1. PICK m \in Charges : task[k].event = event("dispute.created", m) /\ Settled(m[1])
  BY DEF handleDisputeCreated, DisputesAreOfSettled
<1>2. PICK c \in Consultations : c = m[1]
  BY DEF Charges
<1>3. task[k].event.of[1] = c
  BY <1>1, <1>2 DEF event
<1> DEFINE v == call[c].review \/ task[k].paidOut
           H == {r \in Rows : r[1] = c /\ Owed(r)}
<1>4. /\ call' = [call EXCEPT ![c].dispute = "open", ![c].review = v]
      /\ ledger' = [r \in Rows |-> IF r \in H THEN [ledger[r] EXCEPT !.held = TRUE] ELSE ledger[r]]
  BY <1>3 DEF handleDisputeCreated
<1>5. call \in [Consultations -> Call] /\ ledger \in [Rows -> Earning]
  BY DEF Typed, TypeOK, EarningsTypeOK
<1>6. \A r \in Rows : r \in H => ~Payable(r)'
  <2>1. \A r \in Rows : [ledger[r] EXCEPT !.held = TRUE].held = TRUE
    BY <1>5 DEF Earning
  <2> HIDE DEF H
  <2> QED
    BY <1>4, <2>1 DEF Payable
<1>7. \A r \in Rows \ H : ledger'[r] = ledger[r]
  BY <1>4
<1>8. \A r \in Rows : r[1] = c => ~Payable(r)'
  BY <1>6, <1>7 DEF Payable, Owed
<1> HIDE DEF v
<1>9. \A b \in Consultations : /\ call'[b].billing = call[b].billing
                               /\ b # c => call'[b].dispute = call[b].dispute
  BY <1>4, <1>5 DEF Call
<1>10. NothingFreed
  <2>1. \A r \in Rows : r[1] \in Consultations
    BY DEF Rows
  <2> SUFFICES ASSUME NEW r \in Rows, Disputed(r[1])', Payable(r)'
               PROVE  Disputed(r[1]) /\ Payable(r)
    BY DEF NothingFreed
  <2>2. r[1] # c
    BY <1>8
  <2>3. r \notin H
    BY <2>2
  <2> QED
    BY <1>7, <1>9, <2>1, <2>2, <2>3 DEF Disputed, Payable, Owed
<1>11. \A r \in Rows : RowKept(r)
  <2> HIDE DEF H
  <2> QED
    BY <1>4, HoldKeepsRows
<1>12. \A b \in Consultations : Disputed(b)' => Disputed(b) \/ Settled(b)
  BY <1>1, <1>2, <1>9 DEF Disputed
<1> QED
  BY <1>9, <1>10, <1>11, <1>12 DEF BillingKept

(* A dispute that closes frees nothing that is still disputed.                *)
LEMMA ClosingFrees ==
    ASSUME Typed, NEW k \in Tasks, handleDisputeClosed(k)
    PROVE  /\ NothingFreed /\ \A r \in Rows : RowKept(r)
           /\ BillingKept /\ \A c \in Consultations : Disputed(c)' => Disputed(c)
<1> DEFINE c == task[k].event.of[1]
           lost == task[k].event.type = "dispute.lost"
           d == IF lost THEN "lost" ELSE "won"
           v == call[c].review \/ (lost /\ task[k].paidOut)
           H == {r \in Rows : r[1] = c}
<1>1. /\ call' = [call EXCEPT ![c].dispute = d, ![c].review = v] /\ d # "open"
      /\ \/ DropOwed(c)
         \/ ledger' = [r \in Rows |-> IF r \in H THEN [ledger[r] EXCEPT !.held = FALSE] ELSE ledger[r]]
  BY DEF handleDisputeClosed
<1>2. call \in [Consultations -> Call] /\ ledger \in [Rows -> Earning]
  BY DEF Typed, TypeOK, EarningsTypeOK
<1>3. H = {r \in Rows : r[1] = c}
  OBVIOUS
<1> HIDE DEF c, lost, d, v, H
<1>4. \A b \in Consultations : /\ call'[b].billing = call[b].billing
                               /\ b # c => call'[b].dispute = call[b].dispute
                               /\ b = c => call'[b].dispute = d
  BY <1>1, <1>2 DEF Call
<1>5. \A b \in Consultations : Disputed(b)' => Disputed(b) /\ b # c
  BY <1>1, <1>4 DEF Disputed
<1>6. \A r \in Rows : r[1] # c => (Payable(r)' => Payable(r))
  <2>1. CASE DropOwed(c)
    BY <2>1, DropEasesNothing
  <2>2. CASE ledger' = [r \in Rows |-> IF r \in H THEN [ledger[r] EXCEPT !.held = FALSE] ELSE ledger[r]]
    BY <1>3, <2>2 DEF Payable, Owed
  <2> QED
    BY <1>1, <2>1, <2>2
<1>7. NothingFreed
  <2>1. \A r \in Rows : r[1] \in Consultations
    BY DEF Rows
  <2> QED
    BY <1>5, <1>6, <2>1 DEF NothingFreed
<1>8. \A r \in Rows : RowKept(r)
  BY <1>1, HoldKeepsRows, DropKeepsRows
<1> QED
  BY <1>4, <1>5, <1>7, <1>8 DEF BillingKept

\* What every step has to do, besides keeping the types
Holds == SentStays /\ NothingFreed /\ PayoutsKnown' /\ DisputesAreOfSettled'

(* A webhook that takes up or finishes its work is at no dispute's opening.   *)
LEMMA TasksMove ==
    ASSUME Typed, NEW k \in Tasks, NEW x, task' = [task EXCEPT ![k] = x], x.op # "hold"
    PROVE  \A j \in Tasks : task'[j].op = "hold" => task'[j] = task[j]
BY DEF Typed, TypeOK, RefundsTypeOK

(* An acknowledged event was about no dispute's opening.                      *)
LEMMA AckIsNoHold ==
    ASSUME Typed, NEW k \in Tasks, task[k].op \in {"refunded", "hold", "close", "ack"},
           HookGoesToAck(k)
    PROVE  \A j \in Tasks : task'[j].op = "hold" => task'[j] = task[j]
<1>1. task[k] \in HookTask
  BY TaskKinds DEF Typed, TypeOK
<1>2. [task[k] EXCEPT !.op = "ack"].op = "ack"
  BY <1>1 DEF HookTask
<1> QED
  BY <1>2, TasksMove DEF HookGoesToAck, TaskGoes

(* Every step of a refund, of its webhooks and of the customer's bank.        *)
LEMMA RefundsHold ==
    ASSUME Typed, PayoutsKnown, DisputesAreOfSettled, RefundsNext, UNCHANGED payoutsOnly
    PROVE  Holds
<1> DEFINE Meaning == \A m \in Charges :
                         event("dispute.created", m) \in events' => event("dispute.created", m) \in events
           Waiting == \A j \in Tasks : task'[j].op = "hold" => task'[j] = task[j]
<1>0. UNCHANGED <<run, transfers>> /\ call \in [Consultations -> Call] /\ payout' = payout
  <2>1. UNCHANGED <<run, transfers>> /\ call \in [Consultations -> Call]
    BY DEF payoutsOnly, Typed, TypeOK, EarningsTypeOK
  <2>2. payout' = payout
    BY DEF RefundsNext, TaskStep, EventArrives, RefundsPayment, RefundRecords, handleChargeRefunded,
           handleDisputeCreated, handleDisputeClosed, EventProcessed, refundConsultation,
           ChargeRefunded, DisputeCreated, DisputeClosed, DashboardRefunds, DisputeOpens, DisputeCloses
  <2> QED
    BY <2>1, <2>2
<1>1. ASSUME \A r \in Rows : RowKept(r), NothingFreed, BillingKept,
             \A c \in Consultations : Disputed(c)' => Disputed(c) \/ Settled(c),
             Meaning, Waiting
      PROVE  Holds
  <2>1. SentStays /\ PayoutsKnown'
    BY <1>0, <1>1, PayoutsUntouched
  <2>2. DisputesMove
    BY <1>1 DEF DisputesMove
  <2> QED
    BY <1>1, <2>1, <2>2, DisputesKept DEF Holds
<1>2. ASSUME UNCHANGED <<call, ledger>>
      PROVE  /\ \A r \in Rows : RowKept(r)
             /\ NothingFreed /\ BillingKept
             /\ \A c \in Consultations : Disputed(c)' => Disputed(c) \/ Settled(c)
  BY <1>2 DEF RowKept, NothingFreed, BillingKept, Disputed, Payable, Owed
<1>3. ASSUME NEW c, DropOwed(c),
             \A b \in Consultations : /\ call'[b].billing = "pending" => call[b].billing = "pending"
                                      /\ call'[b].dispute = call[b].dispute
      PROVE  /\ \A r \in Rows : RowKept(r)
             /\ NothingFreed /\ BillingKept
             /\ \A b \in Consultations : Disputed(b)' => Disputed(b) \/ Settled(b)
  <2>1. NothingEased
    BY <1>3, DropEasesNothing DEF NothingEased, Disputed
  <2> QED
    BY <1>3, <2>1, EasedIsFreed, DropKeepsRows DEF BillingKept, Disputed
<1>4. \A m, x : \A full : /\ refunded(x, full) # event("dispute.created", m)
                          /\ event("dispute.won", x) # event("dispute.created", m)
                          /\ event("dispute.lost", x) # event("dispute.created", m)
  <2>1. \A x, full : refunded(x, full).type = "charge.refunded"
    BY DEF refunded
  <2>2. \A x, type : event(type, x).type = type
    BY DEF event
  <2> QED
    BY <2>1, <2>2
<1>5. IdleTask.op # "hold"
  BY DEF IdleTask
<1>a. ASSUME NEW k \in Tasks, NEW c \in Consultations, refundConsultation(k, c)
      PROVE  Holds
  <2> DEFINE of == {m \in ChargesOf(c) : txn[m] = "succeeded"}
             x == [op |-> "refund", c |-> c, of |-> of, todo |-> of]
  <2>1. task' = [task EXCEPT ![k] = x] /\ x.op # "hold"
    BY <1>a DEF refundConsultation, TaskBegins
  <2> HIDE DEF x
  <2>2. Waiting
    BY <2>1, TasksMove
  <2> QED
    BY <1>1, <1>2, <1>a, <2>2 DEF refundConsultation
<1>b. ASSUME NEW k \in Tasks, RefundsPayment(k)
      PROVE  Holds
  <2>1. task[k] \in RefundTask
    BY <1>b, TaskKinds DEF RefundsPayment, Typed, TypeOK
  <2>2. PICK x : task' = [task EXCEPT ![k] = x] /\ x.op # "hold"
    <3>1. \A m : LET y == [task[k] EXCEPT !.todo = @ \ {m},
                                          !.op = IF task[k].todo = {m} THEN "record" ELSE @]
                 IN  y.op \in {"record", "refund"}
      BY <2>1 DEF RefundTask
    <3> QED
      BY <1>5, <1>b, <3>1 DEF RefundsPayment, TaskGoes, TaskEnds
  <2>3. Meaning
    <3>1. PICK m \in task[k].todo : events' \subseteq events \cup {refunded(m, TRUE)}
      BY <1>b DEF RefundsPayment, Refund
    <3> QED
      BY <1>4, <3>1
  <2>4. Waiting
    BY <2>2, TasksMove
  <2> QED
    BY <1>1, <1>2, <1>b, <2>3, <2>4 DEF RefundsPayment
<1>c. ASSUME NEW k \in Tasks, RefundRecords(k)
      PROVE  Holds
  <2> DEFINE c == task[k].c
  <2>1. DropOwed(c) /\ call' = [call EXCEPT ![c].billing = "refunded"] /\ events' = events
        /\ task' = [task EXCEPT ![k] = IdleTask]
    BY <1>c DEF RefundRecords, TaskEnds
  <2> HIDE DEF c
  <2>2. \A b \in Consultations : /\ call'[b].billing = "pending" => call[b].billing = "pending"
                                 /\ call'[b].dispute = call[b].dispute
    BY <1>0, <2>1 DEF Call
  <2>3. Waiting
    BY <1>5, <2>1, TasksMove
  <2> QED
    BY <1>1, <1>3, <2>1, <2>2, <2>3
<1>d. ASSUME NEW k \in Tasks, NEW m \in Charges, NEW full \in BOOLEAN, ChargeRefunded(k, m, full)
      PROVE  Holds
  <2> DEFINE x == [op |-> IF FreshRefunds(m) = {} THEN "ack" ELSE "refunded",
                   event |-> refunded(m, full), paidOut |-> PaidOut(refunded(m, full).of[1]),
                   others |-> OthersRefunded(m), fresh |-> FreshRefunds(m)]
  <2>1. task' = [task EXCEPT ![k] = x] /\ x.op # "hold"
    BY <1>d DEF ChargeRefunded, Hooked, TaskBegins
  <2> HIDE DEF x
  <2>2. Waiting
    BY <2>1, TasksMove
  <2> QED
    BY <1>1, <1>2, <1>d, <2>2 DEF ChargeRefunded
<1>e. ASSUME NEW k \in Tasks, handleChargeRefunded(k)
      PROVE  Holds
  <2> DEFINE c == task[k].event.of[1]
             v == call[c].review \/ task[k].paidOut
  <2>1. /\ events' = events /\ HookGoesToAck(k) /\ task[k].op = "refunded"
        /\ \/ DropOwed(c) /\ call' = [call EXCEPT ![c].billing = "refunded", ![c].review = v]
           \/ ledger' = ledger /\ call' = [call EXCEPT ![c].review = TRUE]
    BY <1>e DEF handleChargeRefunded
  <2> HIDE DEF c, v
  <2>2. \A b \in Consultations : /\ call'[b].billing = "pending" => call[b].billing = "pending"
                                 /\ call'[b].dispute = call[b].dispute
    BY <1>0, <2>1 DEF Call
  <2>3. Waiting
    BY <2>1, AckIsNoHold
  <2>4. CASE DropOwed(c)
    BY <1>1, <1>3, <2>1, <2>2, <2>3, <2>4
  <2>5. CASE ledger' = ledger
    <3>1. \A r \in Rows : RowKept(r) /\ (Payable(r)' => Payable(r))
      BY <2>5 DEF RowKept, Payable, Owed
    <3>2. NothingEased
      BY <2>2, <3>1 DEF NothingEased, Disputed
    <3>3. \A b \in Consultations : Disputed(b)' => Disputed(b) \/ Settled(b)
      BY <2>2 DEF Disputed
    <3>4. BillingKept
      BY <2>2 DEF BillingKept
    <3> QED
      BY <1>1, <2>1, <2>3, <3>1, <3>2, <3>3, <3>4, EasedIsFreed
  <2> QED
    BY <2>1, <2>4, <2>5
<1>f. ASSUME NEW k \in Tasks, NEW m \in Charges, DisputeCreated(k, m)
      PROVE  Holds
  <2> DEFINE e == event("dispute.created", m)
             x == [op |-> "hold", event |-> e, paidOut |-> PaidOut(e.of[1]),
                   others |-> FALSE, fresh |-> {}]
  <2>1. task' = [task EXCEPT ![k] = x] /\ x.event = event("dispute.created", m)
    BY <1>f DEF DisputeCreated, Hooked, TaskBegins
  <2> HIDE DEF x, e
  <2>2. Settled(m[1])
    BY <1>f DEF DisputeCreated, DisputesAreOfSettled
  <2>3. \A j \in Tasks : task'[j] = task[j] \/ task'[j].event = event("dispute.created", m)
    BY <2>1 DEF Typed, TypeOK, RefundsTypeOK
  <2>4. UNCHANGED <<call, ledger, events>>
    BY <1>f DEF DisputeCreated
  <2>5. DisputesMove
    BY <1>2, <2>2, <2>3, <2>4 DEF DisputesMove
  <2>6. SentStays /\ PayoutsKnown'
    BY <1>0, <1>2, <2>4, PayoutsUntouched
  <2> QED
    BY <1>2, <2>4, <2>5, <2>6, DisputesKept DEF Holds
<1>g. ASSUME NEW k \in Tasks, NEW m \in Charges, DisputeClosed(k, m)
      PROVE  Holds
  <2>1. PICK x : task' = [task EXCEPT ![k] = x] /\ x.op # "hold"
    BY <1>g DEF DisputeClosed, Hooked, TaskBegins
  <2>2. Waiting
    BY <2>1, TasksMove
  <2> QED
    BY <1>1, <1>2, <1>g, <2>2 DEF DisputeClosed
<1>h. ASSUME NEW k \in Tasks, handleDisputeCreated(k)
      PROVE  Holds
  <2>1. task[k].op = "hold" /\ HookGoesToAck(k) /\ events' = events
    BY <1>h DEF handleDisputeCreated
  <2>2. Waiting
    BY <2>1, AckIsNoHold
  <2> QED
    BY <1>1, <1>h, <2>1, <2>2, DisputeHolds
<1>i. ASSUME NEW k \in Tasks, handleDisputeClosed(k)
      PROVE  Holds
  <2>1. task[k].op = "close" /\ HookGoesToAck(k) /\ events' = events
    BY <1>i DEF handleDisputeClosed
  <2>2. Waiting
    BY <2>1, AckIsNoHold
  <2> QED
    BY <1>1, <1>i, <2>1, <2>2, ClosingFrees
<1>j. ASSUME NEW k \in Tasks, EventProcessed(k)
      PROVE  Holds
  <2>1. task' = [task EXCEPT ![k] = IdleTask]
    BY <1>j DEF EventProcessed, TaskEnds
  <2>2. Waiting
    BY <1>5, <2>1, TasksMove
  <2> QED
    BY <1>1, <1>2, <1>j, <2>2 DEF EventProcessed
<1>k. ASSUME NEW m \in Charges, NEW source \in {"part", "dashboard"}, DashboardRefunds(m, source)
      PROVE  Holds
  BY <1>1, <1>2, <1>4, <1>k DEF DashboardRefunds
<1>l. ASSUME NEW m \in Charges, DisputeOpens(m)
      PROVE  Holds
  <2>1. /\ Settled(m[1]) /\ UNCHANGED <<call, ledger, task>>
        /\ events' = events \cup {event("dispute.created", m)}
    BY <1>l DEF DisputeOpens, Settled
  <2>2. \A n \in Charges : event("dispute.created", n) = event("dispute.created", m) => n = m
    BY DEF event
  <2>3. DisputesMove
    BY <1>2, <2>1, <2>2 DEF DisputesMove
  <2>4. SentStays /\ PayoutsKnown'
    BY <1>0, <1>2, <2>1, PayoutsUntouched
  <2> QED
    BY <1>2, <2>1, <2>3, <2>4, DisputesKept DEF Holds
<1>m. ASSUME NEW m \in Charges, NEW how \in {"won", "lost"}, DisputeCloses(m, how)
      PROVE  Holds
  BY <1>1, <1>2, <1>4, <1>m DEF DisputeCloses
<1> HIDE DEF Meaning, Waiting
<1> QED
  BY <1>a, <1>b, <1>c, <1>d, <1>e, <1>f, <1>g, <1>h, <1>i, <1>j, <1>k, <1>l, <1>m
     DEF RefundsNext, TaskStep, EventArrives

(* Settlement earns a row of a call that nobody can have disputed yet.        *)
LEMMA SettlementHolds ==
    ASSUME Typed, PayoutsKnown, DisputesAreOfSettled, Settlement
    PROVE  Holds
<1>1. PICK c \in Consultations : SettleRecords(c)
  BY DEF Settlement
<1>2. PICK x : ledger' = [ledger EXCEPT ![<<c, 0>>] = x] /\ x.status = "earned" /\ x.payout = NoPayout
  BY <1>1, SettledRow
<1>3. /\ ledger \in [Rows -> Earning] /\ call \in [Consultations -> Call]
      /\ <<c, 0>> \in Rows /\ \A r \in Rows : r[1] \in Consultations
  BY PartsAssumption DEF Typed, TypeOK, EarningsTypeOK, Rows
<1>4. /\ call[c].billing = "pending" /\ ~Disputed(c)
      /\ call'[c].billing = "charged" /\ call'[c].dispute = call[c].dispute
      /\ \A b \in Consultations \ {c} : call'[b] = call[b]
      /\ UNCHANGED <<payout, events, transfers, run, task>>
  <2>1. call' = [call EXCEPT ![c].billing = "charged"] /\ call[c].billing = "pending"
    BY <1>1 DEF SettleRecords
  <2>2. ~Disputed(c)
    BY <2>1 DEF DisputesAreOfSettled, Settled
  <2> QED
    BY <1>1, <1>3, <2>1, <2>2 DEF SettleRecords, Settlement, payoutsOnly, refundsOnly, Call
<1>5. NothingFreed
  <2> SUFFICES ASSUME NEW r \in Rows, Disputed(r[1])', Payable(r)'
               PROVE  Disputed(r[1]) /\ Payable(r)
    BY DEF NothingFreed
  <2>1. Disputed(r[1]) /\ r[1] # c
    BY <1>3, <1>4 DEF Disputed
  <2>2. r # <<c, 0>>
    BY <2>1
  <2> QED
    BY <1>2, <1>3, <2>1, <2>2 DEF Payable, Owed
<1>6. DisputesMove
  BY <1>3, <1>4 DEF DisputesMove, BillingKept, Disputed
<1>7. SentStays
  BY <1>4 DEF SentStays, Sent
<1>8. UnmadeIsUnused' /\ ReturnWasSent'
  BY <1>4 DEF PayoutsKnown, UnmadeIsUnused, ReturnWasSent, Made, Sent
<1>9. ClaimedIsListed'
  BY <1>2, <1>3, <1>4 DEF PayoutsKnown, ClaimedIsListed
<1> QED
  BY <1>5, <1>6, <1>7, <1>8, <1>9, DisputesKept DEF Holds, PayoutsKnown

(* The payouts' side knows nothing of disputes.                               *)
LEMMA PayoutsTellNoDispute ==
    ASSUME Typed, DisputesAreOfSettled, PayoutSide
    PROVE  DisputesAreOfSettled'
<1>1. \A x, m : \A type \in {"transfer.created", "transfer.reversed"} :
                   event(type, x) # event("dispute.created", m)
  BY DEF event
<1>2. \A m : event("dispute.created", m) \in events' => event("dispute.created", m) \in events
  <2>1. \A e \in events' \ events :
           \E x : e = event("transfer.created", x) \/ e = event("transfer.reversed", x)
    <3>1. ASSUME NEW w \in Runs, sendPayoutTransfer(w)
          PROVE  \A e \in events' \ events : \E x : e = event("transfer.created", x)
      BY <3>1 DEF sendPayoutTransfer, Transfer
    <3>2. ASSUME NEW p \in Payouts, NEW n, TransferReverses(p, n)
          PROVE  \A e \in events' \ events : \E x : e = event("transfer.reversed", x)
      BY <3>2 DEF TransferReverses
    <3>3. ASSUME ~(\E w \in Runs : sendPayoutTransfer(w)),
                 ~(\E p \in Payouts : \E n \in DOMAIN transfers[p] : TransferReverses(p, n))
          PROVE  events' \subseteq events
      <4>1. ASSUME NEW w \in Runs, RunStep(w) PROVE events' \subseteq events
        BY <3>3, <4>1
           DEF RunStep, createPayoutForLedgerRows, ClaimConflicts, NotPayable, RecordsOutcome,
               reconcileSentTransfer, MarksPaid, ReturnsEarnings, TransferEventProcessed
      <4>2. ASSUME NEW w \in Runs, runPayouts(w) \/ payExpertNow(w) PROVE events' \subseteq events
        BY <4>2 DEF runPayouts, payExpertNow
      <4>3. ASSUME NEW w \in Runs, NEW p \in Payouts, reattemptFailedPayouts(w, p) \/ markPaid(w, p)
            PROVE  events' \subseteq events
        BY <4>3 DEF reattemptFailedPayouts, markPaid
      <4>4. ASSUME NEW w \in Runs, NEW t, TransferCreated(w, t) \/ TransferReversed(w, t)
            PROVE  events' \subseteq events
        BY <4>4 DEF TransferCreated, TransferReversed
      <4>5. ASSUME NEW p \in Payouts, KeyExpires(p) PROVE events' \subseteq events
        BY <4>5 DEF KeyExpires
      <4> QED
        BY <3>3, <4>1, <4>2, <4>3, <4>4, <4>5 DEF PayoutSide, PayoutsNext
    <3> QED
      BY <3>1, <3>2, <3>3
  <2> QED
    BY <1>1, <2>1
<1>3. UNCHANGED <<call, task>>
  <2>1. call' = call
    <3>1. ASSUME NEW w \in Runs, createPayoutForLedgerRows(w) \/ ReturnsEarnings(w) PROVE call' = call
      BY <3>1 DEF createPayoutForLedgerRows, ReturnsEarnings
    <3> QED
      BY <3>1, PayoutsSteps DEF PayoutSide, Quiet
  <2> QED
    BY <2>1 DEF PayoutSide, refundsOnly
<1>4. DisputesMove
  BY <1>2, <1>3 DEF DisputesMove, BillingKept, Disputed
<1> QED
  BY <1>4, DisputesKept

(* A restart loses what was in progress, and with it no dispute.              *)
LEMMA RestartHolds ==
    ASSUME Typed, PayoutsKnown, DisputesAreOfSettled, BillingRestarts
    PROVE  Holds
<1>1. UNCHANGED <<call, ledger, payout, events, transfers>>
  BY DEF BillingRestarts
<1>2. \A r \in Rows : RowKept(r)
  BY <1>1 DEF RowKept
<1>3. SentStays /\ PayoutsKnown'
  BY <1>1, <1>2, PayoutsUntouched DEF BillingRestarts
<1>4. NothingFreed
  BY <1>1 DEF NothingFreed, Disputed, Payable, Owed
<1>5. \A k \in Tasks : task'[k].op # "hold"
  BY DEF BillingRestarts, IdleTask
<1>6. DisputesMove
  BY <1>1, <1>5 DEF DisputesMove, BillingKept, Disputed
<1> QED
  BY <1>3, <1>4, <1>6, DisputesKept DEF Holds

-----------------------------------------------------------------------------
(* The invariant, and what it is for. *)

(* The invariant holds at first.                                              *)
LEMMA HeldInit == Init => HeldInv
<1> SUFFICES ASSUME Init PROVE HeldInv
  OBVIOUS
<1>1. Typed
  BY InitTyped
<1>2. PayoutsKnown
  BY DEF Init, EarningsInit, PayoutsInit, PayoutsKnown, UnmadeIsUnused, ClaimedIsListed,
         ReturnWasSent, Made, Sent, NoEarning, IdleRun, Payouts, NoPayout
<1>3. DisputesAreOfSettled
  BY DEF Init, EarningsInit, RefundsInit, DisputesAreOfSettled, Disputed, IdleTask
<1>4. NothingSlips
  BY DEF Init, EarningsInit, NothingSlips, Payable, Owed, NoEarning
<1> QED
  BY <1>1, <1>2, <1>3, <1>4 DEF HeldInv

(* Every step keeps it.                                                       *)
LEMMA HeldNext == HeldInv /\ [Next]_vars => HeldInv'
<1> SUFFICES ASSUME HeldInv, [Next]_vars PROVE HeldInv'
  OBVIOUS
<1>0. Typed /\ PayoutsKnown /\ DisputesAreOfSettled /\ NothingSlips
  BY DEF HeldInv
<1>1. Typed'
  BY <1>0, NextTyped
<1>2. ASSUME Holds PROVE HeldInv'
  BY <1>0, <1>1, <1>2, SlipsKept DEF Holds, HeldInv
<1>3. CASE Settlement
  BY <1>0, <1>2, <1>3, SettlementHolds
<1>4. CASE PayoutSide
  BY <1>0, <1>2, <1>4, PayoutsHold, PayoutsTellNoDispute DEF PayoutSide, Holds
<1>5. CASE RefundSide
  BY <1>0, <1>2, <1>5, RefundsHold DEF RefundSide
<1>6. CASE BillingRestarts
  BY <1>0, <1>2, <1>6, RestartHolds
<1>7. CASE UNCHANGED vars
  <2>1. UNCHANGED <<call, ledger, payout, events, run, transfers, task>>
    BY <1>7 DEF vars, payoutsOnly, refundsOnly
  <2>2. PayoutsKnown' /\ NothingSlips'
    BY <1>0, <2>1 DEF PayoutsKnown, UnmadeIsUnused, ClaimedIsListed, ReturnWasSent, Made, Sent,
                      NothingSlips, Disputed, Payable, Owed, WasSent
  <2>3. DisputesMove
    BY <2>1 DEF DisputesMove, BillingKept, Disputed
  <2> QED
    BY <1>0, <1>1, <2>2, <2>3, DisputesKept DEF HeldInv
<1> QED
  BY <1>3, <1>4, <1>5, <1>6, <1>7 DEF Next

(* While a charge is disputed, no new payout can claim a part of its earning    *)
(* that no payout owns, but one that was paid and whose money Stripe took back.  *)
(* The rows a payout owned before the dispute stay with it, also to be sent      *)
(* again if it failed.                                                           *)
THEOREM DisputedIsHeld == Spec => []DisputedEarningIsHeld
<1>1. IInv /\ HeldInv => DisputedEarningIsHeld
  <2> SUFFICES ASSUME IInv, HeldInv, NEW r \in Rows, call[r[1]].dispute = "open", Payable(r)
               PROVE  \E p \in Payouts : r \in payout[p].rows /\ Reversed(p)
    BY DEF DisputedEarningIsHeld
  <2>1. PICK p \in Payouts : r \in payout[p].rows
    BY DEF HeldInv, NothingSlips, Disputed, WasSent
  <2>2. ledger[r].payout # p
    BY DEF Payable, Owed, Payouts, NoPayout
  <2> QED
    BY <2>1, <2>2 DEF IInv, Owners, OwnsItsRows
<1> QED
  BY <1>1, InitInductive, NextInductive, HeldInit, HeldNext, PTL DEF Spec
=============================================================================
