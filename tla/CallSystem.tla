----------------------------- MODULE CallSystem -----------------------------
(***************************************************************************)
(* engagement-service and billing-service working on one consultations     *)
(* table: the interleaving of Calls and CallBilling.  The two meet in the  *)
(* row and in the internal POSTs engagement sends.                         *)
(***************************************************************************)
EXTENDS Calls, CallBilling, Functions

\* A customer has finitely many saved cards
ASSUME CardsAreFinite == IsFiniteSet(Cards)

vars == <<row, posts, callsOnly, billingOnly>>

Init == TableInit /\ CallsInit /\ BillingInit

Engagement == CallsNext /\ UNCHANGED billingOnly

Billing == BillingNext /\ UNCHANGED callsOnly

Next == Engagement \/ Billing

Spec == Init /\ [][Next]_vars

-----------------------------------------------------------------------------
(* Fairness.  A request in progress runs on to its end, PM2 runs the two    *)
(* sweeps every ten minutes for as long as the platform lives, and nothing  *)
(* else is promised: not that anybody presses a button, not that ZEGO or    *)
(* Stripe deliver a callback, not that a POST between services arrives.     *)

Fairness ==
    /\ \A j \in Jobs : WF_vars(JobStep(j) /\ UNCHANGED callsOnly)
    /\ \A j \in Jobs, c \in Consultations :
          /\ SF_vars(retryFailedCaptures(j, c) /\ UNCHANGED callsOnly)
          /\ SF_vars(releaseStaleHolds(j, c) /\ UNCHANGED callsOnly)
    /\ \A c \in Consultations : WF_vars(ExpireAbandoned(c) /\ UNCHANGED callsOnly)

FairSpec == Spec /\ Fairness

-----------------------------------------------------------------------------
\* Every variable stays within the columns and messages the code can write.
TypeOK == TableTypeOK /\ CallsTypeOK /\ BillingTypeOK

\* A call in which both parties met in the room was secured first: the row
\* names a card hold.  Tokens for the room are only issued after acceptance and
\* acceptance needs the hold, so no chain of requests, stale handlers, duplicate
\* callbacks or restarts connects a call with no hold on record.
ConnectedCallHasHold ==
    \A c \in Consultations : row[c].started => row[c].pi # NoCard

\* The hold a row names was authorised by Stripe: no declined card, lost answer or
\* replaced hold leaves the row, which acceptance relies on, naming a hold that
\* never was.
HoldOnRecordIsAuthorised ==
    \A c \in Consultations :
       row[c].pi # NoCard => hold[c][row[c].pi].status \notin {"none", "declined"}

\* Nobody is charged for a call that never connected: a recorded charge, and
\* even an off-session charge or a capture at Stripe, implies that both parties
\* had joined and the call had started.
ChargedOnlyIfConnected ==
    \A c \in Consultations :
       \/ charge[c] > 0
       \/ \E k \in Cards : hold[c][k].status = "succeeded"
       \/ \E d \in direct : d.c = c
       => row[c].started /\ row[c].joined = Parties

\* However many settlements race, the expert is credited exactly what the one
\* recorded charge says.
CreditedOnce == \A c \in Consultations : credited[c] = charge[c]

\* All the money Stripe took from the customer for consultation c
ReceivedFromHolds(c) == SumFunctionOnSet([k \in Cards |-> hold[c][k].received], Cards)

OffSessionOf(c) == {d \in direct : d.c = c}

ChargedOffSession(c) == SumFunctionOnSet([d \in OffSessionOf(c) |-> d.cents], OffSessionOf(c))

CollectedFromCustomer(c) == ReceivedFromHolds(c) + ChargedOffSession(c)

\* The expert is never credited money the customer has not paid: what is
\* recorded was confirmed by Stripe before it was written down.
ChargeBackedByStripe ==
    \A c \in Consultations : charge[c] <= CollectedFromCustomer(c)

\* collectConsultationPayment: "a retry can never double-charge".  Whatever
\* settlements of a call race, crash and are tried again, Stripe takes no more
\* than the price of a call of some length the call may have had.
NeverDoubleCharged ==
    \A c \in Consultations :
       \E s \in CallSeconds : CollectedFromCustomer(c) <= ChargeCents(s)

\* A recorded charge is final: no racing settlement, late webhook or failed retry
\* changes it or marks the consultation as unpaid again.
RecordedChargeIsFinal ==
    [][\A c \in Consultations :
          charge[c] > 0 => charge'[c] = charge[c] /\ row'[c].billing = "charged"]_vars

-----------------------------------------------------------------------------
(* The inductive invariant behind ConnectedCallHasHold, CreditedOnce and     *)
(* ChargedOnlyIfConnected: what the handlers, callbacks, POSTs and billing  *)
(* jobs in flight still say about a row that others are changing.           *)

\* Every handler and job in progress is about a row and, where it has chosen
\* one, a card.
Addressed ==
    /\ \A w \in Requests :
          req[w].op \notin {"idle", "create"} => req[w].c \in Consultations
    /\ \A j \in Jobs :
          /\ job[j].op # "idle" => job[j].c \in Consultations
          /\ job[j].op \in {"hold", "charge"} => job[j].card \in Cards

EmptyRows ==
    \A c \in Consultations :
       row[c].status = "none" => row[c].pi = NoCard /\ ~row[c].started /\ row[c].joined = {}

\* Acceptance needs a hold, a token needs acceptance, joining needs a token and
\* starting needs both parties: the chain from the hold to the call.
HoldBeforeCall ==
    \A c \in Consultations :
       /\ row[c].status = "accepted" => row[c].pi # NoCard
       /\ tokens[c] # {} => row[c].pi # NoCard
       /\ row[c].joined \subseteq tokens[c]
       /\ row[c].started => row[c].joined = Parties
       /\ row[c].status \in {"in_progress", "completed"} => row[c].started

LoginsHaveTokens ==
    \A e \in zego : e.event = "room_login" => e.by \in tokens[e.c]

\* What a handler remembers of its row is still true of it when it writes
HandlersRemember ==
    \A w \in Requests :
       /\ req[w].op = "accept" => row[req[w].c].pi # NoCard
       /\ req[w].op = "login" => row[req[w].c].joined = Parties
       /\ req[w].op \in {"end", "close"} /\ req[w].started => row[req[w].c].started

CapturesAreOfCalls ==
    /\ \A p \in posts : p.kind = "capture" => row[p.c].started
    /\ \A j \in Jobs :
          /\ job[j].op = "hold" => row[job[j].c].status # "none"
          /\ job[j].op \in {"capture", "charge", "record", "fail"} => row[job[j].c].started

MoneyIsOfCalls ==
    \A c \in Consultations :
       \/ charge[c] > 0
       \/ \E k \in Cards : hold[c][k].status = "succeeded"
       \/ \E d \in direct : d.c = c
       => row[c].started

IInv == /\ TypeOK
        /\ Addressed
        /\ EmptyRows
        /\ HoldBeforeCall
        /\ LoginsHaveTokens
        /\ HandlersRemember
        /\ CapturesAreOfCalls
        /\ MoneyIsOfCalls
        /\ CreditedOnce

-----------------------------------------------------------------------------
\* No request waits for ever: one that nobody answers, and an accepted call that
\* nobody joins, is given up by the sweep.
NoCallWaitsForever == \A c \in Consultations : []<>~Abandoned(c)

\* A completed call that took billable time is charged in the end, whatever
\* was lost on the way from engagement to billing to Stripe.
BillableCallIsCharged ==
    \A c \in Consultations : []<>~(Uncaptured(c) /\ charge[c] = 0)

\* The hold that a declined or failed call still names is given back in the end.
LiveHold(c) == row[c].pi # NoCard /\ hold[c][row[c].pi].status = "requires_capture"

FailedCallReleasesHold ==
    \A c \in Consultations :
       []<>~(row[c].status \in HOLD_RELEASE_STATUSES /\ LiveHold(c) /\ ~row[c].released)

=============================================================================
