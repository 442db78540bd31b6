-------------------------- MODULE ConsultationTable -------------------------
(***************************************************************************)
(* The "consultations" table and the internal HTTP calls between the two   *)
(* services that share it: engagement-service moves a row through the life *)
(* of a call, billing-service hangs the card hold and the charge on the    *)
(* same row.  PostgreSQL runs at READ COMMITTED, so one statement on one   *)
(* row is atomic and nothing longer is.                                    *)
(*                                                                         *)
(* The rows are those of one customer with one expert.  The statuses       *)
(* "ringing" and "canceled" exist in the enum but no code ever writes      *)
(* them; they are left out.                                                *)
(***************************************************************************)
EXTENDS Integers, FiniteSets, ConsultationMath

CONSTANTS
    Consultations,   \* ids of the rows that may be created
    Cards,           \* the customer's saved cards
    NoCard,          \* stands for stripePaymentIntentId = NULL
    NoCall,          \* no row
    RateCents,       \* the expert's listed rate per 30 minutes
    CallSeconds      \* the lengths, in stored seconds, a call may have

ASSUME CardsAssumption == NoCard \notin Cards
ASSUME CallsAssumption == NoCall \notin Consultations
ASSUME RateAssumption  == RateCents \in Nat
ASSUME SecondsAssumption == CallSeconds \subseteq Nat /\ 0 \in CallSeconds

VARIABLES
    row,     \* the consultations table
    posts    \* POSTs engagement has sent to billing and billing not yet served

Parties == {"customer", "expert"}

HOLDABLE_STATUSES == {"requested"}
ACTIVE_CONSULTATION_STATUSES == {"requested", "accepted", "in_progress"}
HOLD_RELEASE_STATUSES == {"declined", "failed"}
ConsultationStatus ==
    ACTIVE_CONSULTATION_STATUSES \cup HOLD_RELEASE_STATUSES \cup {"completed"}

(***************************************************************************)
(* A row.  started is "startedAt is set", released "holdReleasedAt is      *)
(* set".  pi is the card of the hold the row names: the hold's idempotency *)
(* key is (consultation, card, amount) and the amount is a function of the *)
(* consultation, so a card identifies the PaymentIntent.                   *)
(***************************************************************************)
Row == [status   : ConsultationStatus \cup {"none"},
        started  : BOOLEAN,
        joined   : SUBSET Parties,
        seconds  : CallSeconds,
        pi       : Cards \cup {NoCard},
        released : BOOLEAN,
        billing  : {"pending", "failed", "charged"}]

NoRow == [status |-> "none", started |-> FALSE, joined |-> {}, seconds |-> 0,
          pi |-> NoCard, released |-> FALSE, billing |-> "pending"]

Post == [kind : {"capture", "release"}, c : Consultations, seconds : CallSeconds]

capturePost(c, s) == [kind |-> "capture", c |-> c, seconds |-> s]
releasePost(c)    == [kind |-> "release", c |-> c, seconds |-> 0]

TableTypeOK ==
    /\ row \in [Consultations -> Row]
    /\ posts \subseteq Post

TableInit ==
    /\ row = [c \in Consultations |-> NoRow]
    /\ posts = {}

\* The price of a call of s seconds with this expert
ChargeCents(s) == computeConsultationChargeCents(RateCents, s)
=============================================================================
