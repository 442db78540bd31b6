------------------------------- MODULE Quotes -------------------------------
(***************************************************************************)
(* Quote requests (engagement-service): a customer asks an expert for a    *)
(* price, the expert opens the request and quotes or rejects it, the       *)
(* customer accepts, rejects or cancels, and a cron job expires what was   *)
(* not answered.                                                           *)
(*                                                                         *)
(* A handler loads the row to see whose it is, then opens a transaction    *)
(* that reads the status again and writes it by id.  The read takes no     *)
(* lock, so other transactions commit between the two: Read... and Commit  *)
(* are separate actions.  An edit of the words is one conditional UPDATE.  *)
(***************************************************************************)
EXTENDS Naturals, FiniteSets

CONSTANTS
    Quotes,           \* ids of quote requests
    CustomerDevices,  \* handlers the customer's apps may have running
    ExpertDevices,    \* handlers the expert's apps may have running
    Prices,           \* amounts an expert may quote
    MaxEdits,         \* bound on the edits of one request
    NoQuote

ASSUME QuotesAssumption ==
    /\ NoQuote \notin Quotes
    /\ CustomerDevices \cap ExpertDevices = {}
    /\ Prices \subseteq Nat \ {0}
    /\ MaxEdits \in Nat

VARIABLES
    quote,   \* rows of quote_requests
    handler, \* the transition each device's request is in
    listed,  \* the ids the running expiry job has selected
    crossed  \* history: quotes two requests of the expert's were under way on at once

quoteVars == <<quote, handler, listed, crossed>>

Devices    == CustomerDevices \cup ExpertDevices
Unanswered == {"submitted", "pending_expert_review"}
Editable   == {"draft", "expert_reviewed"} \cup Unanswered
Cancellable == Editable \cup {"quoted"}
\* Mutant: an expert may quote again over an open quotation.
QuotableAgain == {"pending_expert_review", "expert_reviewed", "quoted"}
Quotable   == {"pending_expert_review", "expert_reviewed"}
ExpertRejectable == Unanswered \cup {"expert_reviewed", "quoted"}
Resolved   == {"accepted", "rejected", "canceled", "expired"}
Statuses   == {"none"} \cup Cancellable \cup Resolved

(***************************************************************************)
(* words and files stand for what the customer asks: the text, budget and  *)
(* notes, and the attachments.  They only ever grow, so they are numbers   *)
(* of edits.  amount is 0 until the expert quotes.  agreed is the amount   *)
(* on the customer's screen when the acceptance was sent: the request      *)
(* carries only the id.                                                    *)
(***************************************************************************)
NoRequest == [status |-> "none", words |-> 0, files |-> 0, amount |-> 0, agreed |-> 0]
Idle      == [op |-> "idle", id |-> NoQuote, price |-> 0]

QuotesTypeOK ==
    /\ quote \in [Quotes -> [status : Statuses, words : 0..MaxEdits, files : Nat,
                             amount : {0} \cup Prices, agreed : {0} \cup Prices]]
    /\ handler \in [Devices -> [op : {"idle", "open", "quote", "reject", "accept", "cancel", "attach"},
                                id : Quotes \cup {NoQuote}, price : {0} \cup Prices]]
    /\ listed \subseteq Quotes /\ crossed \subseteq Quotes

QuotesInit ==
    /\ quote = [q \in Quotes |-> NoRequest]
    /\ handler = [d \in Devices |-> Idle]
    /\ listed = {} /\ crossed = {}

(***************************************************************************)
(* createQuote: whether the expert may be asked (profile, plan, blocks) is *)
(* read from rows of other components and may come out either way.  One    *)
(* transaction inserts the row as submitted and moves it on.               *)
(***************************************************************************)
createQuote(q) ==
    /\ quote[q].status = "none"
    /\ \E d \in CustomerDevices : handler[d] = Idle
    /\ quote' = [quote EXCEPT ![q].status = "pending_expert_review"]
    /\ UNCHANGED <<handler, listed, crossed>>

(***************************************************************************)
(* updateQuote: new words, with the files sent along, go in by an UPDATE   *)
(* that carries the condition on the status.  When only files are added    *)
(* the status is merely read first.                                        *)
(***************************************************************************)
\* Mutant: the status is checked on a row read earlier and not in the UPDATE.
updateQuoteUnchecked(q) ==
    /\ \E d \in CustomerDevices : handler[d] = Idle
    /\ quote[q].status # "none"
    /\ quote[q].words < MaxEdits
    /\ quote' = [quote EXCEPT ![q].words = @ + 1]
    /\ UNCHANGED <<handler, listed, crossed>>

updateQuote(q) ==
    /\ \E d \in CustomerDevices : handler[d] = Idle
    /\ quote[q].status \in Editable
    /\ quote[q].words < MaxEdits
    /\ quote' = [quote EXCEPT ![q].words = @ + 1]
    /\ UNCHANGED <<handler, listed, crossed>>

readForFiles(d, q) ==
    /\ handler[d] = Idle
    /\ quote[q].status \in Editable
    /\ quote[q].files + Cardinality({e \in Devices : handler[e].op = "attach"}) < MaxEdits
    /\ handler' = [handler EXCEPT ![d] = [op |-> "attach", id |-> q, price |-> 0]]
    /\ UNCHANGED <<quote, listed, crossed>>

(***************************************************************************)
(* The transition a request begins when it read the status its operation   *)
(* wants, and what recordQuoteTransition later writes by id.               *)
(***************************************************************************)
mayBegin(op, status) ==
    \/ op = "open"   /\ status = "pending_expert_review"
    \/ op = "quote"  /\ status \in Quotable
    \/ op = "accept" /\ status = "quoted"
    \/ op = "cancel" /\ status \in Cancellable

Crosses(d, q) == d \in ExpertDevices /\ \E e \in ExpertDevices : handler[e].id = q

begin(d, q, op, price) ==
    /\ handler[d] = Idle
    /\ handler' = [handler EXCEPT ![d] = [op |-> op, id |-> q, price |-> price]]
    /\ crossed' = IF Crosses(d, q) THEN crossed \cup {q} ELSE crossed
    /\ UNCHANGED <<quote, listed>>

getQuote(d, q)           == mayBegin("open", quote[q].status) /\ begin(d, q, "open", 0)
submitQuotation(d, q, p) == mayBegin("quote", quote[q].status) /\ begin(d, q, "quote", p)
cancelQuote(d, q)        == mayBegin("cancel", quote[q].status) /\ begin(d, q, "cancel", 0)
acceptQuote(d, q)        == mayBegin("accept", quote[q].status)
                            /\ begin(d, q, "accept", quote[q].amount)
rejectQuote(d, q) ==
    /\ \/ d \in ExpertDevices /\ quote[q].status \in ExpertRejectable
       \/ d \in CustomerDevices /\ quote[q].status = "quoted"
    /\ begin(d, q, "reject", 0)

StatusAfter == [open |-> "expert_reviewed", quote |-> "quoted", accept |-> "accepted",
                reject |-> "rejected", cancel |-> "canceled"]

\* The row as the transition leaves it.
Answered(h) ==
    [quote[h.id] EXCEPT !.status = StatusAfter[h.op],
                        !.amount = IF h.op = "quote" THEN h.price ELSE @,
                        !.agreed = IF h.op = "accept" THEN h.price ELSE @]

recordQuoteTransition(d) ==
    /\ handler[d].op \in DOMAIN StatusAfter
    /\ quote' = [quote EXCEPT ![handler[d].id] = Answered(handler[d])]
    /\ handler' = [handler EXCEPT ![d] = Idle]
    /\ UNCHANGED <<listed, crossed>>

addFiles(d) ==
    /\ handler[d].op = "attach"
    /\ quote' = [quote EXCEPT ![handler[d].id].files = @ + 1]
    /\ handler' = [handler EXCEPT ![d] = Idle]
    /\ UNCHANGED <<listed, crossed>>

(***************************************************************************)
(* expireStaleQuotes: the job lists what is old enough and expires it by   *)
(* id in a second statement.  Age is time: any unanswered request may be   *)
(* old enough.                                                             *)
(***************************************************************************)
Listable(q) == quote[q].status \in Unanswered

listStale(S) ==
    /\ listed = {} /\ S # {}
    /\ \A q \in S : Listable(q)
    /\ listed' = S
    /\ UNCHANGED <<quote, handler, crossed>>

expireListed ==
    /\ listed # {}
    /\ quote' = [q \in Quotes |-> IF q \in listed THEN [quote[q] EXCEPT !.status = "expired"]
                                  ELSE quote[q]]
    /\ listed' = {}
    /\ UNCHANGED <<handler, crossed>>

CustomerStep(d, q) ==
    \/ readForFiles(d, q) \/ acceptQuote(d, q) \/ rejectQuote(d, q) \/ cancelQuote(d, q)

ExpertStep(d, q) ==
    \/ getQuote(d, q) \/ rejectQuote(d, q)
    \/ \E p \in Prices : submitQuotation(d, q, p)

QuotesNext ==
    \/ \E q \in Quotes : createQuote(q) \/ updateQuote(q)
    \/ \E q \in Quotes, d \in CustomerDevices : CustomerStep(d, q)
    \/ \E q \in Quotes, d \in ExpertDevices : ExpertStep(d, q)
    \/ \E d \in Devices : recordQuoteTransition(d) \/ addFiles(d)
    \/ \E S \in SUBSET Quotes : listStale(S)
    \/ expireListed
=============================================================================
