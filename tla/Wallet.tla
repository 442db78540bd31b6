------------------------------- MODULE Wallet -------------------------------
(***************************************************************************)
(* The saved cards of one customer (billing-service).  A card is a token   *)
(* that the app made at Stripe; it can be charged once it is attached to   *)
(* the customer at Stripe that the profile names, and Stripe attaches no   *)
(* token a second time after it was detached.  Test tokens (pm_card_...),  *)
(* whose attachment may fail, are left out.                                *)
(***************************************************************************)
EXTENDS Naturals, SequencesExt

CONSTANTS
    Cards,            \* payment method tokens of the customer
    Retokenized,      \* those among them made from one physical card
    StripeCustomers,  \* ids of customers Stripe may create
    Errands,          \* requests of the customer handled at a time
    NoCustomer

ASSUME WalletAssumption ==
    /\ Retokenized \subseteq Cards
    /\ NoCustomer \notin StripeCustomers

VARIABLES
    customerId,  \* customer_profiles.stripe_customer_id
    made,        \* Stripe: the customers created for the profile
    attached,    \* Stripe: the customer of each token
    saved,       \* rows of payment_methods, in the order of creation
    errand,      \* where each request is
    unwanted     \* history: tokens whose removal was asked for

walletVars == <<customerId, made, attached, saved, errand, unwanted>>

SamePrint(k, j) == {k, j} \subseteq Retokenized

CardRows == [token : Cards, printed : BOOLEAN, isDefault : BOOLEAN]
Unsent   == [op |-> "idle"]

WalletTypeOK ==
    /\ customerId \in StripeCustomers \cup {NoCustomer} /\ made \subseteq StripeCustomers
    /\ attached \in [Cards -> StripeCustomers \cup {NoCustomer, "detached"}]
    /\ saved \in Seq(CardRows)
    /\ errand \in [Errands -> {Unsent, [op |-> "next"]}
          \cup [op : {"customer", "clear", "find"}, token : Cards, makeDefault : BOOLEAN]
          \cup [op : {"link", "attach"}, token : Cards, makeDefault : BOOLEAN,
                customer : StripeCustomers]
          \cup [op : {"count", "insert"}, token : Cards, makeDefault : BOOLEAN,
                printed : BOOLEAN]
          \cup [op : {"promote", "clearAll"}, token : Cards]
          \cup [op : {"detach", "delete"}, token : Cards, wasDefault : BOOLEAN]]
    /\ unwanted \subseteq Cards

WalletInit ==
    /\ customerId = NoCustomer /\ made = {}
    /\ attached = [k \in Cards |-> NoCustomer]
    /\ saved = <<>>
    /\ errand = [e \in Errands |-> Unsent]
    /\ unwanted = {}

Saved(k) == \E r \in ToSet(saved) : r.token = k
IsDefault(k) == \E r \in ToSet(saved) : r.token = k /\ r.isDefault

\* Writes to isDefault: of every row, and of the row with an id.
Cleared(rows) == [n \in DOMAIN rows |-> [rows[n] EXCEPT !.isDefault = FALSE]]
Promoted(rows, k) ==
    [n \in DOMAIN rows |-> [rows[n] EXCEPT !.isDefault = @ \/ rows[n].token = k]]

Now(e, step) == errand' = [errand EXCEPT ![e] = step]
At(e, op)    == errand[e].op = op

(***************************************************************************)
(* addPaymentMethod.  Reads the profile; creates the customer at Stripe    *)
(* and writes it by the profile's id; attaches the token, and gives up if  *)
(* that fails; clears the other defaults; reads the card's fingerprint, if *)
(* Stripe answers; looks for the token or the fingerprint among the rows;  *)
(* and inserts the row, unless the unique keys refuse it.                  *)
(***************************************************************************)
addPaymentMethod(e, k, makeDefault) ==
    /\ errand[e] = Unsent
    /\ Now(e, IF customerId = NoCustomer
              THEN [op |-> "customer", token |-> k, makeDefault |-> makeDefault]
              ELSE [op |-> "attach", token |-> k, makeDefault |-> makeDefault,
                    customer |-> customerId])
    /\ UNCHANGED <<customerId, made, attached, saved, unwanted>>

createStripeCustomer(e, c) ==
    /\ At(e, "customer") /\ c \notin made
    /\ made' = made \cup {c}
    /\ Now(e, [op |-> "link", token |-> errand[e].token,
               makeDefault |-> errand[e].makeDefault, customer |-> c])
    /\ UNCHANGED <<customerId, attached, saved, unwanted>>

linkCustomer(e) ==
    /\ At(e, "link")
    /\ customerId' = errand[e].customer
    /\ Now(e, [errand[e] EXCEPT !.op = "attach"])
    /\ UNCHANGED <<made, attached, saved, unwanted>>

AfterAttach(e) ==
    Now(e, [op |-> IF errand[e].makeDefault THEN "clear" ELSE "find",
            token |-> errand[e].token, makeDefault |-> errand[e].makeDefault])

Attachable(e) == attached[errand[e].token] \in {NoCustomer, errand[e].customer}

\* Mutant: a card that is refused is saved nevertheless.
attachOrNot(e) ==
    /\ At(e, "attach")
    /\ attached' \in {attached, [attached EXCEPT ![errand[e].token] = errand[e].customer]}
    /\ AfterAttach(e)
    /\ UNCHANGED <<customerId, made, saved, unwanted>>

attachPaymentMethod(e) ==
    /\ At(e, "attach") /\ Attachable(e)
    /\ attached' = [attached EXCEPT ![errand[e].token] = errand[e].customer]
    /\ AfterAttach(e)
    /\ UNCHANGED <<customerId, made, saved, unwanted>>

clearOthers(e) ==
    /\ At(e, "clear")
    /\ saved' = Cleared(saved)
    /\ Now(e, [errand[e] EXCEPT !.op = "find"])
    /\ UNCHANGED <<customerId, made, attached, unwanted>>

\* A row of the token, or one with the fingerprint of the token.
Matches(r, k, printed) == r.token = k \/ (printed /\ r.printed /\ SamePrint(r.token, k))

findExistingCard(e, printed) ==
    LET k == errand[e].token IN
    /\ At(e, "find")
    /\ \/ \E r \in ToSet(saved) :
             /\ Matches(r, k, printed)
             /\ Now(e, IF r.token = k /\ errand[e].makeDefault /\ ~r.isDefault
                       THEN [op |-> "promote", token |-> k] ELSE Unsent)
       \/ /\ \A r \in ToSet(saved) : ~Matches(r, k, printed)
          /\ Now(e, [op |-> IF errand[e].makeDefault THEN "insert" ELSE "count", token |-> k,
                     makeDefault |-> errand[e].makeDefault, printed |-> printed])
    /\ UNCHANGED <<customerId, made, attached, saved, unwanted>>

\* The first card becomes the default, unless the app says no.
countCards(e) ==
    /\ At(e, "count")
    /\ \E isFirst \in {FALSE, saved = <<>>} :
          Now(e, [errand[e] EXCEPT !.op = "insert", !.makeDefault = isFirst])
    /\ UNCHANGED <<customerId, made, attached, saved, unwanted>>

insertCard(e) ==
    /\ At(e, "insert")
    /\ saved' = IF \E r \in ToSet(saved) : Matches(r, errand[e].token, errand[e].printed)
                THEN saved
                ELSE Append(saved, [token |-> errand[e].token, printed |-> errand[e].printed,
                                    isDefault |-> errand[e].makeDefault])
    /\ Now(e, Unsent)
    /\ UNCHANGED <<customerId, made, attached, unwanted>>

\* By the row's id, in an add of a saved token, a removal or a change of default.
promote(e) ==
    /\ At(e, "promote")
    /\ saved' = Promoted(saved, errand[e].token)
    /\ Now(e, Unsent)
    /\ UNCHANGED <<customerId, made, attached, unwanted>>

(***************************************************************************)
(* removePaymentMethod.  Finds the row, detaches the token if Stripe       *)
(* answers, deletes the row, and if that was the default makes the newest  *)
(* row the default.                                                        *)
(***************************************************************************)
removePaymentMethod(e, k) ==
    /\ errand[e] = Unsent /\ Saved(k)
    /\ unwanted' = unwanted \cup {k}
    /\ Now(e, [op |-> "detach", token |-> k, wasDefault |-> IsDefault(k)])
    /\ UNCHANGED <<customerId, made, attached, saved>>

detachPaymentMethod(e, answered) ==
    /\ At(e, "detach")
    /\ attached' = IF answered THEN [attached EXCEPT ![errand[e].token] = "detached"] ELSE attached
    /\ Now(e, [errand[e] EXCEPT !.op = "delete"])
    /\ UNCHANGED <<customerId, made, saved, unwanted>>

deleteCard(e) ==
    /\ At(e, "delete")
    /\ \/ /\ \E n \in DOMAIN saved :
                saved[n].token = errand[e].token /\ saved' = RemoveAt(saved, n)
          /\ Now(e, IF errand[e].wasDefault THEN [op |-> "next"] ELSE Unsent)
       \/ ~Saved(errand[e].token) /\ Now(e, Unsent) /\ UNCHANGED saved
    /\ UNCHANGED <<customerId, made, attached, unwanted>>

findNext(e) ==
    /\ At(e, "next")
    /\ Now(e, IF saved = <<>> THEN Unsent ELSE [op |-> "promote", token |-> Last(saved).token])
    /\ UNCHANGED <<customerId, made, attached, saved, unwanted>>

\* setDefaultPaymentMethod: finds the row, clears all, sets the row by id.
setDefaultPaymentMethod(e, k) ==
    /\ errand[e] = Unsent /\ Saved(k)
    /\ Now(e, [op |-> "clearAll", token |-> k])
    /\ UNCHANGED <<customerId, made, attached, saved, unwanted>>

clearAll(e) ==
    /\ At(e, "clearAll")
    /\ saved' = Cleared(saved)
    /\ Now(e, [errand[e] EXCEPT !.op = "promote"])
    /\ UNCHANGED <<customerId, made, attached, unwanted>>

\* A restart, or a refusal of Stripe that ends the request with a 502.
giveUp(e) ==
    /\ errand[e] # Unsent
    /\ Now(e, Unsent)
    /\ UNCHANGED <<customerId, made, attached, saved, unwanted>>

WalletNext ==
    \E e \in Errands :
       \/ \E k \in Cards :
             \/ \E d \in BOOLEAN : addPaymentMethod(e, k, d)
             \/ removePaymentMethod(e, k) \/ setDefaultPaymentMethod(e, k)
       \/ \E c \in StripeCustomers : createStripeCustomer(e, c)
       \/ linkCustomer(e) \/ attachPaymentMethod(e) \/ clearOthers(e)
       \/ \E b \in BOOLEAN : findExistingCard(e, b) \/ detachPaymentMethod(e, b)
       \/ countCards(e) \/ insertCard(e) \/ promote(e)
       \/ deleteCard(e) \/ findNext(e) \/ clearAll(e) \/ giveUp(e)

(***************************************************************************)
(* A card the customer sees, and has not asked to remove, can be charged:  *)
(* it is attached to the customer the profile names, whatever requests     *)
(* overlap, fail at Stripe or are cut off by a restart.  Two first cards   *)
(* added at once are the exception: each creates a customer at Stripe.     *)
(***************************************************************************)
SavedCardCanBeCharged ==
    made = {customerId} => \A r \in ToSet(saved) :
        r.token \notin unwanted => attached[r.token] = customerId
=============================================================================
