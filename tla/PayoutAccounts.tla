--------------------------- MODULE PayoutAccounts ---------------------------
(***************************************************************************)
(* The account an expert is paid into (billing-service): created at Stripe *)
(* on the first visit, written on the profile, completed by the expert on  *)
(* Stripe's pages, and its readiness for transfers kept on the profile.    *)
(*                                                                         *)
(* Older app builds have forms of their own, which work on accounts of the *)
(* older kind; the first submission of one creates such an account with    *)
(* the expert's details in it, and writes it on the profile by id.         *)
(***************************************************************************)
EXTENDS Naturals

CONSTANTS
    Accounts,     \* ids of connected accounts Stripe may create
    Visits,       \* requests of the expert, or checks before a transfer, at a time
    MaxLosses,    \* bound on lost answers, restarts and forgotten keys
    NoConnected

ASSUME PayoutAccountsAssumption == NoConnected \notin Accounts /\ MaxLosses \in Nat

VARIABLES
    connected,  \* Stripe: the connected accounts
    keyed,      \* Stripe: the account the expert's idempotency key stands for
    updates,    \* Stripe: account.updated events to deliver
    profile,    \* expert_profiles: stripe_account_id, stripe_transfers_active
    visit,      \* where each request is
    sentTo,     \* history: accounts the expert was sent to or gave details of
    orphaned,   \* history: an older form left behind an account that has details
    losses

payoutAccountVars == <<connected, keyed, updates, profile, visit, sentTo, orphaned, losses>>

Uncreated == [kind |-> "none", transfers |-> FALSE]
Away      == [op |-> "idle", account |-> NoConnected]

PayoutAccountsTypeOK ==
    /\ connected \in [Accounts -> [kind : {"none", "recipient", "custom"}, transfers : BOOLEAN]]
    /\ keyed \in Accounts \cup {NoConnected}
    /\ updates \subseteq [account : Accounts, transfers : BOOLEAN]
    /\ profile \in [account : Accounts \cup {NoConnected}, ready : BOOLEAN]
    /\ visit \in [Visits ->
          [op : {"idle", "create", "save", "reread", "link", "dashboard", "form",
                 "createCustom", "saveCustom"},
           account : Accounts \cup {NoConnected}]
          \cup [op : {"cache"}, account : Accounts, transfers : BOOLEAN]]
    /\ sentTo \subseteq Accounts /\ orphaned \in BOOLEAN
    /\ losses \in 0..MaxLosses

PayoutAccountsInit ==
    /\ connected = [a \in Accounts |-> Uncreated]
    /\ keyed = NoConnected /\ updates = {}
    /\ profile = [account |-> NoConnected, ready |-> FALSE]
    /\ visit = [v \in Visits |-> Away]
    /\ sentTo = {} /\ orphaned = FALSE /\ losses = 0

Legacy(a) == a # NoConnected /\ connected[a].kind = "custom"

Goto(v, op, a) == visit' = [visit EXCEPT ![v] = [op |-> op, account |-> a]]

(***************************************************************************)
(* getConnectOnboardingLink: without an account on the profile, creates    *)
(* one under the expert's key, writes it if there is still none, and reads *)
(* back which one it is; then asks for a link into that account.           *)
(***************************************************************************)
getConnectOnboardingLink(v) ==
    /\ visit[v] = Away
    /\ Goto(v, IF profile.account = NoConnected THEN "create" ELSE "link", profile.account)
    /\ UNCHANGED <<connected, keyed, updates, profile, sentTo, orphaned, losses>>

Created(a, kind) ==
    /\ connected[a] = Uncreated
    /\ connected' = [connected EXCEPT ![a].kind = kind]

createRecipientAccount(v, a) ==
    /\ visit[v].op = "create"
    /\ \/ keyed = NoConnected /\ Created(a, "recipient") /\ keyed' = a
       \/ keyed = a /\ UNCHANGED <<connected, keyed>>
    /\ Goto(v, "save", a)
    /\ UNCHANGED <<updates, profile, sentTo, orphaned, losses>>

\* Mutant: the account is written by the id of the profile.
saveAccountById(v) ==
    /\ visit[v].op = "save"
    /\ profile' = [account |-> visit[v].account, ready |-> FALSE]
    /\ Goto(v, "reread", visit[v].account)
    /\ UNCHANGED <<connected, keyed, updates, sentTo, orphaned, losses>>

saveAccount(v) ==
    /\ visit[v].op = "save"
    /\ profile' = IF profile.account = NoConnected
                  THEN [account |-> visit[v].account, ready |-> FALSE] ELSE profile
    /\ Goto(v, "reread", visit[v].account)
    /\ UNCHANGED <<connected, keyed, updates, sentTo, orphaned, losses>>

rereadAccount(v) ==
    /\ visit[v].op = "reread"
    /\ Goto(v, "link", profile.account)
    /\ UNCHANGED <<connected, keyed, updates, profile, sentTo, orphaned, losses>>

SendTo(v) ==
    /\ visit' = [visit EXCEPT ![v] = Away]
    /\ sentTo' = sentTo \cup {visit[v].account}

createOnboardingLink(v) ==
    /\ visit[v].op = "link"
    /\ SendTo(v)
    /\ UNCHANGED <<connected, keyed, updates, profile, orphaned, losses>>

(***************************************************************************)
(* Readiness.  getConnectStatus and the check before a transfer ask Stripe *)
(* about the account they read on the profile, and account.updated tells;  *)
(* each then writes the flag of the profile that has this account.         *)
(***************************************************************************)
getConnectStatus(v) ==
    LET a == profile.account IN
    /\ visit[v] = Away /\ a # NoConnected
    /\ visit' = [visit EXCEPT ![v] = [op |-> "cache", account |-> a,
                                      transfers |-> connected[a].transfers]]
    /\ UNCHANGED <<connected, keyed, updates, profile, sentTo, orphaned, losses>>

Cached(a, transfers) ==
    IF profile.account = a THEN [profile EXCEPT !.ready = transfers] ELSE profile

cachePayoutReadiness(v) ==
    /\ visit[v].op = "cache"
    /\ profile' = Cached(visit[v].account, visit[v].transfers)
    /\ visit' = [visit EXCEPT ![v] = Away]
    /\ UNCHANGED <<connected, keyed, updates, sentTo, orphaned, losses>>

accountUpdated(e) ==
    /\ e \in updates /\ updates' = updates \ {e}
    /\ profile' = Cached(e.account, e.transfers)
    /\ UNCHANGED <<connected, keyed, visit, sentTo, orphaned, losses>>

\* Of the account read on the profile, Stripe is asked whether it may be opened.
getConnectDashboardLink(v) ==
    /\ visit[v] = Away /\ profile.account # NoConnected
    /\ Goto(v, "dashboard", profile.account)
    /\ UNCHANGED <<connected, keyed, updates, profile, sentTo, orphaned, losses>>

createDashboardLoginLink(v) ==
    LET a == visit[v].account IN
    /\ visit[v].op = "dashboard"
    /\ IF ~Legacy(a) /\ connected[a].transfers
       THEN SendTo(v) ELSE visit' = [visit EXCEPT ![v] = Away] /\ UNCHANGED sentTo
    /\ UNCHANGED <<connected, keyed, updates, profile, orphaned, losses>>

(***************************************************************************)
(* The older forms.  submitCustomConnectKyc updates the account it read on *)
(* the profile if it is of the older kind, or creates one from the details *)
(* and writes it by id; attachBankAccount gives it a bank account.         *)
(***************************************************************************)
submitCustomConnectKyc(v) ==
    /\ visit[v] = Away
    /\ Goto(v, IF profile.account = NoConnected THEN "createCustom" ELSE "form", profile.account)
    /\ UNCHANGED <<connected, keyed, updates, profile, sentTo, orphaned, losses>>

attachBankAccount(v) ==
    /\ visit[v] = Away /\ profile.account # NoConnected
    /\ Goto(v, "form", profile.account)
    /\ UNCHANGED <<connected, keyed, updates, profile, sentTo, orphaned, losses>>

\* updateCustomConnectAccount, or attachExternalBankAccount.
fillForm(v) ==
    /\ visit[v].op = "form"
    /\ IF Legacy(visit[v].account)
       THEN SendTo(v) ELSE visit' = [visit EXCEPT ![v] = Away] /\ UNCHANGED sentTo
    /\ UNCHANGED <<connected, keyed, updates, profile, orphaned, losses>>

createCustomConnectAccount(v, a) ==
    /\ visit[v].op = "createCustom"
    /\ Created(a, "custom") /\ sentTo' = sentTo \cup {a}
    /\ Goto(v, "saveCustom", a)
    /\ UNCHANGED <<keyed, updates, profile, orphaned, losses>>

saveCustomAccount(v) ==
    /\ visit[v].op = "saveCustom"
    /\ profile' = [profile EXCEPT !.account = visit[v].account]
    /\ visit' = [visit EXCEPT ![v] = Away]
    /\ orphaned' = (orphaned \/ profile.account # NoConnected)
    /\ UNCHANGED <<connected, keyed, updates, sentTo, losses>>

(***************************************************************************)
(* Stripe verifies or restricts an account the expert completed; answers   *)
(* are lost, the process restarts, and Stripe forgets idempotency keys.    *)
(***************************************************************************)
StripeVerifies(a) ==
    /\ a \in sentTo
    /\ connected' = [connected EXCEPT ![a].transfers = ~@]
    /\ updates' = updates \cup {[account |-> a, transfers |-> ~connected[a].transfers]}
    /\ UNCHANGED <<keyed, profile, visit, sentTo, orphaned, losses>>

Lost == losses < MaxLosses /\ losses' = losses + 1

RequestLost(v) ==
    /\ Lost /\ visit[v] # Away
    /\ visit' = [visit EXCEPT ![v] = Away]
    /\ orphaned' = (orphaned \/ visit[v].op = "saveCustom")
    /\ UNCHANGED <<connected, keyed, updates, profile, sentTo>>

KeyForgotten ==
    /\ Lost /\ keyed # NoConnected
    /\ keyed' = NoConnected
    /\ UNCHANGED <<connected, updates, profile, visit, sentTo, orphaned>>

PayoutAccountsNext ==
    \/ \E v \in Visits :
          \/ getConnectOnboardingLink(v) \/ saveAccount(v) \/ rereadAccount(v)
          \/ createOnboardingLink(v)
          \/ getConnectStatus(v) \/ cachePayoutReadiness(v)
          \/ getConnectDashboardLink(v) \/ createDashboardLoginLink(v)
          \/ submitCustomConnectKyc(v) \/ attachBankAccount(v) \/ fillForm(v)
          \/ saveCustomAccount(v)
          \/ \E a \in Accounts : createRecipientAccount(v, a) \/ createCustomConnectAccount(v, a)
          \/ RequestLost(v)
    \/ \E e \in updates : accountUpdated(e)
    \/ \E a \in Accounts : StripeVerifies(a)
    \/ KeyForgotten

(***************************************************************************)
(* What the expert completes is what the payouts go to: every account the  *)
(* expert was sent to, or that took the expert's details, is the one on    *)
(* the profile or about to be written there, although a double tap, a lost *)
(* answer and a forgotten key may create two accounts at Stripe.  Excepted *)
(* is a first submission of an older form that loses its answer, or is     *)
(* written over the account another request saved meanwhile: the code then *)
(* leaves an account with the expert's details behind.                     *)
(***************************************************************************)
BeingSaved == {visit[v].account : v \in {w \in Visits : visit[w].op = "saveCustom"}}

SentToOneAccount == orphaned \/ sentTo \subseteq {profile.account} \cup BeingSaved
=============================================================================
