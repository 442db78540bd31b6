# XprtLink backend: TLA+ models, checks and proofs

XprtLink connects customers with experts: a customer requests a video call, a
card hold is placed, the expert accepts, both meet in a ZEGO room, and at the
end the call is priced, charged and credited to the expert. Experts pay for a
subscription in an app store or on the website to be listed; around the calls
there are quotes, reviews, transcripts and messages, and around the accounts
sign-up, tokens, cards, payout accounts, banners, notifications and an admin
portal. The backend is ten Express services on one PostgreSQL database (Prisma,
READ COMMITTED), Stripe, ZEGO, two app stores, Firebase and a handful of PM2 cron
jobs.

This directory models what happens where those actors meet on shared state.
Paths below are relative to the repository; E stands for
`services/engagement-service/src/services/engagementService.js`, Z for
`zegoCallbackService.js` and T for `transcriptService.js` beside it, B for
`services/billing-service/src/services/billingService.js`, S for
`stripeService.js` beside it, U for
`services/user-service/src/services/userService.js`.

## 1. Inventory

| Part | State | Operations | What is hard about it |
|---|---|---|---|
| **Call lifecycle** (E 952-1316, Z) | `consultations.status`, `startedAt`, `joinedParticipantIds`, `durationSeconds`; in memory: `disconnectTimers` | create, accept, decline, end, video token; room_login, room_logout, room_close, timer | handlers read a row, await, and write by id; callbacks lost, repeated and reordered; timers lost on restart |
| **Holds and settlement** (B 262-852, S) | `stripePaymentIntentId`, `holdReleasedAt`, `billingStatus`; `consultation_charges`, `expert_earnings_ledger`; at Stripe: PaymentIntents and idempotency keys | hold, capture, pay by hand, release; sweeps `retryFailedCaptures`, `releaseStaleHolds`; PaymentIntent webhooks | three entries into one settlement; lost Stripe answers; expiring holds; lost POSTs from engagement; restarts |
| **Pricing** (`shared/lib/consultationBilling.js`) | none | minutes, charge, commission, hold minimum | rounding, minimums |
| **Refunds, disputes** (B 866-965, 1295-1479) | ledger `holdReason`, `billingStatus`, `disputeStatus`, transactions | refund, dispute opened/closed, Dashboard refunds | webhooks that repeat and overtake; against payouts that claim the same rows |
| **Payouts** (B 2704-3371) | `expert_payouts`, ledger `payoutId` | run, pay now, retry, reconcile, split, mark as settled; transfer webhooks | claims from stale reads; a transfer sent and not recorded; keys that expire after 24 h |
| **Quotes** (E 240-837, `crons/expireQuotes.js`) | `quote_requests.status`, price, brief | create, update, open, submit, accept, reject, cancel, expire | status re-read in a transaction without a row lock; a cron that writes by id |
| **Reviews** (E 1351-1447, `shared/utils/rating.js`) | one review per consultation, `rating_avg`, `rating_count` | submit, hide, publish | a recalculation from a snapshot older than the lock |
| **Transcription** (T, `zegoAsrClient.js`) | `consultation_transcripts.status`, segments; at ZEGO: the task | start, stop, ASR callbacks, idle stop | start in flight while the call ends; words out of order |
| **Subscriptions** (B 1481-1526, 2047-2627, `subscription*.js`, app-store controllers) | `expert_subscriptions`, the expert's listing; at three stores: purchases | verify, restore, checkout, cancel, repair, nightly sweep; notifications; approval and edits in the portal | one purchase claimed twice; late and reordered notifications against repairs and sweeps |
| **Sign-up, login, OTP** (U, `shared/auth/otp.js`) | `users`, profiles, `otp_challenges` | register, send, verify, add a role, change phone, social sign-up, portal edits | checks before an await; a column with two meanings |
| **Tokens and sockets** (`shared/auth/tokens.js`, `shared/middleware/auth.js`) | `refresh_tokens`, status caches, sockets, presence timers | login, refresh, logout, suspend, remove | parallel refreshes; caches of a minute in every process |
| **Messaging** (`messaging-service`) | `conversations.last_message_at`, messages, `conversation_read_states`, deletions, rooms | create, send, join, load, inbox, read, delete, block | history loaded while messages are emitted; read stamps against inserts; messages committed out of order |
| **Files** (`media-service`, `shared/utils/s3.js`, messaging 560-660) | `media_assets` rows; at S3: objects under temp/ and permanent keys | ask for a link, upload, confirm, send in a message | a move is a copy, a delete and a write by id, in two services' requests at once |
| **Payment methods** (B 51-259) | `payment_methods`, Stripe's customer | add, remove, set default | two writes for one fact, here and at Stripe |
| **Payout accounts** (B 1041-1290) | `stripe_account_id`, readiness | onboard (hosted, native), status, account.updated | two taps create two accounts |
| **Website plans** (B 1481-1526, 3408-3551, `portalProducts.js`) | `subscription_plans` prices; at Stripe: products, prices | price, checkout, portal, switch | search at Stripe lags; prices change under an open portal |
| **Admins** (`admin-service`: admins, auth) | `admin_users`, invites, permissions, `admin_sessions` | invite, accept, edit, grant; login, refresh, logout | double acceptance; two tabs refresh one session |
| **Live events** (`ssePoller.js`, `sseHub.js`) | cursors, open streams | poll, connect, catch up | overlapping polls advance one cursor |
| **Banners** (`banners.controller.js`, moderation) | `expert_banners`, clicks, daily stats | upload, review, switch, tap, view | double taps, quota check before insert |
| **Notifications** (`notification-service`) | `device_tokens`, `notifications`, preferences | register, remove, dispatch, read, clear | phones that change hands under a dispatch |
| **Expert profiles, catalogue, support, gateway** | mostly independent rows | reads and row edits | little interaction with the rest |

How the parts interact: the two services of the first two rows write **the same
row** of `consultations` and otherwise only meet in internal POSTs
(`/capture`, `/release-hold`) that engagement sends after its own commit and
whose failure it swallows. ZEGO calls engagement, Stripe and the app stores call
billing, each at least once in no order, or not at all. PM2 launches the sweeps
(`ecosystem.config.cjs`). Payouts, refunds, invoices and the admin portal read
what settlement wrote. A subscription decides whether an expert is listed, an
admin's decision on a user's status reaches messaging-service by a POST and all
other services only when their cache of it expires.

What makes each part correct:

* lifecycle: a call reaches the room only through hold, acceptance and token;
  a request nobody answers is given up;
* settlement: one charge per call, backed by money Stripe took, not more than
  the price, never for a call that did not connect, never undone; every
  billable call charged in the end, every hold given back in the end;
* payouts: an earning is paid at most once and its parts add up; none of it stays
  on its way; refunds are recorded only when the money went back, and no new
  payout takes what is disputed;
* quotes: a customer accepts a price seen, and priced words stay as they were;
* recording: no task outlives its call, and final words are kept;
* subscriptions: one live plan per account, one owner per paid purchase, nobody
  listed without a plan; plans: the price shown is charged, the plan paid for is
  granted;
* accounts: one account per address, no app request makes an account that may
  sign in without a profile, a verified phone was proved; a session survives its
  own refreshes and ends with a suspension;
* messaging: who has a thread open sees all of it, a message is unread until it
  was looked at, and what is unread is in the inbox; a file is where its row says;
* the rest: counters equal what they count, a device has one owner, a saved card
  can be charged, an expert is onboarded into one account.

## 2. Modules

| Module | Models |
|---|---|
| `ConsultationMath` | the pricing helpers, in integer cents |
| `ConsultationTable` | the shared row, the POSTs between the services, status sets |
| `Calls` | engagement-service's calls and, as its environment, the ZEGO room |
| `CallBilling` | holds and settlement in billing-service and, as its environment, Stripe |
| `CallSystem` | their interleaving, fairness, and all properties of a call |
| `CallSystemProofs` | the theorems about calls |
| `EarningsTable` | what payouts and refunds share: billing columns, ledger, payouts, webhooks |
| `Payouts` | payout requests, retries, "mark as settled", transfer webhooks; Stripe transfers |
| `Refunds` | refund requests, refund and dispute webhooks; Stripe refunds and disputes |
| `IdealEarnings` | abstract: what the ledger promises of each row |
| `Earnings` | `Payouts` and `Refunds` interleaved, fairness, all properties, the refinement |
| `EarningsProofs` | the theorems about earnings |
| `SubscriptionTable` | subscription rows, the listing of an expert, statuses and entitlement |
| `Stores` | the two app stores and Stripe: purchases, periods, notifications |
| `Subscriptions` | verification, checkout, notifications, repairs, cancellation, nightly sweep |
| `SubscriptionSystem` | with documents, approval, portal edits and removal; fairness, properties |
| `AccountTable` | user rows with their profiles, codes, the unique indexes |
| `SubscriptionProofs` | the theorems about subscriptions |
| `SignUp` | register, send and enter codes, add a role, change phone, social sign-up |
| `AccountSystem` | with the portal's edits of an account; properties |
| `AccountProofs` | the theorems about accounts |
| `Quotes`, `Reviews`, `Transcripts`, `Chats`, `Files`, `Sessions` | one component each, with its properties |
| `AroundCalls` | these six side by side |
| `AroundCallsProofs` | the theorems about them |
| `Admins`, `AdminSessions`, `AdminFeed`, `Wallet`, `PayoutAccounts`, `WebPlans`, `Banners`, `Notices` | one component each, with its properties |
| `AroundAccounts` | these eight side by side |
| `AroundAccountsProofs` | the theorems about them |
| `FiniteSums` | lemmas about sums over finite sets, for the theorems that add something up |
| `MCCallSystem`, `MCEarnings`, `MCSubscriptions`, `MCAccounts`, `MCAroundCalls`, `MCAroundAccounts` | instances for TLC: constants, reduced initial states, scenes |

`CallSystem` EXTENDS `Calls` and `CallBilling`, which both EXTEND
`ConsultationTable`; `Earnings` EXTENDS `Payouts` and `Refunds`, which both
EXTEND `EarningsTable`. Both tables EXTEND `ConsultationMath`. The two systems
meet in one transaction, in which a settlement records its charge and credits
the expert: it is the last step of a call in `CallBilling` and the first step
of an earning in `EarningsTable`, both called `SettleRecords`. `Subscriptions`
EXTENDS `Stores`, which EXTENDS `SubscriptionTable`; `SignUp` EXTENDS
`AccountTable`. The components of `AroundCalls` and of `AroundAccounts` neither
read nor write each other's state; their next-state relations are disjoined so
that one run checks them all.

### The call

**State.** `row[c]` is a row of `consultations`: `started` and `released` say
that `startedAt` and `holdReleasedAt` are set, `joined` is
`joinedParticipantIds`, `seconds` is `durationSeconds`, and `pi` is the card of
the hold that `stripePaymentIntentId` names. A card identifies the hold because
Stripe's idempotency key is (consultation, card, amount) and the amount is
taken to be the minimum the server computes from the rate. `posts` are internal POSTs
under way. `req[w]` is a slot for a handler in progress in engagement with what
it has read, `timer` is `disconnectTimers`; `tokens`, `room` and `zego` are
ZEGO's side. `job[j]` is a billing request in progress; `hold`, `direct` and
`declined` are Stripe's answers by key, `hooks` its undelivered webhooks,
`voids` the fire-and-forget cancellations; `charge` and `credited` are the two
tables the settlement transaction writes.

**Grain.** One statement on one row is one step. A handler is split wherever it
awaits between a read and the write based on it: `createConsultation` reads,
then `CreateFailsGhost` writes one ghost after another, then `CreateInserts`;
`acceptConsultation` reads the hold, `AcceptUpdates` runs the guarded update;
`endConsultation`/`EndUpdates`, `handleUserLogin`/`LoginUpdates`,
`handleUserLogout`/`LogoutArmsTimer`, `handleRoomClose`/`RoomCloseUpdates`
likewise; `holdConsultationFunds` reads and authorises, `HoldPersists` writes;
a settlement is `Settles`, `CaptureHold`, `ChargeRemainder` and one of
`SettleRecords` or `SettleFails`; a release is `Releases`, `ReleaseStamps`.
Reads that need not be separate are merged where no write of another
handler in between could change the outcome: `handleUserLogin` decides on the
row its last statement returned; a settlement's own read and the first
Stripe read are separate steps.

**Faults.** `FaultKinds` and `MaxFaults` bound what goes wrong: "stripe" (a
request fails before it has an effect), "lost" (its answer is lost after the
effect), "restart" (billing loses its requests and its fire-and-forget calls),
"expiry" (Stripe cancels an uncaptured hold). Lost, repeated and reordered ZEGO
callbacks, lost POSTs, delayed webhooks and engagement's restarts are not
bounded.

### The earnings of an expert

**State.** `call[c]` holds `billingStatus`, `disputeStatus` and
`needsAdminReview`. `ledger[r]` is a row of `expert_earnings_ledger`; since
paying an exact amount splits a row in two, a row is named (consultation, part)
and part 0 is the one the settlement writes; `held` says that `holdReason` is
set. `payout[p]` is a row of `expert_payouts`; its `rows` is history and no
column: which rows the payout was made from, also after a reversal has taken
them off it. `events` are Stripe's webhooks not yet acknowledged. `run[w]` is a
slot for a payout request or a transfer webhook in progress with what it has
read, `task[k]` one for a refund request or one of its webhooks. At Stripe,
`transfers[p]` are the transfers made for a payout, live or reversed, and
`key[p]` the one its idempotency key stands for; `refunds` and `disputes` are
what happened to each payment of a call, `txn` and `recorded` what
`transactions` says about it. One expert is modelled: experts share no rows.

**Grain.** A payout request reads what is owed (`runPayouts`, `payExpertNow`),
claims it for a new payout in one transaction (`createPayoutForLedgerRows`, or
`ClaimConflicts`, or `NotPayable`), sends the transfer (`sendPayoutTransfer`)
and records what came of it (`RecordsOutcome`). A retry looks first
(`reattemptFailedPayouts`, `reconcileSentTransfer`), and then sends or records.
`refundConsultation` checks, then `RefundsPayment` asks Stripe for one payment
after the other, then `RefundRecords` writes. A webhook reads its context, does
its work in one transaction and is acknowledged in a third step, so two
deliveries of one event may overlap.

**Faults.** "stripe", "lost" and "restart" as above; "refused" (no Connect
account, too little balance, a payout with the same period: the request ends
with nothing done); "reversal" (Stripe or an admin reverses a transfer);
"expiry" (Stripe forgets a key, a day after the transfer, when nothing about
the payout is under way any more). Which refunds and disputes happen is
`Takebacks`; they are not faults and not bounded by `MaxFaults`.

### Subscriptions

**State.** `sub` are rows of `expert_subscriptions`, named by the purchase they
came from, with owner, status, plan and the period they are paid until (time is
counted in billing periods of each purchase); `profile`
holds the columns that decide whether an expert is listed. `store` is what each
store knows of a purchase, `checkout` the open Checkout sessions, `hooks` the
notifications to be delivered, once more or never. `job` is a request in
progress with what it has read, `sweep` the nightly job, `heals` the repairs
that `getExpertProfile` has begun.

**Grain.** `activateStoreSubscription` takes its advisory locks and writes in one
step, since nobody else of that kind can come in between; a Checkout webhook,
which takes no lock, reads in one step and inserts in another. What is asked of
the store before the locks is read in a step of its own. A notification reads
its row and writes by id. The sweep lists, then writes row by row.

### Accounts

**State.** `account[u]` is a row of `users` with its profiles; `codes` is the
sequence of `otp_challenges`, newest last, since the code decides by recency;
`request[c]` is a client's request with what it has checked. Passwords, names
and tokens are left out. **Grain.** The checks before a transaction are a step,
the transaction is another, and the partial unique indexes of the migration
decide at the write. The portal's edits ask nothing of the row they write
(`customers.controller.js` 124-173), only its deletion asks for a profile.

### Around the calls

* `Quotes`: `quote[q]` is a row, `handler[d]` the transition a device's request
  is in; a transition reads outside, re-reads in the transaction and writes by
  id. The expiry job lists and then writes.
* `Reviews`: inserting, hiding and publishing are a transaction whose
  recalculation waits for the expert's row and has read before.
* `Transcripts`: the callbacks of the room, `runStart`, the stops of two
  callers, ZEGO's task and its callbacks about the task and about words.
* `Chats`: one conversation of two sides, each on several clients, from its
  creation on; `room` and `loaded` tell joining from having read the history,
  `lastAt` is `last_message_at`. A message is stamped when its transaction
  begins and seen when it commits; `overtaken` is history: the messages
  committed before an earlier one.
* `Files`: rows of `media_assets` and the objects at S3; `sending` is the
  `sendMessage` a request is in, between copy, delete and write.
* `Sessions`: the refresh tokens and sockets of one account, caches of its
  status, and the portal's requests with what they have left to do. Rotating,
  issuing and the answer that the device stores are three steps, any request or
  answer may be lost, and the 30 s of a revoked token may end at any time
  (`GraceEnds`); `entitled` is history, and ends when they end for a token that
  is still in use. `crowded` is history: sockets opened within half a second.

### Around the accounts

* `Admins`: one e-mail address with its account, invitations and requests; row
  locks of the permission rows are modelled, since two grants may deadlock.
* `AdminSessions`: one browser with several tabs, each of which may sign in and
  refresh; `cookies` is what it holds, and answers and restarts are lost as in
  `Sessions`.
* `AdminFeed`: rows with stamps, cursors per domain, polls and open streams.
* `Wallet`: one customer; cards are Stripe's tokens, some of the same card.
* `PayoutAccounts`: one expert, on apps old and new, Stripe's accounts and the key
  they are made by; `sentTo` are the accounts that the expert was sent to or that
  took the expert's details, `orphaned` says that an older form left one behind.
* `WebPlans`: plans, Stripe's products and prices, one subscriber's portal.
* `Banners`: one expert's banners, the quota by week, taps with their week.
* `Notices`: phones, users with two roles, device tokens and notification rows.

## 3. What the runs show

Deadlock is not an error: when every call is over and settled, everything paid or
every client's requests made, there is nothing left to do.

The runs about calls use `MCCallSystem` at $15 per 30 minutes (50 cents a
minute, hold $30). Call lengths are drawn from 0, 60 and 5400 seconds: nothing
to bill, a call the hold covers, a call it does not cover ($45). The runs about
earnings use `MCEarnings`, where a call cost 4 cents of which the platform
keeps a quarter: 3 cents net, split when 2 are paid, small amounts at
which the rounding of the split commission matters.

| Run | Instance | Result |
|---|---|---|
| `CallRaces` | 1 call; three scenes, below | `TypeOK`, `ConnectedCallHasHold`, `ChargeBackedByStripe`, `NeverDoubleCharged`, `RecordedChargeIsFinal` |
| `CallLiveness` | 1 call, 1 card, 1 handler, 1 job, 1 fault of any kind, timer on, callbacks repeated, fairness | `NoCallWaitsForever`, `BillableCallIsCharged`, `FailedCallReleasesHold` |
| `MoneyTakenBack` | 1 call, 1 payment, 1 payout, 1 request on each side, every takeback, 2 faults (expiring keys, no reversal), fairness | `DisputedEarningIsHeld`, `RefundedCallWasRefunded`, `EarningComesToRest`, `FailedPayoutRecovers` |
| `SubscriptionRaces` | 2 experts, 1 purchase in each app store, 2 requests at a time, 1 fault | `OneActiveRow`, `LivePurchaseStays` |
| `SubscriptionNights` | 1 expert, all three stores, 1 request at a time, every kind of traffic, 1 fault, fairness | `UnsubscribedIsUnlisted` |
| `SignUps` | 2 users, 2 phones, 2 e-mails, 2 clients of 2 requests each, or of 1 beside a portal edit | `OneAccountPerAddress`, `OnlyPortalMakesBare` |
| `AroundCalls` | nine scenes, below | eleven properties of five components |
| `AroundAccounts` | fifteen scenes, below | twelve properties of nine components |
| `DoubleCharge` | a completed call, 2 cards, no faults | **violated** `NeverDoubleCharged` |
| `TwoActivePlans` | 1 expert, an app-store purchase and a Checkout | **violated** `OneActiveRow` |
| `PhoneNeverProved` | 1 phone, 1 client | **violated** `RegisteredPhoneWasProved` |
| `RatingDrifts` | 2 reviews of one expert at once | **violated** `RatingMatchesReviews` |

### Scenes

Parts that do not touch each other need not be interleaved, and TLC could not
afford it: an instance therefore has a variable `scene`, chosen at the start
and never changed, and each behaviour is about one part. A scene leaves the
part's own actions as they are and keeps it in a region by a condition on the
states it may reach; the regions overlap where a part has several scenes.

`CallRaces`: *calls*, from the first request on, with two handlers of engagement
and one billing job, no faults, one card that is not declined and short calls;
*settlement*, of a call just completed whose capture POST is under way, with one
card that may be declined, two jobs and three faults (lost answers, restarts,
expired holds); *holds*, of a request just made, with two cards of which one may
be declined, two jobs and one fault. The initial states of the last two are
reachable ones. In *calls* at most two callbacks of ZEGO are under way at a time
and Stripe's webhooks come when none is; the two handlers are interchangeable,
so TLC checks one of each symmetric pair of states. `CallLiveness` has the whole
system, in which either a participant goes missing or a fault happens, again with
two callbacks at a time: no step that fairness is assumed of is held up by that.

`AroundCalls`: *quotes* (1 quote, two devices of the customer, one of the expert,
two prices, two edits), *reviews* (2 reviews, 2 writers), *recording* and *words*
(a sentence of two revisions, two callbacks at a time), *thread* (the two sides
have it open, two messages, no block) and *unread* (the conversation is made,
they write from two clients and one, read, delete and block, with no screen
open), *files* (2 files, 2 requests), *tokens* (3 tokens, 2 requests) and
*sockets* (2 sockets, 1 process with a cache, 2 changes of status). 637,000
distinct states. Reviews have no property here, only in `RatingDrifts`.

`AroundAccounts`: *payouts* (2 parts, 2 payouts, 2 requests, 3 faults of any kind, of
which the third only where no admin settles a payout by hand; no refunds) and
*takebacks* (the same payouts beside a refund from the portal, with 1 fault, or a
dispute, with none), *invites* (2 invitations, one being written at a time) and *staff* (the
account is there; two grants and password changes), *portal* (2 tabs, 3 token
pairs), *events* (2 domains, at most 2 rows, 2 polls, 1 stream), *cards* (the
customer exists at Stripe; one add at a time and at most one removal) and
*firstCards* (no customer yet, two adds that run to their end), *onboarding* (2
visits of either app, 2 accounts, 2 losses, one event of Stripe on its way at a
time), *prices* (one plan is priced twice at once, two
prices) and *switches* (both plans sold, one pricing at a time, the subscriber
switches), *uploads* and *clicks* (two viewers, two taps, one banner, a week and a
month of one and two days), *phones* (one phone, two users, one dispatch at a
time) and *feed* (notifications read and cleared). Ids and slots that are free
are taken in turn where they are alike, which loses nothing. 954,000 distinct
states. No fairness: its properties are about safety.

`SubscriptionNights` starts each behaviour with the periods of most purchases
used up, so that one in-app purchase with all its periods, two of Stripe's, or one
purchase with a fault is followed at a time; `SignUps` starts when both phones
have just been proved on the sign-up screen, since the register request asks for
that, and nobody has an account, or one person has registered and has or has not
entered the code, each client has one request left and the portal one edit;
`PhoneNeverProved` starts with nothing and shows how little it takes.

*Why the bounds are enough.* The races are between a read and a write of the
same row, or between two writes: two requests suffice for every order of a pair,
a third fault or a third id is there where a step undoes another. All
safety properties are proved besides (section 4), some under the restrictions
named there, for any
number of rows, handlers, cards, jobs, payouts, messages and faults. A payout over the rows of
several calls, or a call with two payments, is in the theorems and not in the
runs. With a single row id, a request after a failed one has no id left to
insert; the runs cover one consultation from birth to settlement, not the next
one. Two branches of `CallBilling` fire in no run: the capture of a call without
a hold, since none connects without one, and a superseded hold whose cancellation
fails at Stripe, which leaves it authorised (see the residue).

### The four violations

They are disagreements between a comment and the code, each recorded in
`PROJECT.json` with the quoted line:

1. `DoubleCharge`: two settlements of a call that outgrew its hold (the customer
   paying by hand with another card while a capture runs) charge the remainder
   under two keys, since the key names the card (B 433). With one card,
   `CallRaces` shows the same property does hold through lost answers,
   restarts and expired holds: the divergence is about cards alone.
2. `TwoActivePlans`: the transaction of a Checkout webhook takes none of the
   advisory locks of an in-app verification (B 1723); each retires the rows it
   sees and inserts its own, and both stay active. Among in-app purchases
   alone, `SubscriptionRaces` shows that the locks suffice.
3. `PhoneNeverProved`: asking for a second code marks the first by the column
   that records an entered code (`otp.js` 30), so registering after asking
   twice stamps a phone whose owner never answered (U 300).
4. `RatingDrifts`: the recalculation of a rating counts under its own snapshot
   and then waits for the row (`rating.js` 13), so the later of two reviews
   stores a count without the other.

### Fairness

*Calls.* `CallSystem` assumes: a billing request in progress runs
on (Node keeps serving it unless the process restarts), and the sweeps, which
PM2 starts every ten minutes, keep being started. Each sweep's selection of a
row has strong fairness, because a row may be selected only while a job slot is
free and slots come and go; `ExpireAbandoned` needs only weak fairness. Nothing
is assumed of people, of ZEGO, of Stripe's webhooks or of the POSTs between the
services. Faults are finite, as for every claim of the form "in the end". The
seven-day age limit of the capture sweep (B 2665) is time and not modelled:
`BillableCallIsCharged` reads "within the window in which the sweep still looks
at the call".

*Earnings.* `Earnings` assumes: requests and webhooks in progress
run on (weak); PM2's daily cron starts the payout run (`PaysAll`, which takes
all that is payable: in the end every row is older than the cutoff) and the
retry of each failed payout; Stripe delivers an event until it is acknowledged.
The last three are strong, because they need a free slot. Nothing is assumed of
admins, of customers and of their banks. `EarningComesToRest` needs the transfer
events: a payout whose process stopped after the transfer is recorded as paid only
by `transfer.created`. One whose process stopped before it is excepted, as no job
takes it up (see the residue). The retry's age limit of 14 days is time and not modelled, so
`FailedPayoutRecovers` reads "while the retry still looks at the payout".

*Subscriptions.* Only that the nightly job runs every night and finishes.

*Recording.* Requests in progress run on, ZEGO ends a task that has had nobody to
listen to (its `MaxIdleTime`, 120 s) and reports that it did until it is
answered. `RecordingEnds` rests on it: `room_close` stops the transcript before
it ends the call, so a start that re-reads the call in between sees it running
and leaves a task that only the idle stop ends. The idle notice comes only
after the start was answered and written (a request takes 10 s at most), an
Exception other than 1202 does not end the task, and the notice of 1202 gets
through.

*Sessions.* Requests, timers and the expiry of cached statuses go on, and the
portal's POST to messaging-service is delivered (see the residue).

## 4. What is proved

The seven proof modules are checked by TLAPS, for **every** value of the
constants that the named assumptions of the modules admit: any number of rows,
people, requests in progress, messages and faults. Where a theorem assumes more,
its statement says so. The theorems are about `Spec`, without the scenes and the
reduced initial states of the MC modules (`AccountsSpec` for what is around the
accounts).

They share one pattern. Requests read, wait and write by id, so an invariant of
rows alone is not inductive; it is strengthened by what each request in progress
remembers, and that memory stays true because of what no step does. Where many
steps are alike, a lemma says what such a step may do ("moves", "fades",
"stays") and the proof has one step per action that shows it does.

### Calls (`CallSystemProofs`)

Every set of consultations, cards, handler slots and job slots, every rate in
Nat, every set of call lengths containing 0, and every bound on faults
(`CardsAssumption`, `CallsAssumption`, `RateAssumption`, `SecondsAssumption`,
`TimeoutAssumption`, `RetriesAssumption`, `DeclineAssumption`,
`FaultsAssumption`, `CardsAreFinite`).

| Theorem | Statement |
|---|---|
| `TypeCorrect` | `Spec => []TypeOK` |
| `Chain` | `Spec => []IInv` |
| `ConnectedSecured` | `Spec => []ConnectedCallHasHold` |
| `ChargedConnected` | `Spec => []ChargedOnlyIfConnected` |
| `Credited` | `Spec => []CreditedOnce` |
| `HoldAuthorised` | `Spec => []HoldOnRecordIsAuthorised` |
| `ChargeFinal` | `Spec => RecordedChargeIsFinal` |
| `ChargePaid` | `Spec => []EveryChargeIsPaid` |
| `ChargeBacked` | `Spec => []ChargeBackedByStripe` |
| `ChargedOnce` | `OneCardOnly` and no `"stripe"` fault imply `Spec /\ [][LengthStays]_vars => []NeverDoubleCharged` |
| `LongerCostsNoLess` | of two lengths, the longer costs as much or more |
| `HoldCoversBlock` | a call within the first block costs no more than its hold |

*The argument.* "No call connects without a hold" is not inductive: the step
that sets `startedAt` looks only at who has joined. The invariant `IInv`
therefore follows the chain backwards: started needs both joined, joined needs
a token (`HoldBeforeCall`, `LoginsHaveTokens` for callbacks under way),
a token needs an accepted call, an accepted call a hold. Since handlers write
by id on what they have read, it also says that what each one remembers is
still true when it writes (`HandlersRemember`), and what POSTs and jobs in
flight are about (`CapturesAreOfCalls`, `MoneyIsOfCalls`). That memory stays
true because no step takes these columns back: the relation `Grows` in the
proofs, shown for every action of both services (`CallsRows`, `BillingRows`).
`ChargedOnlyIfConnected` follows from `MoneyIsOfCalls` and `HoldBeforeCall`.

`HoldAuthorised` adds a second, smaller invariant (`AuthInv`): the hold on
record and the hold each job in progress is about to record are authorised.
It is inductive because Stripe never takes an authorisation back
(`BillingHoldsStay`), engagement never names a hold (`CallsKeepPi`) and billing
names only what a hold job brings (`BillingNamesJobsHold`).

`ChargeFinal` is an action property. It needs that a recorded charge is on the
row as well (`ChargedIsOnRow`), since every statement that could change either
is guarded by the billing status it finds when it runs (`KeepsBilling`,
`ChargesOnce`).

`EveryChargeIsPaid` says which payments make up a recorded charge: a captured
hold of the call, or an off-session charge on top of one or of nothing. The
invariant follows a settlement in progress (`SettlementsCount`): what it counts
is what Stripe confirmed, and Stripe takes no payment back (`PaymentsStay`). It
carries `ChargeBackedByStripe`: no payment is more than the sum of all of them,
and `ChargeBacked` adds that a call has finitely many off-session charges, since
no step makes more than one (`OneMoreCharge`). That a customer has finitely many
cards is assumed (`CardsAreFinite`); without it the sum would mean nothing.

`ChargedOnce` needs what its hypotheses say, since the code does double charge
without them. With a second card the idempotency key is another one (the run
`DoubleCharge`). A capture that fails before Stripe acts (the `"stripe"` fault)
counts as nothing collected, so the whole price is charged off-session and a
later settlement captures the hold as well. And a second end of the call, which
writes another length over the first (hazard at `zegoCallbackService.js:246`),
changes the price between two settlements; `LengthStays` is the assumption that
no step of the behaviour does that. Lost answers, restarts, expired holds and
declines are all allowed, with any number of jobs. The invariant `OnceInv`: a
captured hold received the lesser of the price and the hold (`CapturedOnce`);
every off-session charge is the remainder over what the hold received, and the
hold is spent (`OneRemainder`), so two settlements that come that far use one key;
a job that is about to capture or to charge remembers the recorded length, and a
job that is about to charge what the hold received (`SettlementsAgree`); and a
capture POST carries the recorded length (`PostsAgree`). It is inductive because
a spent hold never moves again (`HoldsMove`, `RemainderStays`). Holds and the one
off-session charge then add up to the price (`OnceIsDue`).

### Earnings (`EarningsProofs`)

Every set of calls, payments, request slots and amounts an admin may ask for,
every price and percentage, every bound on parts, payouts and faults
(`PartsAssumption`, `PayoutsAssumption`, `GrossAssumption`, `FaultAssumption`,
`CustomAssumption`, `MarkAssumption`, `TakebacksAssumption`).

| Theorem | Statement |
|---|---|
| `TypeCorrect` | `Spec => []TypeOK` |
| `RowsAlwaysBalance` | `Spec => []RowsBalance` |
| `BooksAlwaysBalance` | `Spec => []BooksBalance` |
| `PaidOnce` | `Spec => []EarningPaidOnce` |
| `RefundedWasRefunded` | `Spec => []RefundedCallWasRefunded` |
| `Refinement` | `Spec => EarningsAreIdeal` |
| `DisputedIsHeld` | `Spec => []DisputedEarningIsHeld` |

*The argument.* Types need `RowsBalance` beside them: that the amounts of a
split row stay natural numbers follows from gross being commission plus net
(`PartCommissionBounds`, `SplitBalances`). "Paid once" needs two invariants.
`Money` is about Stripe: of the transfers of a payout only the latest may stand,
and a key stands for the latest or for none (`OneTransfer`), because whoever goes
on to send has either just made the payout, is sent back to the latest transfer
by the key, or has looked and found none that stands (`SendsOnce`); rows are
returned only after a reversal (`ReversalsHappened`). `Owners` is about the
ledger: the rows a payout was made from stay its own until its first transfer
came back (`OwnsItsRows`), because a claim takes only rows nobody owns and the one
step that frees a row is `ReturnsEarnings`. Two payouts that were sent once and
whose transfers stand would both own a common row.

*What is excepted.* A payout that is sent a second time, after its transfer was
reversed, may pay for rows that another payout has paid for. The code does that:
let the answer to a transfer be lost, the payout fail and its key expire, and two
retries begin. One finds the transfer and records it; the transfer is reversed,
its rows are returned and another payout pays for them; the other retry looks
only now, finds no transfer that stands, and sends again. It takes three faults,
and the scene *payouts* has three. So `EarningPaidOnce` says of such a payout only that
at most one of its transfers stands, and `EarningsAreIdeal` sees the first transfer
of each payout. Both count rows, not cents (see the residue on splits).

`BooksAlwaysBalance` adds up the rows of a call. The invariant (`BooksInv`) says
besides that a row not earned has no gross and that an unsettled call has no
rows: so settlement makes a sum of zeros into one of a single price
(`SettlementBooks`), a split moves part of one row's gross to a row that had none
(`SplitBooks`, from `SumTwoChanged`), a claim, a hold and a return change no gross
(`BooksKept`). Of a call with a dropped row nothing is said, and none comes back
to life. The proof needs that
only settled calls are refunded (`ChargedFirst`), or a refund would take a call
from pending to refunded with no rows: a refund request reads the status before it
begins, and what Stripe tells of refunds is about payments of such calls.

`RefundedWasRefunded` rests on `RefundsMeant`: a portal refund in progress
knows which payments are still to be refunded, a webhook in progress was told
of a refund that happened and has read of others that happened. Refunds are
never undone, so what is meant stays true (`MeantGrows`).

`Refinement` maps a row's `sent` to the number of payouts made from it whose
first transfer stands; that is one or none (`SentIsOut`), since each of them would
own the row (`OutIsOwned`). `sendPayoutTransfer` is then `Paid` or a stutter, a
first transfer reversed at Stripe is `Reversed`, a settlement and the new part of
a split are `Earned`, a refund or a lost dispute is `Dropped`: of rows that no
payout owns, so with no money out for them. Everything else is a stutter, the
second transfer of a payout included (`OutKeptByFirsts`).

`DisputedIsHeld`: a disputed row that a payout could claim was part of a payout
whose first transfer was reversed (`NothingSlips`): the webhook of a dispute holds
the rows nobody owns, a split copies the hold, and afterwards only
`ReturnsEarnings` frees rows, of payouts that were sent (`ReturnWasSent`). Besides,
only what was settled is disputed (`DisputesAreOfSettled`), so no settlement adds
a payable row to a disputed call. The theorem is about new claims: rows that a
payout owned when the dispute came stay with it, paid or not, and if it failed
they are sent again (see the residue).

### Subscriptions (`SubscriptionProofs`)

| Theorem | Statement |
|---|---|
| `PlansTypeCorrect` | `Spec => []TypeOK`, under every kind of traffic |
| `OnePlanIsActive` | `InAppOnly` implies `Spec => []OneActiveRow` |
| `LivePurchaseKept` | `NothingRevives` implies `Spec => LivePurchaseStays` |

`InAppOnly` says that purchases reach the backend by verification, restore,
repair and the nightly sweep, and not by Checkout pages or notifications. It is
needed: a Checkout takes no lock (`TwoActivePlans` is the counterexample), and a
notification of a renewal that has read its row before the row was superseded
makes it active again. Without those, the proof is about the advisory locks
(`Alone`): two transactions hold locks of different accounts and purchases
(`LocksApart`), the one that holds them retires every active row of its account
(`RetiresAll`), and nobody else makes a row active (`Quiet`).

`NothingRevives` asks in addition that no payment fails and that nobody looks at
a profile, which repairs it: a store that recovers a failed payment, or a repair
that learns of a renewal late, makes a row that has lapsed active when another
account was granted the purchase in between. It admits more than the run, which
has verifications and renewals only: nightly sweeps, cancellations, approvals,
edits and removals in the portal. The invariant (`Honest`) says that rows and
requests in progress are not paid for longer than the store has come, and that a
claim, once it has its locks, was founded: the former owner had lapsed and stays
so, since in between rows only run out (`Fades`).

### Accounts (`AccountProofs`)

| Theorem | Statement |
|---|---|
| `AccountsTypeCorrect` | `Spec => []TypeOK` |
| `AddressesBelongToOne` | `Spec => []OneAccountPerAddress` |
| `OnlyPortalBares` | `Spec => OnlyPortalMakesBare` |

The invariant has three parts. `RowsSound`: addresses are apart and a row never
written, or merged away, is empty (`EmptyRows`); the unique indexes carry it over
each write. `CodesSound`: a code that will complete a sign-up names its account
and role, one that changes a phone was sent to a phone. `RequestsSound`: a request
remembers such a code, and codes are not rewritten (`CodesStay`).

`OnlyPortalBares` is an action property, since the portal may activate an
abandoned sign-up, and an app then meets the row as it is. Every request of an app
leaves a row bare only if it was (`RegisteringBare`, `SocialBare`; activation makes
the profile in the same transaction), so a step that makes one bare is the
portal's, on that very row.

### Around the calls (`AroundCallsProofs`)

Each component has an inductive invariant of its own and is a stutter for the
others'; `Invariance` is their conjunction, `TypeCorrect` their types.

| Theorem | Property | What makes it inductive |
|---|---|---|
| `AcceptedPrice`, `PricedWords` | `AcceptedAtSeenPrice`, `PricedWordsStay` | `QuotesInv`: once a price is set nobody is at work on the request who could replace it or make the words editable again (`PricedIsClosed`), and whoever accepts has read it (`AcceptsAsSeen`), unless requests of one expert crossed |
| `FinalWords` | `FinalWordsKept` | `TranscriptsInv`: with its types the property is inductive, whatever order callbacks come in |
| `ThreadComplete` | `OpenThreadIsComplete` | `ChatsInv`: what is being announced is stored (`SendersKnow`) and was not loaded away |
| `UnreadCounted`, `UnreadShown` | `UnreadUntilLookedAt`, `UnreadIsListed` | `ChatsInv`: marks are not ahead of the clock (`WithinClock`), a message nobody asked about is newer than both (`StillUnread`), and `last_message_at` has followed every message not overtaken (`MovedUp`) |
| `FilesThere` | `FileAtItsKey` | `FilesInv`: the copy is there before the original is deleted and the row is written (`MovesAreBacked`, `KeptIsThere`) |
| `SessionKept` | `SessionSurvives` | `SessionsInv`: while the device is entitled, the token it holds, is refreshing with or is being sent is accepted (`EntitledIsAccepted`), and a token being sent is nobody else's (`AnswersNew`) |
| `PresenceTrue` | `PresenceSettles` | `SessionsInv`: what is shown is true, or a timer that will correct it is set, unless sockets opened within half a second (`PeersKnow`) |

### Around the accounts (`AroundAccountsProofs`)

| Theorem | Property | What makes it inductive |
|---|---|---|
| `OwnerSignsIn` | `AcceptedOwnerSignsIn` | only a creation sets the first password, and it finds no account (`ChangesAnAccount`) |
| `StaysSignedIn` | `AdminStaysSignedIn` | while the browser is trusted, what it holds and each tab sends can be refreshed (`TrustedIsAccepted`), and a pair being answered is new (`AnswersFresh`) |
| `TabsHearEvents` | `EventsReachTabs` | the cursor is 0, a row's stamp, or before every open stream (`CursorIsBacked`); what a poll found and what was written complete each other (`FoundCompletes`) |
| `CardsCanBeCharged` | `SavedCardCanBeCharged` | an insertion is preceded by an attachment and a detachment by the wish to remove (`ErrandsAreFounded`, `CardsAreChargeable`) |
| `OneAccountOnboards` | `SentToOneAccount` | whoever makes a link or fills a form has read the account on record, which is not replaced unless an older form's write by id leaves one behind (`VisitsKnow`) |
| `ShownIsCharged`, `PaidIsGranted` | `PriceShownIsCharged`, `PaidPlanIsGranted` | a price in preparation belongs to its plan (`PricingsKnow`), what was ever offered leads to a plan that is sold (`PricesAreSold`), and a switch is to the price being paid (`SwitchIsPaid`) |
| `ClicksAreViewers` | `ClicksAddUp` | `ClicksInv`: a banner's viewers are finitely many, and on one never made nothing is counted (`UnmadeIsUnseen`); of a first tap either the count of one day grows or the tap is no longer unwritten |
| `OneOwner` | `DeviceHasOneOwner` | a registration no other has met is alone with its phone's rows (`UnmetIsAlone`) |

`Invariance` and `TypeCorrect` are the conjunction and the types, the counters of
banners included (`BannersInv`).

### Sums (`FiniteSums`)

`SumFunctionOnSet` of the community modules is a fold: a CHOSEN function computes
the sums of all subsets, taking one CHOSEN element after the other. That there is
such a function has to be proved (`SumsExist`: there is one for the subsets of up
to n elements, for every n), and that any two agree (`SumsAgree`). From `SumStep` follow the facts the other
modules cite: a sum of natural numbers is one (`SumType`), any element may be
taken out (`SumTakeOut`) or put in (`SumOneMore`), equal terms have equal sums
(`SumSame`), one or two changed terms change the sum by what they change
(`SumOneChanged`, `SumTwoChanged`), a term is at most the sum (`SumCovers`), and a
single term is its sum (`SumOfOne`). The induction theorems that take
an operator cannot be used, so each induction takes the set of counterexamples, a
least one in it, and the step that contradicts it.

### Not repeated, and only checked

The type invariants and `IInv`, `ChargedOnlyIfConnected`,
`HoldOnRecordIsAuthorised` and `CreditedOnce` are proved for every instance, so
no run repeats them, but for `TypeOK` in `CallRaces`.

*Only model-checked:* liveness (`NoCallWaitsForever`, `BillableCallIsCharged`,
`FailedCallReleasesHold`, `EarningComesToRest`, `FailedPayoutRecovers`,
`UnsubscribedIsUnlisted`, `RecordingEnds`, `SuspendedIsCutOff`), since fairness
and ENABLED are out of the prover's reach. With it go the restrictions
above: `NeverDoubleCharged` in `CallRaces` where two ends of a call write two
lengths, and `OneActiveRow` and `LivePurchaseStays` for the traffic they do not
hold under.

## 5. Mutants

Definitions whose comment begins with "Mutant:" are faulty variants of the
definition that follows them: a dropped guard, a forgotten rounding, a status
missing from a filter, a write by id. Substituted for the original, each makes a
property of a run fail, which is how we know that the property depends on that
code. No specification uses them.

## 6. What is not modelled, and why

* Time: the grace and age limits of the sweeps, the abandon cutoff, the life of
  a token or a code, the cadence and cutoff of payouts. A guard on time is an
  unconstrained choice, so safety is checked for every timing. The 24 hours of
  an idempotency key are a fault of `Payouts`; in `CallBilling` a key is
  remembered for ever, so charges retried after a day are outside the model.
* `body.estimatedCents`: a client may ask for a larger hold than the minimum;
  the model fixes the minimum.
* Statuses `ringing` and `canceled` of a consultation: no code writes them.
* Guards on other tables (blocks, maintenance mode, availability, ownership of
  the call, subscription of the expert when a quote or a call is made): they only
  refuse.
* A failed capture whose re-read fails as well, and a card list that is empty.
* Money taken back before the charge is recorded: a Dashboard refund or a
  dispute between Stripe's capture and our transaction finds no transaction and
  is ignored by the code; in `Refunds` both start after the settlement. A
  settlement that fails late and overwrites `refunded` with `failed` is outside
  for the same reason.
* Subscriptions: `SUBSCRIPTION_ALLOW_TRANSFER` and non-production periods, the
  status of the user, several periods of more than one store at once.
* `Sessions`: one suspension or removal at a time, one device. `Wallet`: test
  tokens. `WebPlans`: one
  subscriber, a Checkout paid at once, one event of a switch at a time; trial
  lengths and plan codes. `Banners`: Prisma's `upsert` and `createMany` are
  atomic statements. `AdminFeed`: rows of one domain have different stamps, and
  the end of a stream is one step. `Notices`: badge numbers and devices
  registered for "all" roles; its property excepts phones whose registrations
  overlapped (see the residue). `Chats`: reports, and the texts of list entries.
  `Files`: limits on size and type; the other services that store files.
* Invoices, e-mails and what is written to logs.
* The components marked `not_modelled` in `PROJECT.json`: the catalogue and support
  tickets (single inserts of independent rows), the gateway (a stateless proxy),
  rate limits (a library, per process and in memory). `cleanupStalePendingUsers`
  has no caller.

### Known residue

What the code leaves behind. Most of it is in the models and reachable there, and
where a property could have been about it, its comment says what it excepts.

*Calls and money*

* two `createConsultation` requests both find no active row and both insert
  (E 1015);
* `room_close` ends a call that `endConsultation` ended in between, and its
  length is overwritten (Z 246; the comment at 228 says "Only end if currently
  active");
* hold on card A, then B, then A again: the key names consultation, card and
  amount, so Stripe returns the cancelled first intent and the call is accepted
  on it (S 85, B 339-343, E 1120);
* two first holds on two cards leave one authorised with nobody to release it;
* a settlement that fails at Stripe during the capture charges the whole amount
  directly; a later capture of the hold and its remainder then come on top. The
  scene of the settlement leaves out requests that fail before they have an
  effect for this reason;
* a connected call that ended within its first second is `completed` with
  length 0; a release is only accepted for declined, canceled or failed calls,
  so its hold stays until Stripe's expiry (B 777);
* a restart loses `disconnectTimers`, and no sweep looks at calls in progress
  (Z 23);
* the amount of a payout is summed from rows read before a concurrent split
  shrank one of them (B 2764); the books balance and each row is in one payout,
  but the payout is too large, although the comment at B 2744 says "the payout
  amount always equals the rows it owns". No property is about the amount;
* a retry that looks only after the transfer was reversed sends a payout again
  whose rows another payout has paid for (section 4);
* a dispute holds only rows no payout owns (B 1323-1326), so a failed payout is
  sent again while the dispute is open (B 3109-3164); whether money went out is
  read before the transaction (B 1310), so the mark for review may be missing;
* a portal refund finds no payout, a payout claims the earning while Stripe
  refunds, and the refunded call has paid its expert (B 939-943);
* a payout whose process stops between claim and transfer stays `processing` for
  ever, its rows with it, since only failed payouts are retried (B 2753-2770);
  after the transfer, `transfer.created` still settles it;
* a reversal that arrives before the transfer's id is stored finds no payout:
  it is acknowledged and the rows stay claimed;
* a late `transfer.created` after a reversal marks a payout paid that owns no
  rows any more;
* two disputes about two payments of one call share the one `disputeStatus`
  column: the first to close releases the earning for both.

*Quotes, reviews and recording*

* a late "open" by the expert's other device sets a quote that was quoted or
  cancelled back to `expert_reviewed`; transitions update by id over terminal
  statuses although their comment speaks of an "optimistic status guard" (E 575);
* two concurrent quotations change the price that is being accepted, and a
  quotation does not name the version of the brief it is about;
* two requests of one expert on a quote may cross, and then the price is set
  without the guards that the other has read (`crossed`; the properties of quotes
  except these);
* quotes an expert has opened never expire, and the expiry writes no history;
* an edit of only the files of a brief checks first and attaches then.

*Subscriptions and plans*

* an expired App Store or Play purchase is granted 30 days again when it is
  verified (`googleIapController.js` 76, and its Apple twin);
* two open Checkout sessions each get the free trial (B 3447);
* a renewal that has read its row before it was superseded revives it, and
  `getMySubscription` expires by id a row renewed in between;
* the nightly sweep unlists experts in their grace period;
* a purchase superseded by one of the same app store is not cancelled there; a
  removed expert's row is cancelled and the store is not told;
* two first prices of one plan make two products at Stripe, whose search lags;
  a subscriber of the older one later switches and keeps the old plan; an error
  of Stripe while the plan of a price is looked up loses the switch.

*Accounts, tokens and messages*

* the portal gives any row any status (`customers.controller.js` 124-173), so an
  abandoned sign-up becomes an active account without a profile;
* the registration's transaction is one step in the model; its second check and
  its write are two statements under READ COMMITTED, and the index decides;
* entering a code activates an account that was suspended or deleted meanwhile,
  when it adds a role (U 735); login by code issues tokens without asking for the
  status, though `tokens.js` 237 says a banned user must not obtain any "ever";
* reactivating a deleted user leaves `deletedAt`; a phone from a social sign-up is
  stored before it is proved; two concurrent sends leave two live codes, and
  `attemptCount` is read and then written;
* `assertIdentifierAvailable` ignores pending rows that the unique index counts;
* `verifyPhoneChange` revokes no sessions, as the comment at U 974-976 says it does;
* a refresh in flight survives a password reset, and every use within the grace
  period renews it;
* a device or browser whose refresh was rotated but not answered (a lost answer,
  a restart between the two writes) and that asks again only after 30 s is signed
  out (`tokens.js` 252, admin `auth.controller.js` 163-200); the properties about
  sessions except it;
* a lost POST about a suspended account leaves its sockets open; deleting one's
  own account revokes nothing; other processes accept the account for a minute;
* a block set between check and insert does not stop the message;
* `readAt` is the clock of markRead, so a message stored late with an earlier
  stamp is never unread, and read and deletion stamps of two devices may go
  backwards;
* two sockets that open within 500 ms each find the other, and no presence is
  announced (`messagingSocket.js` 177-183); `broadcastPresence` reads the database
  before it emits, and a restart of messaging-service drops its timers silently:
  both are left out of `Sessions`;
* a peer between joining a room and loading it gets neither push nor message
  when it leaves again;
* messages that commit in another order than they were stamped set
  `last_message_at` back, and a conversation deleted in between stays out of the
  inbox although its messages count as unread (`overtaken`);
* a request that dies, or fails, between deleting a file's temporary object and
  writing the row leaves a row that names the deleted one (`stranded`); a link
  given out before the move answers 404 after it, and files of avatars, tickets,
  quotes and verifications stay under temp/;
* a file sent in two conversations is granted to one party only, since the check
  takes the first attachment it finds.

*Admin portal, cards and devices*

* two invitations sent at once are both live; an acceptance in flight uses the
  permissions of an invitation superseded meanwhile; a password change is
  checked against a hash replaced meanwhile; suspension does not revoke an
  admin's sessions, so reactivation revives them; a refresh in flight during a
  logout signs the browser in again;
* rows committed late with an earlier stamp, or during a restart, are never
  announced, and overlapping polls announce rows twice (`ssePoller.js` 27);
* a first submission of an older form that overlaps with another visit, or loses
  its answer, leaves a connected account with the expert's details behind
  (B 1202-1212, `orphaned`), and readiness is cached from stale answers;
* two first cards at once make two customers at Stripe, and a saved card may be
  on the one not kept (the property is about one customer); two set-defaults
  leave two defaults, a failed add or a first card without the wish leaves none;
  a restart between detaching and deleting leaves a detached card saved;
* a second device may exceed the banner quota, and deleting circumvents it;
  switching a banner is read and then written;
* registering a phone deletes and then inserts, so overlapping registrations
  leave it to two owners; preferences are read and then written; a badge sent to
  both roles of a user counts both, other than the bell icon (`fcmSender.js` 129).

## 7. Plan

1. (done) the call: lifecycle, holds, settlement, sweeps; the chain invariant
   proved.
2. (done) the earnings: ledger, payouts, transfers, splits, refunds, disputes
   and their webhooks; refinement of `IdealEarnings` proved.
3. (done) quotes, reviews, transcripts, messages, tokens and sockets:
   `AroundCalls`.
4. (done) subscriptions over three stores, with approval and listing:
   `SubscriptionSystem`.
5. (done) sign-up and codes: `AccountSystem`.
6. (done) cards, payout accounts, website plans, admins and their sessions, live
   events, banners, notifications: `AroundAccounts`.
7. (done) the conversation's creation, inbox and files: `Chats`, `Files`.
8. (done) every safety property of the passing runs as a
   theorem: `SubscriptionProofs`, `AccountProofs`, `AroundCallsProofs`,
   `AroundAccountsProofs`, and with `FiniteSums` the four that add up.
9. Left to prove: `OneActiveRow` with notifications that do not revive; abstract
   specifications of a quote and of a session, and their refinement.
