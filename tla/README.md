# Verification of the WabMeta backend

WabMeta is a multi-tenant WhatsApp business platform: organisations connect a
WhatsApp number (through Meta or Gupshup), send campaigns and chat replies from
it, answer customers by automations, bots and an AI agent, buy plans, pay for
messages out of a prepaid wallet, collect payments, and mirror their clients and
payments to TeamOS. The server is Express and Prisma on PostgreSQL, run as
several identical processes. They share nothing but the database; each keeps
timers, guards and queues of its own in memory, and a process may be killed at
any time.

This directory holds TLA+ models of the parts where that arrangement is hard to
get right and hard to test, the TLC runs that check them, and TLAPS proofs of
the results that matter most. All definitions are read off the TypeScript under
`src/src`; `PROJECT.json` gives the lines of each.

- [1 Inventory](#1-inventory)
- [2 The models](#2-the-models)
- [3 The runs](#3-the-runs)
- [4 The proofs](#4-the-proofs)
- [5 Where the code does otherwise](#5-where-the-code-does-otherwise)
- [6 What is not modelled](#6-what-is-not-modelled)
- [7 Plan](#7-plan)

## 1 Inventory

### Parts that are modelled

| Part | State | Operations | What is hard | What makes it correct |
|---|---|---|---|---|
| **Job lock** `utils/withLock.ts` | a `SystemSetting` row (holder, expiry); a heartbeat timer per run | acquire, renew, run, release | late or failed heartbeats, a release or a renewal that arrives late, a holder that dies | one run of a job at a time; a dead holder's job is picked up again; nobody frees another's lease |
| **Wallet balance** `wallet.deduction.service.ts`, `wallet.service.ts`, the final charge in `campaigns.service.ts`, refunds in `webhook.service.ts` | the `Wallet` row; the `WalletTransaction` ledger | template and service debits, top-up credit, refund, admin adjustment, campaign final charge, credit limit, flags | statements of many requests interleave at READ COMMITTED; some lock the row, some guard in the WHERE clause, some write back what they read | never negative; a payment credited once; a message refunded once; nothing lost from the balance; no request waits for ever |
| **Wallet top-up** `wallet.service.ts`, `wallet.webhook.ts`, `wallet.reconciliation.service.ts` | `WalletTopUpOrder` (status, attempts); the gateway's order | verify (browser), webhooks, retry button, reconciliation every five minutes on every instance | events acknowledged before they are processed, duplicated, late; a shared budget of five attempts; two callers that look for a credit and then write one | credited once, credited means paid, paid ends up credited while attempts are left |
| **Campaign sending** `campaigns.service.ts`, `campaigns.claim.ts`, `campaigns.recovery.service.ts`, `server.ts` | `Campaign.status`, `CampaignContact.status`; in memory: which campaigns an instance processes, pause and cancel signals, outcomes not yet written | start, pause, resume, cancel, retry, the send loop with its workers, automatic pause, recovery at boot | loops of several instances on one campaign, claims that look abandoned, exceptions with workers still running, crashes with messages in flight | a contact is sent again only if its row was put back; outcomes are written; the wallet never pays for more than was sent; a running campaign ends |
| **Message status and refunds** `webhook.service.ts`, `gupshup.router.ts`, `gupshup.service.ts` | the contact row, the chat message and the charge of one message, each under a name that changes (`svc`, `gs`, `wamid`); the refund queue in memory | send, attach, flush, save; status reports and id mappings; refund with retries | reports overtake the sender that writes the names they are looked up by; handlers of one message overlap; a timed-out refund may have committed | status only moves forward; one refund for one charge; a queued refund is paid or put aside; a failure whose charge bears its name is refunded |
| **TeamOS sync** `modules/sync` | outbox `SyncEvent` (one row for each thing), the cursor and the lease (`SystemSetting`) | scheduled run, backfill, enqueue, deliver in batches, back off, park, revive | a payment is stamped before it commits; TeamOS may answer late, partly or not at all; a run may die anywhere, outlast its lease or meet a backfill | nothing missed by the window, nothing marked delivered that is not there, everything settles, each but for rows that one run writes anew under the hands of another |
| **Automation** `modules/automation` | one `AutomationSequence` row for each automation and contact, `AutomationJob` rows; the run in a process's hands | trigger, steps, long delay, wait for an answer, answer, job claim, follow-up, stop | triggers, answers and two workers share one row; a job left RUNNING is claimed again while its worker may only be slow; DONE is written before the work | one place at a time goes on with a run; a job takes effect once; a run that is over does not go on |
| **Inbound messages** `webhook.service.ts`, with the **chatbot** (`modules/chatbot`) and the **AI agent** (`modules/aiagent`) | `Message`, the chat's counters and flags, the contact; the chat's lock and session and the AI's queue, all three in memory | receive, check for a duplicate, find or create the contact and chat, store, count, opt out or in, route; walk the flow; answer | Meta repeats deliveries, also while the first is handled; a lock that expires and does not say whose it is; handlers of one chat overlap | counted and routed once; one call in the flow at a time; the AI answers in turn |
| **Billing and plans** `modules/billing`, `admin.billing.service.ts`, `planLimits.ts`, the expiry cron | `Subscription`, `Organization.planType`, `Payment`, `Coupon`, `CouponRedemption` | checkout, verify, events, import, refund, cancel, resume, grant, extend, revoke, expire | one payment is reported along four paths; two unique keys, one of which a failed attempt may hold; counting the coupon is a transaction of its own; two kinds of expiry write by id what they found earlier | extended once; what is paid is recorded; the coupon's counter is right; no refund ahead of Razorpay; a plan is not cut short |
| **Client payment links** `modules/payments` | `LeadPayment` (status, last asked), the gateway of each client; the link at Razorpay | create, webhook, refresh, poll, expire, mark paid and what follows | three paths act on answers that are old when used; a poll asks for fifty links of any number | paid once and for good; what follows a payment follows it once; every link has its turn |

They meet in these places. The scheduler fires jobs under the job lock (recovery
of campaigns, automation, payment polling, expiry of plans). Campaign sending
charges the wallet once, at the end, and does not reserve anything before. A
failed report queues a refund into the wallet. A top-up is credited by the one
function that locks the wallet row. An incoming message is offered first to the
automation that waits for it, then to those it triggers, then to the chatbot,
then to the AI agent; an employee who takes a chat over silences all of them. A
paid link wins its lead and starts automations. Sync only reads what others
write.

The wallet is modelled at the grain of its statements. `TopUpOrder` has the
credit's transaction too, seen from one order. `MessageStatus` and `CampaignSend`
use the wallet as one step where the code calls a single transaction
(`RefundMessage`, `Count`): the theorems of `WalletProofs` on refunds are what
allows that.

### Parts that are not

`PROJECT.json` lists all of them with the reason. In short:

| Part | State and operations | Hard behaviour |
|---|---|---|
| Calling (1.5k) | `CallLog`; ring, answer, reject, end | several agents answer one call |
| Authentication (2.8k) | users, refresh tokens, lock-out counters, OTPs | rotation of a token used twice, the session limit |
| Inbox (3.2k), contacts (3.4k), CRM (1.5k) | conversations, contacts, leads, tasks | imports in batches; otherwise one row for one request |
| Meta connection (7.3k), WhatsApp API (3.9k), templates (2.9k), Gupshup client | accounts, numbers, tokens, templates | mostly wrappers of external services |
| Administration (11.5k), organisations (1.3k), users (1.1k), analytics, dashboard, notifications | overrides, members, reports | forms and queries |
| Telegram (2.0k), Instagram (1.2k) | adapters of other channels | as the inbox |
| Scheduler, services, middleware, configuration, sockets | eleven crontab entries; storage, mail, rate limits | in-process guards; see the job lock |
| `dist/`, `scripts/`, `shopify-app/` | compiled copies, one-off scripts, a storefront | not run by the server |

## 2 The models

One module for each part, with an action for each statement, handler step or
operation that other steps can come between. The `MC...` modules only give
values to constants or define a symmetry; the `...Proofs` modules extend the
modules they are about: `WalletProofs` also has the theorems about `TopUpOrder`,
`PaymentLinksProofs` those about `JobLock`, whose definitions have names of their
own for that (`OrderSpec`, `LockSpec`).

### JobLock, SingleRunner

`JobLock` has time in it. The lease holds the time it has `left`, `beat[r]` is
the time to the next heartbeat of run `r`, `flight[r]` the time within which the
heartbeat in flight lands, and `Tick` moves all of them together, never past a
timer that is due. `Acquire` is the upsert that takes the row when there is none
or it has expired, `Beat`/`Renew`/`RenewFails` the heartbeat, `Finish`/`Release`
the `finally` block, `Killed` the death of the process at any point, `Recycle`
lets a name stand for a fresh run once nothing mentions it. `MaxMisses` bounds
how many heartbeats in a row fail. `SingleRunner` is what callers are promised,
runs that enter and leave one at a time; `ImplementsSingleRunner` states that
`JobLock` refines it, with the runs that are at work mapped to `working`.

### Wallet

A request is one call of one of seven functions; `seen` is what it read,
`locked` whose transaction has the row locked. READ COMMITTED is modelled by two
rules: a reader sees the last commit and waits for nobody, a writer waits while
the row is locked. So the debit is `DebitRead` (no lock), `DebitUpdate` (the
conditional UPDATE that takes the lock), `DebitCommit` or `DebitRollback`; the
credit is `CreditLock` (`SELECT ... FOR UPDATE`), `CreditCheck`, `CreditCommit`
or `CreditRollback`. Adjustment, final charge and credit limit are a read and an
absolute write. `AwaitsOwnLock` is the low-balance alert, an update of the
locked row on another connection, awaited within the transaction: it ends only
by the transaction's timeout. `deductWalletForCampaign` only checks, and no
caller reaches `deductBalance`.

### TopUpOrder

One order. The gateway takes a payment and keeps two webhook events that may be
delivered any number of times or never. `Verify...` is the browser's call,
`Retry` the button, `HookCaptured`/`HookFailed` the webhooks (acknowledged
before they are processed, so an error is final), `Cron...` the pass of each
instance: list, fetch, credit. Whoever credits goes through `creditWalletAtomic`:
`LockWallet`, `FindCredit` (is there a credit of this order?), `CommitCredit`,
which writes the credit if there was none and completes the order in either case;
`Throws` rolls back, `NoteFailure` is the caller's handler, which uses up an
attempt and, in verify, fails the order although it may have been credited. The
customer pays whenever he likes, or never. `age` counts passes; orders are listed
while they are younger than `Window`. The lock is one for the order's wallet; what
other orders do to that wallet is in `Wallet`.

### CampaignSend

One campaign. A loop is one run of `processCampaignContacts`: `Enter` (the
in-memory guard), `ResetQueued`, `CheckStatus`, `Claim` (SKIP LOCKED, so one
statement), `Begin` and `Arrive` for each message a worker sends, `Flush`,
`Halt`, then `FinalFlush`, `Count`, `ReadLatest`, `Complete`, `Leave`.
`AutoPause`, `Exit` and `Throw` with the `orphan` stage are the ways in which a
loop ends while its own workers still run. Operations (`Call`, then `Run`,
`PauseWrite` or `RetryRows`) read and check first and write after an await.
`Crash`, `Recover`, `RecoverRun`, `RecoverClose` are death and boot. `old` stands
for rows not updated for five minutes. `messages`, `requeued`, `charged` are
history, kept to state what may happen to a contact.

### MessageStatus

Messages with the three tables they are kept in and the names they bear in
each. The sender goes through send, answer, attach, flush and save; up to
`MaxReports` reports arrive while it does, each handled by a handler that
renames (`Rename`, table by table), finds the row, updates it if it is still
what was read, judges whether to refund, then finds and writes the chat. The
refund queue is worked off by `TakeRefund`, `PayRefund`, `RefundFails`,
`StoreRefund`. `Crash` loses whatever is in memory. The rule that refunds stop
above a share of the campaign depends on counters that are not modelled, and is
a choice.

### SyncOutbox

Things are clients and money. Of time only the order is kept: `fresh` is the
money stamped since the cursor, `since[r]` that stamped since run `r` began, both
with the look-back of `OVERLAP_MS`, which is taken to be longer than any
transaction (`Lookback`: what is stamped and not committed). `Start` takes the
lease for a scheduled run, `Chunk` begins a chunk of a backfill, which takes none;
`Expire` ends a lease under a run that is still going, since nothing renews it. So
any runs overlap in any way. `Project` reads, `Find`/`Upsert` enqueue payload by
payload, `WriteCursor` stores the time at which the run began,
`Claim`/`Answer`/`MarkFailed`/`MarkDelivered` send a batch, `Release` ends it,
`Abort` ends it anywhere. TeamOS applies a batch and answers, or its answer is
lost, partial, a refusal or unreadable, or it was never reached; `faults` counts
what goes wrong, whatever it is. Two variables are history. `replaced` is the
things whose row was written anew while another run had sent what it held before
and not yet marked it; `behind` is the money whose row was written with a payload
that may have been out of date, by a run that another one had overtaken with its
cursor or was about to. Both are what overlapping runs do wrong (section 5), and a
thing leaves them as soon as its row is written in order again.

Abstractions: a run reads the cursor and the tables in one step; TeamOS handles a
request before the sender gives up on it, or never; a thing is created in the state
`First`, whatever it is; money being stamped when the very first run starts counts
as inside its window, where the code leaves it to the next run, whose look-back
finds it; members are sent as clients are; the end of a backfill's script is that
of its chunk.

### AutomationJobs, TriggeredRuns

One automation and one contact. A *process* is a trigger, an answer or a worker;
`at[p]` is the statement it is before, `run[p]` the run in its hands, and the
`AutomationSequence` row (`status`, `who`, with the step it goes on at) is shared.
A trigger goes through `CheckContact`, `CancelOld` and `Restart` (the upsert that
takes the row over), then `BeginStep` until a step parks it: a long delay adds a
job and then writes SCHEDULED (`AddJob`, `ParkScheduled`), a wait writes WAITING
and then adds the timeout job (`ParkWaiting`, `AddTimeout`), in the order of the
code. An answer looks for the wait, flips the row (`TakeUp`, guarded) and cancels
the timeout. A worker claims up to `Batch` jobs, reads the row, checks the chat,
and flips the row, defers the job or finishes it unrun; `TimePasses` makes a
RUNNING job old enough to be claimed again, `Die` loses what a process had in
hand. Changes from outside are `Toggle` (the automation), `TakeOver` (the chat),
`OptInOut` (the contact). `Locked` says that workers run under the job lock.

`TriggeredRuns` is what a customer is promised: a trigger begins one run, a run is
going, parked or over, at most one run is parked, and what is over stays over.
`ImplementsRuns` maps the processes' hands and the row to these three.

### ChatFlow, Inbound

`ChatFlow` is one chat in one bot: `Lock`/`Refused` (the lock of 30 seconds in the
process's memory, which `LockExpires` frees under a call that is slow), `TakeInput`
or `StartFlow`, `DoNode` and `KeepSession` for each node of the `Flow`, up to
`MaxDepth`, then `ReleaseLock`, which deletes the lock whoever holds it. Nodes are
known by what they do to the session: send and go on, branch, ask, show buttons,
hand over to the AI, end. `Inbound` extends it with the way of a message from the
200 that Meta gets at once to whoever answers: `CheckDuplicate`, `FindContact`,
`CreateContact`, `FindChat`, `StoreMessage` (the unique key decides a race),
`CountMessage`, `OptOut`/`OptIn`, `GiveToBots`, and for the AI the in-memory queue
of the chat (`AskAi`, `AiStart`, `AiThinks`, `AiReplies`). `config/redis.ts` is a
map in memory in spite of its name, so lock, sessions and queue are lost in a
`Restart`, and chats are assumed to be handled by one process. Media, quotas and
the text of answers are left out; whether an automation answers is a choice,
since AutomationJobs models what it does.

### PlanBilling

One organization. `bill` is the order at Razorpay, `row` the `Payment` that bears
the order's id, `failed` the `Payment` of each attempt that was reported as failed,
which bears the attempt's id and no order's; the attempt that is captured (`by`) may
be one of those, when the bank settles late. Both ids are unique, so `Activate` finds
the insert refused by the row of the order or by that of the attempt (`Blocked`), and
takes either for a sign that another path was faster. `PaymentOf` is the row a refund
finds by the attempt's id. `events` are the webhook events on their way, which are
lost in no particular order. Browser,
`payment.captured`, `order.paid` and an administrator's import are calls that
`Look` and `Activate` (one transaction, begun again when a unique key refuses it),
then `Redeem` the coupon in a transaction of its own whose errors are swallowed.
Refund events and imports set the total they were told (`WriteRefund`). The
subscription row is written beside that by `Cancel`, `Resume`, `Assign`, `Revoke`
(then `WritePlanType`), `ReadEnd`/`Extend`, and by both kinds of expiry, each a
read and a write by id: `CronList`/`CronExpire`, and `GateRead`, `GateStatus`,
`GatePlanType`, which any request starts without waiting. `raced` remembers that
somebody changed the period while an expiry had already found it over; `granted`
how often an order became a period.

### PaymentLinks, SettledLinks

`link` is the link at Razorpay, `row` the `LeadPayment`. Requests and the poll
`Fetch` an answer, which is old by the time it is used, and `MarkPaid` (the guarded
update) or `Close`; what follows is done one effect after the other, and a failing
effect does not stop the rest (`FollowUp`, `FollowUpFails`). The poll is
`PollExpire`, `PollList` (the `Batch` links asked longest ago), `PollNext`,
`PollDone`; `asked` is the order of `lastCheckedAt`, in which a link that is asked
for again moves to the end (`Without`, `Noted`). `FollowUps` is the sequence of what
`markPaid` does, each once: the assumption says that it does not repeat itself. Clients may `Disconnect` their
gateway; `Crash` loses what callers had in hand. One poll at a time is the job
lock's promise together with a flag of the process. `SettledLinks` is the abstract
side: a row says paid only of a paid link and then for good, and each effect
follows once.

## 3 The runs

All of them finish; the numbers are distinct states.

| Run | Instance | What it shows | States |
|---|---|---|---|
| `joblock` | 3 runs, TTL 12, renewal every 3, lag 1, 2 misses (units of ten seconds) | no two at work, the worker's lease is good, only the holder touches it, a dead holder is replaced, refinement of `SingleRunner` | 95k |
| `wallet` | 9 requests of all seven kinds, three begun; opening 3, prices 2, limits 0 and 2 | not negative, books balanced while nobody writes back what it read, credited once, refunded once, always answered | 715k |
| `wallet_lost_update` | 1 debit, 1 adjustment, 1 final charge | **violated**: `NothingLost` | 410 |
| `topup` | 2 instances, one event, 5 periods, 2 faults | credited once by whoever comes, credited means paid, paid leads to credited while attempts and passes are left | 1.17M |
| `campaign` | 2 contacts, 2 instances, 2 loops, 2 operations, 1 fault | sends bounded, charge bounded, sent means messaged, completed means done, outcomes written | 1.26M |
| `campaign_live` | the same with starts and one crash | a running campaign does not stay running for ever | 630k |
| `message_status` | 3 messages (one of each kind), 1 sent, 2 reports, 2 of 6 faults | a row never goes back and a chat only by a stale handler, one refund, refunds settle, a named charge is refunded | 312k |
| `sync` | 1 client, 1 payment, 2 states, 2 changes, 1 scheduled run and 1 backfill that overlap freely, batches of 2, 1 fault of any kind | nothing missed, delivered means there, everything settles, with the exceptions `behind` and `replaced` | 1.22M |
| `automation` | 2 triggers, 1 answer, 2 workers, a delay and then a wait, 4 jobs, 1 upset | one place at a time, a job once, refinement of `TriggeredRuns` | 3.07M |
| `inbound` | a message delivered twice and another one, a bot of 6 nodes, 1 upset | counted and routed once, one call in the flow with the stored session, the AI in turn, no deadlock | 3.28M |
| `billing` | 1 order with a coupon, 2 attempts to pay it, 2 calls, 2 days, 3 operations, 1 upset | extended once, recorded or still being tried, coupon counted, refund never ahead, cut short only by a stale expiry | 3.52M |
| `payments` | 2 links of 2 clients, 1 caller beside the poll, batches of 1, 1 upset | refinement of `SettledLinks`, a paid link is found by asking | 1.11M |

**Bounds, and why they are enough.** The interesting cases need two of
everything and sometimes a third. Three runs of a job are a holder, one that
takes over, and one that comes after both. Three requests of a wallet are two
that race and one that commits between a read and a write; prices of two
against an opening balance of three let one debit through and force the next
into credit or refusal. Five periods on two instances are ten looks at an order,
twice the five attempts, so the budget is used up before the window is, and an
order that is paid late is found with any number of attempts left. Two contacts with batches of
two and two workers have one message in flight while another is written; two
loops on two instances are the least that overlap, and a third loop would be
another copy of the second. Two reports of one message are any pair of SENT,
DELIVERED, READ and FAILED in either order or twice, and messages meet only in
the refund queue, so one at a time is sent. A client and a payment that names
it are the least for which the order in a batch matters; two changes are one
that is seen and one that is not, or one of each thing; two attempts are one
retry and parking, and one fault of any kind meets every overlap of the two runs,
but not a second fault. The invariants behind the theorems were also checked with
two scheduled runs, with three changes and without a fault, and with two faults and
batches of one. In `message_status` faults are kinds of things that go wrong, each
at most once and `MaxFaults` in all: pairs of them are covered, triples are not.

Of automations two triggers are one that is parked and one that takes its row,
the answer and two workers are the three that may take it up, and a delay
followed by a wait has every kind of job; four jobs are all that two runs make.
In `inbound` the repeated message meets itself and another one of the same chat,
and the bot has a node of every way in which a session is kept, ended or handed
over, with a circle that reaches `MaxDepth`. In `billing` one order has all four
paths, of which two at a time meet; two attempts are one that fails and another, or
the same, that is captured; refunds are given in two parts; three
operations are a decline or refund between two changes of the plan, within two
days of a plan that lasts two. In `payments` two links are more than the batch of
one, so each has to wait for the other. One upset each: a failure meets the race
of the others, not another failure.

Symmetry is used in `campaign`, `automation` and `billing` only. They check no
liveness: `ImplementsRuns` has no fairness in it.

**Deadlock** is checked in `joblock`, `sync` and `payments`, whose processes never
stop, and in `inbound`, where `AllDone` is enabled only once every delivery is over:
no queue, lock or crash leaves one stuck. It is not in the others: their requests,
operations, reports and payments are bounded, and a system that has dealt with all
of them stops.

**Fairness.** Everywhere it is assumed that a process that has begun something
goes on unless it is killed (Node runs what is ready), that the database ends
every statement, and that timers fire. Nothing obliges users, customers, TeamOS,
Meta or Gupshup to do anything. In particular:

- `JobLock`: weak fairness of time, of heartbeats and releases that are due, and
  of *some* run's acquiring (every instance tries at every tick of its crontab).
  No job has to finish and no process has to die.
- `Wallet`: each request goes on; for a transaction, commit *or* rollback.
- `TopUpOrder`: `Tick`, the passes, and that a credit once begun ends. None for the
  browser, the retry button or the webhooks: `PaidIsCredited` holds by
  reconciliation alone. It is said of an order that is paid while it has more
  attempts and passes left than there are failures still to come; when the customer
  pays is left open, and of an order that is paid later nothing is said, because
  nothing holds (section 5).
- `CampaignSend`: each loop, and each accepted operation. Starting, pausing and
  recovering from a crash are not required of anybody except that an instance
  that is down comes up again (`Recover` is part of `ServerStep`).
- `MessageStatus`: senders, handlers and the refund queue. Reports need not come.
- `SyncOutbox`: commits, back-off, lease expiry and the steps of a run; strong
  fairness of the scheduler's `Start`, since the lease may be taken again and again,
  but not always at the minute the scheduler comes back.
- `PaymentLinks`: the steps of callers, the poll and the ageing of `lastCheckedAt`.
  Nobody has to refresh, pay, deliver an event or reconnect a gateway, and
  `PaidIsSeen` holds by the poll alone.
- `AutomationJobs`, `Inbound`, `PlanBilling`: none; only safety is checked there.

Every property of a passing run is shown to depend on the code: `PROJECT.json`
pairs it with a plausible bug (a guard dropped, a lock not taken, a status kept)
under which TLC finds it violated.

## 4 The proofs

TLAPS checks these for all values of the constants, from the assumptions named
in the modules.

| Theorem | Module | States | Needs |
|---|---|---|---|
| `LockTypeCorrect`, `WorkerHolds`, `MutualExclusion`, `OnlyHolder`, `Refinement` | `PaymentLinksProofs` | the lock's type; the worker holds a good lease; one at a time; a lease that was lost is not touched; every step is a step of `SingleRunner` or a stutter | `Timely` except for the type and `OnlyHolder` |
| `TypeCorrect`, `NeverNegative`, `BooksBalance`, `CreditExactlyOnce`, `RefundAtMostOnce` | `WalletProofs` | the balance is not negative; the books balance until somebody has written back a stale read; one credit for a payment; one refund for a message, at what it cost | |
| `OrderTypeCorrect`, `OrderIsCreditedOnce`, `CreditedMeansPaid` | `WalletProofs` | the safety of one order, for any number of instances, periods and faults | |
| `TypeCorrect`, `SentWereMessaged`, `CompletedAreDone`, `OutcomesAreWritten`, `SendsAreBounded`, `NeverOvercharged` | `CampaignSendProofs` | all safety of the campaign loop, for any number of loops, instances, contacts and workers | |
| `TypeCorrect`, `PaidBackAtMostOnce`, `NeverGoesBack` | `MessageStatusProofs` | one refund for a charge; no report takes a row back, nor a chat but by a stale handler | |
| `TypeCorrect` | `SyncOutboxProofs` | types: at most `MaxAttempts` attempts for a row, `MaxBatches` batches for a run | |
| `DeliveredMeansThere`, `WindowMissesNothing` | `SyncOutboxProofs` | the safety properties of the sync, for any number of runs that overlap in any way | |
| `TypeCorrect`, `RunsGoOnAlone`, `Refinement` | `AutomationJobsProofs` | one place at a time; the rows implement `TriggeredRuns` | |
| `JobsRunOnce` | `AutomationJobsProofs` | a job takes effect once | `Locked` |
| `TypeCorrect`, `NeverExtendedTwice`, `NeverAheadOfRazorpay`, `CutOnlyWhenOver`, `EveryPaymentRecorded`, `CouponsCounted` | `PlanBillingProofs` | all properties of `billing`, for any number of orders, attempts and calls | |
| `TypeCorrect`, `RoutedAtMostOnce`, `SessionHasOneOwner`, `AiAnswersInTurn` | `InboundProofs` | all properties of `inbound`, for any number of messages, deliveries and nodes | |
| `LinksTypeCorrect`, `LinksAreSettled` | `PaymentLinksProofs` | types; every step is a step of `SettledLinks` or a stutter | |

**Job lock.** `Timely` is `(MaxMisses + 1) * RenewEvery + 2 * MaxLag < Ttl`: the
TTL outlasts the worst series of late and failed heartbeats. With 30 s and 120 s
this allows two failed renewals in a row while the database answers within 15 s,
or one while it answers within a renewal period. Mutual exclusion is not inductive. The invariant adds that an
idle run has no timer set, that a heartbeat in flight is answered within its
lag, and, the heart of it, `LeaseOutlasts`: a worker's lease is longer than the
time to its next heartbeat plus all it may still miss. So the lease of a worker
never reaches zero, nobody else finds it free, and there is one worker.

**Wallet.** Not negative needs three facts at once: only one transaction has the
row open (`OneHolder`), an open debit still finds the balance its WHERE clause
found (`OpenIsCovered`, because a writer waits for the holder), and no snapshot
was taken of a negative balance, since the absolute writes are computed from
snapshots. One credit for a payment needs `CheckedIsFresh`: what a credit found
under the lock is still true when it commits. The books need the same, since
the credit writes back what it read; they fail as soon as a function without a
lock has written, which is the hypothesis of `Books`. Refunds rest on the unique
index and on the ledger only growing.

**Top-up.** Credited once needs `LookedUnderLock`: who is between its look and its commit has the wallet locked, and if it found no
credit there is still none, because nobody else can have written one. The status of
the order plays no part in it, which is why an order that verify has failed may be
tried again. Credited means paid needs that whoever is about to credit has seen a
payment (`PaidOnRecord`).

**Sync.** `Bounds` (types, attempts left on what is PENDING, batches left where one is
claimed) comes first. Delivery rests on `SentIsQueued`: of a row that is not
`replaced`, what a run has sent and not yet heard of is what the row holds, and what
it has heard is done is what TeamOS holds. It is kept under any overlap because a row
changes its value in one place only, `Upsert`, and whoever is on its way with the row
at that moment makes it `replaced`. The window rests on four facts about every run
and the cursor: what is being written was stamped since the cursor and since each run
that is reading began (`WritingIsFresh`); what a thing that is not there has in rows
and in hands is nothing (`NeverNothing`); what changed after a run read it was
stamped since it began (`GotIsThere`); and a run that will write the cursor has
enqueued, or has in hand, all that was not stamped since it began, but for what is
`behind` (`CursorMayMove`). The last is the one that another run could break: an
`Upsert` of something older than what such a run has already passed, which is the
definition of `OutOfDate`.

**Campaigns.** `Shape` says where a loop may hold contacts and what it has decided.
`SentWereMessaged` needs that what a loop has in hand to write was sent (`Backed`).
`CompletedAreDone` needs `Done`: from a final count that finds nobody waiting until
COMPLETED is written, no row can become waiting again except through retry, since
pausing, expiry and recovery only give back rows that were waiting. `OutcomesWritten`
needs that on a smooth course what is sent and not yet in its row is in the hands of
a loop that will flush it (`InHand`). `SendsBounded` counts: a row is a token that
is either free or held, so the times a contact was sent to plus the loops that hold
it never exceed the times its row was handed out (`Tokens`); a death delivers any
number of requests in flight at once, which is why the proof counts sets of loops.

**Message status.** `OneName`: a message is refunded under the name its charge bears
then; the charge of one that was never sent keeps its first name, and that of one that
was sent is refunded under its last, so the ledger's unique key stops the second. For
`NeverGoesBack`, a row is written under the guard of what was read, and the reading
was forward (`Handlers` in `Shape`).

**Automation.** Each step is one of five things to the abstract run (`Happens`):
nothing changes, or one process begins, parks, takes up or ends a run. That two never
do the same run (`Unique`) follows from that and from `Owned`: a parked row names a
run, answers and workers have one only while they go on with it, and the run of a
trigger that has not begun is nowhere. `JobsRunOnce` rests on `Once`: with the lock
there is one worker, what it holds is RUNNING and has not fired, and what has fired is
DONE. Claiming a RUNNING job again, ten minutes later, is safe for that reason only.

**Billing.** `Truth` ties the calls in flight to the order: what a call knows of a
refund is no more than was given back, a row that shows an order as paid was written
with the period (`Booked`). `Cut` says that without a race whoever is about to expire
found it over, and time does not go back. `Pending` follows a payment: until it is on
record, an event announces it or a call carries it. `Tally` is the coupon's
transaction: counter and redemption are written together.

The charge (`NeverOvercharged`) is a sum over contacts against a sum over loops. Sums
are folds, and what a fold computes needs induction; so the total is the number of
pieces, one for each message to each contact (`Pieces`), and the same of what each loop
has counted. `PaidFromSent` says that what was charged and what the loops have yet to
charge was sent: an answer adds one piece on both sides, a count takes away what it
charges at most, and a loop that is freed or dies only forgets.

**Inbound.** Four facts beside the types, each about who may be where. `OneStorer`: of
the deliveries of one message, the one whose row the unique key let in is alone behind
`StoreMessage`, and has not routed; nobody is behind it for a message that is not
stored. That holds whatever `CheckDuplicate` read, which is why a stale look does no
harm. `AloneInside`: until a lock has expired under a call (`late`), whoever is inside
the engine has the lock and is alone, so the session it walks with is the one stored.
Types rest on two more, that a call which asks for the lock has tries left (`Asking`)
and one that walks has a session (`Walking`), and on `Fresh`, a delivery not yet given
to the bots has made no call. `ChainIsQueue`: the chain of a chat holds exactly the
deliveries that wait for the AI agent, think or reply, each once; `AiInTurn` follows as
only the head is started and leaves from the head.

**Payment links.** The refinement of `SettledLinks` needs to know what a caller carries
with it. `AnswersHold`: an answer that a link is over stays true however old it gets,
for a link at Razorpay is over once; so a row that is written by it tells the truth.
An answer "open" may be stale, and nothing is written by it. `OneCreator`: a row is
inserted by the caller that created the link, and nobody deals with a link before it
has a row (`Busy`). `NothingFollows` and `OneFollows`: before a row says PAID no effect
was done, who won the row is alone with its effects, and those still to come have not
been done. That is where the guard of `Wins` is used, and the order and distinctness of
`FollowUps`. `AskedOnce` comes with the types: the order of `lastCheckedAt` has each
link once, as a row has one value of it.

**Only model-checked**, because the prover cannot: everything under fairness
(`PickedUpAgain`, `Answered`, `PaidIsCredited`, `Finishes`, `RefundSettles`,
`NamedIsRefunded`, `Settles`, `PaidIsSeen`), which needs `ENABLED`. Every safety
property and every refinement that a run checks is also a theorem, with the exception
of `NothingLost`, which does not hold (section 5).

## 5 Where the code does otherwise

One run shows a disagreement of the code with what its comments say;
`PROJECT.json` quotes the line.

- `wallet_lost_update`: the final charge of a campaign and the admin adjustment
  write back a balance read without a lock, so a debit or refund that commits in
  between is lost.

Seen in the models, or in reading for them, and without a run of their own:

- Campaigns: two instances that start one scheduled campaign send to a contact
  twice, because a loop that begins puts back all QUEUED rows, also those another
  instance has in flight (`campaigns.service.ts:2082`; `server.ts:213` starts
  without a lock). `SendsBounded` counts those as handed out once more.
- Campaigns: retry leaves the pause and cancel signals of its instance set
  (`campaigns.service.ts:1085`), so its loop stops at once and the campaign stays
  RUNNING with nobody sending.
- Refunds: a failure reported before the charge bears Gupshup's id is never
  refunded (`gupshup.router.ts:127`, `wallet.deduction.service.ts:518`).
- Sync: a row is marked delivered by its id alone (`sync.outbox.ts:207`). If another
  run has written it anew since it was sent, what it holds now is marked DELIVERED
  without having been sent, and the fingerprint keeps it from being queued again.
  `sync.backfill.ts:37-41` says of a backfill beside the live sync that "The two can
  run at the same time: both upsert the same outbox rows, and the fingerprint makes
  the loser a no-op", and `sync.service.ts:9-15` calls the lease "an efficiency
  measure, not a correctness one". `DeliveredIsThere` without `\ replaced` is violated
  in the instance of `sync`.
- Sync: a run that has read a payment and is slow to enqueue it writes an older state
  over the one that a faster run has queued meanwhile; if the cursor has moved past
  the change by then, the newer state is not read again until the payment changes.
  `NothingMissed` without `\ behind` is violated in the same instance.
- Automation: a job of an old run that is already RUNNING, or a timeout that the old
  run adds after a new trigger has taken its row over, takes the new run up before
  its time (`automation.engine.ts:693` cancels PENDING jobs only). Still only one
  place goes on with it. The comment at `automation.engine.ts:683-684` wants a new
  trigger to take the place of the old run, so that no follow-up left over from it
  acts on the new one; for such a job the code does not keep to that.
- Incoming messages: a process that dies after `message.create` leaves a message that
  is never counted or routed, since its redelivery is a duplicate; a new contact may be
  counted twice against the plan; a call that is refused the chat's lock for the last
  time drops the message and returns that it dealt with it; a chat's lock is released
  by whoever finishes, also when it has become another's.
- Billing: an expiry that listed a plan before it was renewed ends the renewed one
  (`CutOnlyByRace` says that nothing else does); a coupon's limit is checked at
  checkout and not when it is counted; a refund event that comes late lowers
  `refundedAmount`; `activatePlanFromOrder` calls itself again on every violated
  unique key (`billing.service.ts:957-961`), and does so for ever if the attempt that
  was captured is on record as failed, since it looks for the order and the key is the
  payment's. `recordFailedPlanPayment` has a comment on the neighbouring case, a second
  attempt of the same order (`:1021-1026`), and leaves the order's id out of the row
  for it; a late success of the same attempt it does not consider. In `PaidIsRecorded`
  such a call is one that is still trying (`Waiting`); that it ends is not said.
- Payment links: a link whose client has no gateway is listed by the poll and never
  noted as asked, so fifty of them fill every batch (`PaidIsSeen` excepts them); a
  death between PAID and what follows loses what follows; a link exists at Razorpay
  before its row does; a link paid just before it expires here, with its event lost,
  stays EXPIRED.
- Job lock: four renewals in a row that fail or hang outlast the TTL while the
  job goes on (the loss is only logged), and the job then runs twice.
- Wallet: the credit headroom is checked on the read and incremented unguarded,
  so parallel sends can draw more credit than the limit
  (`wallet.deduction.service.ts:437`); the low-balance alert waits for its own
  row lock until the transaction times out (`:490`), so that debit is rolled
  back; the monthly limit is checked at order and counted at credit.
- Top-up: an order found unpaid five times is not looked at again
  (`wallet.reconciliation.service.ts:32`; two instances need fifteen minutes for
  that), so a customer who pays later depends on the webhook and the retry button,
  where `wallet.service.ts:593-596` counts on reconciliation to settle what fails.
  `PaidIsCredited` without `AttemptsLeft` is violated in the instance of `topup`.
- Campaigns: an automatic pause drops the outcomes in flight and the final
  charge (`campaigns.service.ts:2771`); `stopCampaign` is tested after a send but
  never set (`:2606`); COMPLETED is written over CANCELLED (`:2872`); updates of
  single rows are settled without looking at their results (`:2955`).
- Reports: a chat's status can go back when a handler writes over a newer one
  (`webhook.service.ts:1599`; the exception in `NeverBack`); a READ is dropped when its optimistic update
  loses (`:1763`); a report that arrives before the flush finds no row and is
  not tried again (`:1735`); counters are written absolutely (`:1828`); the
  emergency delivery rate counts reads twice (`:2105`).
- Refunds: the limit is checked first and the refund queued later; the queue is
  lost with the process, and rows put aside in `refund_retry_queue` are read by
  nobody.

## 6 What is not modelled

Within the modelled parts: creation and editing of campaigns, upload of
audiences, display counters and progress events; the size-dependent refund limit
(a choice in `Judge`); all webhook fields but messages and statuses;
the payloads of the sync, their signing and its settings; the plan-purchase
branch of the top-up webhook (its effect is `Activate` of `PlanBilling`); what an
automation's or a bot's nodes send, their conditions and variables; keyword and media
matching; the daily trigger; the AI's prompts, tools and quotas; media and its backup;
calls, account and template events; usage counters, invoices and the effect of plan
limits; the WhatsApp message that carries a payment link, and what is written on leads
(two of the four effects are in the run, all are in the model); rates and rounding of prices (amounts are small
numbers, all arithmetic is on whole paise in the code); monthly spending limits.
Money is unbounded: the columns are 32-bit and hold amounts far above what a
wallet reaches. Outside them: the second table of section 1. What remains there is of three kinds:
single-row requests behind role checks (contacts, CRM, inbox, organisations,
administration), wrappers of external services (Meta, WhatsApp, Gupshup, templates,
Telegram, Instagram) and reports. Their correctness is in fields, formats and queries,
which a state machine would only repeat. Two have races of their own, calls that
several agents answer and the rotation of refresh tokens; each is one guarded update,
and they are left for later. The models stand for about a tenth of the lines of the
implementation for that reason.

## 7 Plan

Done, in this order: `JobLock` with `SingleRunner`, `Wallet`, `TopUpOrder`,
`CampaignSend`, `MessageStatus`, `SyncOutbox`, `AutomationJobs` with `TriggeredRuns`,
`ChatFlow` with `Inbound`, `PlanBilling`, `PaymentLinks` with `SettledLinks`, and the
proofs of section 4.

To model next: the answering of calls and the rotation of refresh tokens (one winner
of a race each); the upload of a campaign's audience while it is being started.

To prove next, beyond what the runs check: that the transaction of `TopUpOrder` is the
one of `Wallet`, seen from one order; and that the workers of `AutomationJobs` are one at a time
because they run under a lock that implements `SingleRunner` (`Locked` is an
assumption there).
