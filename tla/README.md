# Verification of the Maphari backend

TLA+ specifications, TLC model-checking runs and TLAPS proofs for the services of this
repository. `PROJECT.json` is the machine-readable index: components, runs, mutants, the map
from every definition to the source lines it stands for, findings, hazards and theorems.

    tlc  -config MCNotificationQueue_race.cfg MCNotificationQueue   # one run
    tlapm NotificationQueueProofs.tla                               # one module's proofs

## 1. The system

Maphari runs an agency's business: leads, clients, projects, invoices, messages, files. It is
a set of TypeScript services behind a gateway. Requests travel as HTTP calls from the web
application through the gateway to a service; events travel over NATS between services; state
is in PostgreSQL (one schema per service, through Prisma), in Redis, and here and there in the
memory of a process. Each service is one Node process: between two `await`s nothing else of
that process runs, and at every `await` anything may.

| Component | State | Operations | Interacts with |
|---|---|---|---|
| notifications: delivery queue (`queue.ts`) | `notification_jobs`, `notification_dead_letters` | enqueueJob, processNextJob, applyProviderCallback | polled by `index.ts`, called by routes and by event subscriptions; calls mail, SMS and push providers |
| notifications: inbox, routes, subscriptions | the same rows; nonces in Redis | list, mark read, counts; callback checks; one or more jobs per event | event bus, gateway, providers' callbacks |
| automation: event handling (`subscriptions.ts`) | idempotency keys (memory and Redis), job records (Redis), audit log (memory) | one handler per topic, attempts, backoff, dead letters | event bus; adapters call core, billing, notifications |
| automation: scheduled notifications (`persistence.ts`, `adapters/notifications.ts`) | one Redis record each, one pending list | schedule, claim, dispatch, mark | event handling schedules, a timer flushes |
| automation: administration (`app.ts`) | job and dead-letter indexes in Redis | list, acknowledge, requeue | the web application |
| billing: loyalty credits (`loyalty.ts`) | accounts and transactions, two kinds of cache entries | redeem, issue, read one, read all | Redis |
| billing: invoices, payments, PayFast | invoices, payments | create, pay, notify | PayFast, core, which reads the payments back |
| billing: reminders (`invoice-reminders.ts`) | preferences, reminder dispatches | prefer, sweep, remind by hand | core for contacts, notifications for the job |
| auth: sessions and passwords (`auth.ts`) | users, refresh tokens, codes in memory | register, login, 2FA, refresh, logout, change and reset of a password | gateway, event bus |
| gateway | revoked tokens and request counters in Redis | authenticate, limit, forward | every service |
| core: payment milestones and project status (`projects.ts`) | project activities, projects | confirm a stage, change a status | billing, for the payments and the final invoice |
| core: the rest | clients, tasks, leads and much more | mostly one query per route | event bus |
| files, chat, public-api | uploads, messages, API keys | upload and confirm, send, issue and revoke | object storage, Socket.IO, core |
| ai, agent, analytics, web | little or none | calls to outside services, presentation | |
| packages/platform | connections to NATS and Redis, counters | publish, subscribe; getJson, setJson, delete; rate limits | every service |

### What is hard about it

* **Timers that do not wait.** `setInterval` starts `drainQueue`, the reminder sweep and the
  scheduler whether or not the last run has ended; only the scheduler has a guard.
* **Read, await, write.** Balances, attempt counters, pending lists, idempotency keys and
  payment statuses are read in one call and written in another.
* **Two stores, two writes.** A status and a dead letter, a payment and an invoice, a Redis
  record and its list, a transaction and a cache entry: the process may stop in between, and
  the second write may fail.
* **Redis that is optional.** `RedisCache` answers null and drops writes while it is not
  connected, and rejects when a call fails: a missing key and a missing server look alike.
* **Events at most once.** `NatsEventBus.publish` drops what it cannot send, and `subscribe`
  logs the error of a handler and goes on. Senders may repeat an event all the same.
* **Callbacks from outside.** Providers and PayFast report when they like and as often as they
  like, also about what is being processed.

### What would make each part correct

* Delivery queue: one job per request, bounded offers and deliveries, every job settled, a
  settled job stays settled unless a provider says otherwise, no failure without a dead letter.
* Scheduled notifications: delivered once, settled when due, lost only with a named cause.
* Event handling: a workflow completes once per event, every event is concluded on record, the
  record says what happened.
* Loyalty: the transactions explain the balance; nobody redeems what was not credited; the
  cache comes to show the database.
* Payments: a notice that was answered is recorded and its milestone confirmed; a milestone is
  confirmed once per reason; a project is handed off when its last stage was paid.
* Reminders: one per invoice, interval and channel; a claimed one is enqueued or its failure is
  known; a wanted one is claimed.
* Sessions: one live token per login; a session that was ended stays ended; no session of an old
  password outlives the change.

## 2. Modules

    NotificationQueue        <- MCNotificationQueue,      NotificationQueueProofs
      NotificationDelivery   :  the queue implements Delivery, NotificationDeliveryProofs
    ScheduledNotifications   <- MCScheduledNotifications, ScheduledNotificationsProofs
      implements Delivery
    AutomationWorkflow       <- MCAutomationWorkflow,     AutomationWorkflowProofs
    LoyaltyLedger            <- MCLoyaltyLedger,          LoyaltyLedgerProofs
      implements Ledger
    AuthSessions             <- MCAuthSessions,           AuthSessionsProofs
      implements LoginSessions
    ProjectPayments          <- MCProjectPayments,        ProjectPaymentsProofs
      implements Handoff
    InvoiceReminders         <- MCInvoiceReminders,       InvoiceRemindersProofs

`Delivery`, `Ledger`, `LoginSessions` and `Handoff` are the abstract specifications: what a
component promises those who use it, with no process, no cache and no call in progress. Each is
instantiated with a refinement mapping in the component that implements it, a run checks the
refinement as a PROPERTY, and a theorem proves it for every instance.

Every module follows one scheme. State that outlives a request (rows, Redis keys) is a variable;
an operation in progress is a process with a `pc` and the local values it has read, and each
`await` on a database, Redis, a provider or another service ends a step. What a run counts only
to state a property (calls made, completions, faults) is kept in history variables of their
own; the code has no such state. The refinements are mapped with them, so that what an abstract
specification says of counts and reasons is what happened and not what a row claims.
Definitions named as mutants in a comment are what a plausible
bug would make of a definition; no action uses them.

### NotificationQueue

| Model | Code |
|---|---|
| `row[j]` | a `NotificationJob`: status, attempts, nextAttemptAt (as `due`), deadLetteredAt, idempotencyKey |
| `worker[w]` | one execution of `processNextJob`: from the timer, from `POST /notifications/process`, or both |
| `EnqueueMiss`, `EnqueueCreate`, `EnqueueConflict` | `enqueueJob`: look up the key, insert, or lose to the unique index. A request whose key exists is answered with the row and is no step |
| `PickJob`, `CountAttempt` | `findFirst` of the oldest ready job; `attempts: { increment: 1 }`. The attempt number comes from the row as read first |
| `RetryLater`, `GiveUp`, `WriteDeadLetter` | the simulated outage, and the failure of a last attempt, which is found *before* the provider is called |
| `Dispatch(w, taken, success)`, `Settle` | the provider call (did the provider take the message, and is that what the queue hears) and the write after it |
| `ProviderCallback`, `CallbackDeadLetter` | `applyProviderCallback` |
| `AbortWorker`, `AbortHandler` | a query that throws, a call that never returns, a process that stops |

Jobs are numbered in the order of `createdAt`. The request id is part of the idempotency key, so
the requests of one key are retries of one request. A provider that is not configured answers
with success (`email.ts`, `sms.ts`, `push.ts`) and counts as one that took the message.
`delivered` counts the messages that providers took, `acked` the successes the queue was told of.
The two differ by `lost`: the SMS call is given ten seconds, and a provider that took the message
but answered late, or whose answer was lost, is an error to the queue, which sends it again. With
`maxAttempts` = 3 a job is offered to a provider twice at the most by one worker, because the last
attempt is given up before the call.

Fairness (`FairSpec`): the poll of `index.ts` calls `drainQueue` every few seconds for as long
as the service runs, so each execution goes on (weak fairness of `Process(w)`), and time passes
(`BackoffElapses`). Nothing is assumed of callers, callbacks or failures.

### Delivery and NotificationDelivery

`Delivery` is what the callers of `enqueueJob` may rely on, with no queue in it: a message is
accepted once; each provider report opens a round, in which every execution may deliver once; a
message is called SENT only if it was delivered, is shown in the application only, or a provider
reported it; once concluded it is reopened only by a report; an execution cut short costs one
further delivery, and so does a delivery whose answer is lost (`DeliverUnheard`).
`NotificationDelivery` maps the queue to it: `row[j].status` is the status of message `j`,
`delivered` the deliveries, `confirmed` the reports of success, `callbacks` the rounds and
`aborts + lost` the cuts. Workers, attempts, backoff, dead letters and callers that lose a race become
stuttering steps. `DeliversAsPromised` is the property that every behaviour of the queue is one of
`Delivery`: checked by `queue_race` and proved by `QueueDelivers`. The scheduler implements the
same `Delivery` with other parameters (below): its messages are `Perishable`, because a record in
Redis lives for a limited time, and those of the queue are not.

### ScheduledNotifications

| Model | Code |
|---|---|
| `record[r]` | `ScheduledNotificationRecord` in Redis; `due` says that `scheduleAt` has passed |
| `pending` | the list under `notify:pending`, newest first |
| `StoreRecord`, `ReadList`, `WriteList` | `enqueueScheduledNotification` and `pushIndexKey` |
| `StartCycle`, `ClaimRecord`, `PassRecord`, `MissRecord`, `EndScan` | `claimDueScheduledNotifications` |
| `Dispatch`, `Mark`, `CycleThrows` | `flushDueScheduled`: each claimed record is sent and marked; a throwing mark of "sent" is caught and becomes a mark of "failed" |
| `lost` | the call was made while Redis was not connected: a read is null, a write nothing |
| `SenderThrows`, `CycleThrows` | the call rejects |
| `FallsDue`, `Expires`, `Crash` | time, the time to live of a record, a restart |
| `batchSize` | `schedulerBatchSize`, read from the configuration when the service starts |
| `atRisk` | history: the notifications that an accident was about |

One process touches a record at a time, so its `get` and `set` are one step; the list is read
and written by many, so they are two. A cycle compares with the instant at which it started,
so nothing falls due during a scan. Only a record scheduled further ahead than `jobTtlSeconds`
expires while it waits; records that are settled may expire in the code too, which no property
tells apart. `getScheduledQueueStats` feeds metrics and changes nothing. The variant of the
persistence that keeps everything in memory is not modelled.

`SchedulesAsPromised` maps the scheduler to `Delivery` with one sender and no reports: a record is
QUEUED while it is pending or processing, `delivered` counts the calls that the notifications
service accepted, and each failed Redis call (`faults`) may cost one further delivery. What
`Delivery` then says is that a notification is stored once, perishes only while it waits, is marked
sent only for a delivery, and never waits again once it was marked.

Accidents are kept one by one. An id joins `atRisk` when a call about it fails, when the read of
the list it was on answers null, when the service stops or a cycle ends with it in hand, when it
is put on the list while another change of the list is under way, when it is cut off at
`maxJobHistory`, and when it expires. `NothingIsLost` and `DueIsSettled` speak of all the others,
so that no accident excuses the loss of a second notification.

Fairness: the timer of `index.ts` starts a cycle every few seconds unless one runs
(`schedulerRunning`), and a call ends (`FairSpec`). `TimelySpec` adds that time passes, which only
`ScheduledIsSettled` needs, as it speaks of notifications that are not due yet.

### AutomationWorkflow

| Model | Code |
|---|---|
| `inbox[t]`, `Arrive` | the subscription of a topic: messages in order, the same event possibly again |
| `loop[t]` | the handler at work on the topic's message (`for await` in `event-bus.ts`: one at a time) |
| `Take` | validation and the look-up of the event's key in memory and in Redis |
| `RecordReceived`, `StartAttempt`, `RecordEnd` | the saves of "received", "processing", and the final saves |
| `Perform`, `Refuse` | `performWorkflow` as `Steps` adapter calls; a refused call may have had its effect |
| `RecordSuccess`, `MarkProcessed`, `SuccessRejects` | the two Redis calls that are still inside the try block of the attempt |
| `RecordFailure`, `BackoffElapses` | the catch block |
| `HandlerRejects` | a save outside the try block rejects; the bus logs it and takes the next message |
| `RecordThrows` | `upsertAuditRecord` reads `clientId` from the event or its payload: an invalid event with neither (`Unrecordable`) throws there, before anything is saved |
| `Crash` | the memory of the process and the messages it had received are gone |

`processed` and `remembered` are the two places of the idempotency keys. `saveJob` is the write
of the job record; the indexes it also updates, the audit log in memory, and the time to live of
keys (seven days) are not modelled: the properties about repeated events hold within that time.
Events without a payload do not pass the validation of any topic of automation, so `Unrecordable`
is a part of `Invalid`. A topic's events are its own (`TopicOf` is a function:
event ids are UUIDs).

Fairness: a loop goes on with its message; a `fetch` ends.

### LoyaltyLedger

| Model | Code |
|---|---|
| `account[c]` | the `LoyaltyAccount` row: exists, balancePoints, totalEarned |
| `credited`, `redeemed`, `commits` | sums and count of the `CreditTransaction` rows |
| `cache[k]` | the entry of one account or of the list, as the number of transactions it shows of each account |
| `Redeem`, `Issue` | the routes up to their first query: `findUnique` with the check, `upsert` |
| `Commit`, `CommitFails` | the `$transaction`, with values computed from what was read |
| `Clear` | `setJson(key, null, 0)` for two keys: connected, Redis refuses a time to live of 0 and the request ends in its catch block; not connected, nothing happens |
| `Get`, `Query`, `Fill` | the two GET routes; a hit is no step |
| `Expires`, `Crash` | sixty seconds; a restart |

Requests that are refused change nothing and are no steps. Points that are no integer or leave
the range of the column make the transaction fail (`CommitFails`).

`Ledger` has no requests and no reads: `Credit` and `Redeem` post one transaction whole, onto the
balance that the last one left. An account on which two writes overlapped, or an admin redeemed
more than there was, is `loose`: it still never shows less than nothing or more than was credited
to it, but no longer the exact sum. `PostsAsLedger` says that every step of the routes posts one
transaction, makes an account loose, or is not seen: a lost update is confined to its account and
to those bounds, and a failed transaction posts nothing.

Fairness: a request goes on to its end; Redis removes an entry that nobody writes again.

### AuthSessions

| Model | Code |
|---|---|
| `role`, `active`, `password` | the columns of `User` that decide who may sign in; a password is a number, the next one each time it changes |
| `token[t]` | a `RefreshToken`: its user, `revokedAt`, its age (`lastUsedAt`, `expiresAt`), and the login it derives from |
| `LoginReads`, `LoginCreates` | `/auth/login`, `/auth/2fa/login`, `/auth/google/exchange`: the user is read and checked, then a token created |
| `RefreshReads`, `RefreshRotates`, `RefreshTimesOut` | `/auth/refresh`: the token is checked in one query; the transaction revokes it by id and creates its successor, or an idle one is revoked |
| `Logout`, `RevokeAllSessions`, `Lockdown`, `RevokeStaff` | one `updateMany` each |
| `ChangeReads`, `ChangeWrites`, `ChangeRevokes` | `/auth/password-change`: verify, write, sign out everywhere |
| `ResetPassword`, `RegisterAdmin`, `Activate` | the writes of a password or of `isActive` that sign nobody out |
| `Ages`, `Abort` | time; a query that rejects |

`ended`, `raced` and `settled` are history. A session is `raced` when a refresh rotated a token
that was revoked after it had read it, or a login created one for a password that had changed:
the code has no check between its read and its write. The properties say that this is the only
way for a session to be doubled, to come back, or to outlive a change of password.
A reset by mail and `/auth/admin/register` write a password and leave the sessions alone, so
`OldPasswordSessionsEnd` is about changes.

`LoginSessions` is what the owner of an account sees: a login opens a session, a sign-out closes
one, all of an account, or all there are, and the end of a password change closes those of the
account. Tokens, rotation, expiry and requests in progress are hidden. A session is known by the
first token of its login and is open while one of its tokens is live (`LoginOf`, `Logins`). The
exception is in the promise too: a login with a password that is old by now, and a session that
goes on after its end (`Resume`), are `stale`. `TokensActAsSessions` adds to the three invariants
what relates steps: a rotation neither opens nor closes a session, a closed one opens again by
`Resume` only, and user and password of a session never change.

### ProjectPayments

| Model | Code |
|---|---|
| `Deliver`, `RecordPayment`, `MarkPaid`, `Answer` | `POST /payfast/itn`: a payment is created, the invoice set PAID, core called, the notice answered; PayFast repeats what was not answered |
| `VerifyPayment`, `LogMilestone` | `POST /projects/:id/payment-milestones` of core: the payment is read back from billing, then the activity logged |
| `PostPayment`, `PatchReads`, `PatchWrites`, `PatchInvoice`, `ConfirmByHand` | `POST /payments`, `PATCH /payments/:id`, `PATCH /invoices/:id`, the milestone confirmed in the interface |
| `StatusReads`, `StatusChecks`, `StatusWrites`, `IssueFinal` | `PATCH /projects/:id/status` and the final invoice that follows it |
| `BulkStatus` | the routes that write a status and ask for no milestone |
| `CallFails`, `Abort` | a call between the services that fails; a process that stops, on one side or on both |

A payment is named by what it was recorded for: a delivery of a notice, or a request. The stage is
what the description of the invoice says (`DEPOSIT_50`, `MILESTONE_30`, `FINAL_20`); core's schema
knows the last two only, so the call for a deposit is always refused although billing logs a
confirmation. Billing reads the stage from `Invoice.projectId` and `Invoice.description`
(`payfast.ts:184-191`, `payments.ts:232-241`), and none of its routes writes these columns
(`invoices.ts:136`, `schemas.ts:744`): an invoice made through the API has no stage (`StageOf` is
"none"), and what is said of automatic confirmations is about rows that were filled in by other
means. Billing goes on whatever core answered. `history` says for each payment how often it
is owed a confirmation: each time it becomes COMPLETED, each request by hand, and each update that
was decided with a status out of date.

`Handoff` is the agreement with the client and PayFast, without invoices, requests and calls between
services: payments are made and corrected, a stage is confirmed by a payment that was made and no
more often than asked (`Confirm`), a notice is answered when it is recorded and its stage confirmed
or excused (`Answer`), and the project is completed through its status route, and the final invoice
issued, on the last stage only (`SetStatus`, `IssueFinal`); `ForceStatus` is the route that asks for
nothing. `HandsOverAsAgreed` demands this at the step at which each of them happens.

### InvoiceReminders

| Model | Code |
|---|---|
| `preference`, `recipients`, `open`, `day` | `InvoiceReminderPreference`, the contacts core knows, the invoices that are ISSUED or OVERDUE, today |
| `claimed` | `InvoiceReminderDispatch`: the keys taken, under their unique index |
| `worker[w]` | a sweep (`dispatchScheduledInvoiceReminders`): preference, contacts, due invoices, then channel by channel |
| `Claim`, `Call`, `CallFails` | the claim (`ON CONFLICT DO NOTHING`), the call to the notifications service; one that throws leaves the invoice's other channels to the next sweep |
| `ClaimFails` | the claim itself throws, with or without its row in the table; what it leaves is the same |
| `Stop` | the process ends: nobody catches what a sweep throws outside of an invoice |
| `Prefer`, `InvoiceChanges`, `ContactChanges`, `Tick` | everything around |

The key holds the invoice, its date, the interval and the channel; dates do not change, and a new
interval allows another reminder. The call sends no idempotency key, so only the claim stands
between two sweeps and two messages. A reminder by hand claims nothing and leaves no state in
billing.

Fairness: `setInterval` starts sweeps for ever, a call is answered or fails.

## 3. Runs

| Run | Instance | States | Checks |
|---|---|---|---|
| `queue_race` | 2 workers, 2 callers, 1 job, 3 attempts, 2 callbacks, 1 abort | 244,840 | TypeOK, CallsAreBounded, DeliveriesAreBounded, FailureIsRecorded, DeliversAsPromised |
| `queue_settle` | 1 worker, 2 callers, 2 jobs of 4 kinds, 2 attempts, 1 callback, 1 abort | 413,914 | OneJobPerKey, SentIsJustified, QueuedIsSettled |
| `schedule_settle` | 1 sender, 3 notifications, list of 2, batches of 1 and of 2, 2 faults, 1 restart | 1,066,735 | TypeOK, DeliveredOnce, NothingIsLost, SchedulesAsPromised, DueIsSettled |
| `schedule_overlap` | 2 senders, 2 notifications, no failure | violation | ScheduledIsSettled |
| `workflow_repeat` | 3 events of a topic: a valid one received 3 times, an invalid one, one invalid and unrecordable; 2 attempts, 2 refusals, 2 faults, 1 restart | 526,775 | TypeOK, CompletedOnce, EffectsAreBounded, SuccessIsReal, CompletionIsRecorded, MarkedIsFinal, ReceivedIsConcluded |
| `workflow_once` | 1 event received once, 1 fault | violation | NeverCompletedTwice |
| `loyalty_ledger` | 1 client, 2 requests, 2 amounts, 2 transactions, 1 fault, 1 restart | 713,132 | TypeOK, BalanceWithinCredits, BalanceExplained, PostsAsLedger, CacheSettles |
| `loyalty_stale` | 1 request at a time, Redis always there | violation | InvalidatedOnWrite |
| `loyalty_twice` | 2 requests | violation | OwnCredits |
| `sessions_overlap` | 1 account, 2 requests at once, 3 tokens, 1 change of password | 1,650,878 | TypeOK, OneTokenPerLogin, SignedOutStaysOut, OldPasswordSessionsEnd, TokensActAsSessions |
| `payments_confirm` | 1 invoice of the last stage, 1 notice delivered twice, 1 payment by hand, 2 requests at once and 2 by hand, 1 fault | 2,188,234 | TypeOK, AnsweredIsRecorded, AnsweredIsConfirmed, ConfirmationsAreOwed, HandoffWasPaid, HandsOverAsAgreed |
| `reminders_sweeps` | 1 invoice, 2 channels, 2 intervals, 2 sweeps at once, 2 days, 2 changes, 1 fault | 334,368 | TypeOK, OneReminderPerKey, ClaimsAreKept, DueIsClaimed |

Why the bounds are enough. A race needs two: two executions that overlap, two requests, a
writer and a reader. A further one adds to the bounds that the properties state with
`Cardinality(Workers)`, and the proofs cover every number. Two attempts separate the first from
the last, three also leave one in the middle. Two jobs show that the oldest does not block the
next; three notifications overflow a list of two, and batches of one and of two leave some for
the next cycle or none. Three tokens are a login, its successor and one more of either; a notice
delivered twice is one that was cut short and came again; one invoice with two channels shows what a failure at the
first leaves to the second. One restart and two Redis failures make every pair of them meet every step. The
counters (`MaxCallbacks`, `MaxAborts`, `MaxFaults`, `MaxCrashes`, `MaxArrivals`, `MaxRefusals`,
`MaxCommits`, `MaxRecords`, `MaxJobs`, `MaxTokens`, `MaxPasswords`, `MaxDeliveries`, `MaxPosted`,
`MaxRequests`, `MaxChanges`, `MaxDay`) bound how often something happens and never when.
`CHECK_DEADLOCK FALSE` stands where the system rests once its bounded work is done.
`queue_race`, `sessions_overlap` and `payments_confirm` use the symmetry of their workers or slots and
check no liveness.

Four formulas are proved and belong to no run: `OnlyCallbacksRequeue` and `SentWasDelivered` are
part of what `DeliversAsPromised` and `SchedulesAsPromised` check, and the inductive invariants of
AutomationWorkflow and LoyaltyLedger imply properties that their runs check. TLC passed each of them
before it was proved, on the instances of the table.

`schedule_settle` has one sender, so that lists overlap between it and the cycle; `schedule_overlap`
has two and shows that an overlap needs no failure to lose a notification for good.
`workflow_repeat` publishes one event three times and the invalid ones once, since what an invalid
event does to the others does not depend on how often it comes.

### What the properties excuse

Some hazards are what the code does, so no property can exclude them. The properties then
say how far the damage goes, and excuse the rest by a history variable, which is to be read as a
known weakness of the code and not as something a run has ruled out:

* `aborts > 0` excuses a missing dead letter of any job (`FailureIsRecorded`): the FAILED status and
  the dead letter are two writes. `aborts` and `lost` add a delivery each (`DeliveriesAreBounded`).
* A job that a callback requeues with its attempts used up is given up without an offer; that
  counts as settled. Of two executions that conclude a job, or an execution and a report, the last
  one decides; `Delivery!Conclude` allows it to overwrite a final status by another.
* `atRisk` excuses the notifications that an accident was about, the overlapping list change and the
  expiry among them, and no others.
* An attempt that fails half way repeats its first half (`EffectsAreBounded` counts it). An event
  that publish drops leaves no state, and one that cannot be recorded is let go, as is one whose save
  rejects (`ReceivedIsConcluded`).
* `overlapped` and `overdrawn` take an account out of `BalanceExplained`, for good: what
  still holds of it is `BalanceWithinCredits`, and that `PostsAsLedger` confines it to that account.
* `raced` excuses the session of a refresh that overlapped another or a sign-out, and no
  other session.
* PayFast's repetitions make payments that nobody counts; each may be confirmed once. `stale` adds a
  confirmation for each update decided on a status out of date. A missing confirmation is not seen
  by `ConfirmationsAreOwed`, which is an upper bound, but by `AnsweredIsConfirmed`.
* `lost` (reminders) excuses the key whose own claim or call failed: the claim is for good.

### What the runs show to be wrong

* **Overlapping list changes lose notifications** (`schedule_overlap`): the pending list is read,
  and written back whole after other awaits, by the scheduling workflows and by the worker cycle.
  The record stays "pending" and is on no list.
* **A workflow that was complete runs again** (`workflow_once`): the saves that follow it are in
  the try block of the attempt.
* **Cache invalidation never invalidates** (`loyalty_stale`): `SET key null EX 0` is refused by
  Redis, so a committed redemption is answered with REDEEM_FAILED and the old account is served
  for up to a minute. Expenses, vendors and installments make the same call.
* **Credits are redeemed twice** (`loyalty_twice`): the balance is checked outside the transaction
  that changes it.

## 4. Proofs

All proofs are for every value of the constants that the module's named assumption admits: any
number of workers, jobs, events, topics, clients and requests, and any bound. They use SMT and
Zenon for the steps and PTL to put them together.

* **NotificationQueueProofs.** `IInv` adds to the type invariant that every offer to a provider
  was counted before (`calls + |Offering| <= attempts`), and that a worker that may still offer a
  job has read a counter below the last attempt, so that at most `|Workers| - 1` offers are made
  beyond what a single worker would make (`CallInv`); that while a job is QUEUED each delivery is
  either still being recorded or owed to a callback or an abort (`DeliveryInv`, of the deliveries
  the queue heard of), and that the others are counted in `lost` (`HeardInv`); and that a worker
  about to record a success has one (`SuccessInv`). None of the properties is inductive alone: a
  state with used-up offers and a worker about to make another satisfies the bound and breaks it
  one step later. `CallsBounded` and `DeliveriesBounded` follow from it; `SentJustified` and
  `OneJob` are inductive once it holds; `FailureRecorded` and `RequeuedByCallback` need the type
  invariant and what each step does to a status.
* **AutomationWorkflowProofs.** `CompletionFor(e)` accounts for the completions of an event: one is
  its own, and each further one is owed to a Redis failure or a restart. Its parts say what is
  still owed at each point of the handler: while a workflow may still complete, and while no key
  of the event is known, all completions so far are owed. `TopicInv` says that only one loop ever
  handles an event. From it: `CompletedOnlyOnce`, `SuccessReal` and the action property
  `MarkedFinal`. Two more invariants rest on it. `BudgetInv` counts, for each event and adapter
  call, the calls made, those its handler may still make, and `maxAttempts` for each message that
  waits in the inbox (`EffectsBounded`). `RecordedInv` says that, while Redis works, a workflow
  completes in an attempt that is on record as "processing", and that only an event without a
  completion is abandoned (`CompletionRecorded`).
* **LoyaltyLedgerProofs.** `WriteInv` says what a write in progress holds: no more than was
  credited, and the account's own balance unless two writes overlapped. It is needed because the
  commit writes a value that was read earlier. From it: `WithinCredits` (no interleaving makes
  points out of nothing) and `Explained`. `LedgerImplemented` is the refinement: `Commit` is the
  only step that posts. On an account that is not loose the balance it writes is the present one
  changed by the amount, because `WriteInv` says so of the balance it had read; on a loose one it
  stays within the points credited, for the same reason that `WithinCredits` holds.
* **NotificationDeliveryProofs.** `QueueDelivers` is the refinement: `IInv` of the queue is what
  lets each step be a step of `Delivery` or a stutter (a delivery stays within its rounds because
  of `CallInv` and `DeliveryInv`, SENT has its reason because of `SuccessInv`).
* **ScheduledNotificationsProofs.** `IInv` says where each notification is. `ListsOK`: no id is
  twice on a list, and the id of a sender at work is nowhere else yet. `DeliveryOK` counts the
  deliveries and the claims that may still lead to one. `KeptOK`: a notification no accident was
  about is accounted for: waiting, and then with its sender, in the cycle's hand, or in every copy of
  the list that will be written back (`InAllLists`: what Redis has, what a sender has read, what
  the scan keeps or has yet to look at), claimed and in the cycle, or settled. The copies
  are why `NothingIsLost` is not inductive: the list in Redis says nothing of what the next write
  makes of it. A write keeps what its copy had and adds its own id, but for what lies beyond the
  limit, and that is at risk (`WriteKept`). From it: `OneDelivery`, `SentDelivered` and `NoneLost`.
  `SchedulerDelivers` needs one invariant more, `ClaimedOK`: a claimed notification has a record
  that is due, which therefore does not expire, so that it cannot be dispatched after it perished.
  `DeliveryOK` bounds the deliveries by the failed calls, and `SentOK` gives SENT its reason.
* **AuthSessionsProofs.** The three properties are inductive together with `BookkeepingInv`: what a
  request carries is no newer than the account, a request that rotates has seen a live token, and
  tokens that do not exist yet are not live. `TokensImplementSessions` adds `RootsOK`: every token
  belongs to the user, and was opened under the password, of the first token of its session, which
  is its own first token. It makes a session one login with one user, so that revoking the tokens
  of a user is closing that user's sessions (`SignOutShown`), and that a rotation leaves the session
  as it was, or is marked as a `Resume` (`RotationShown`).
* **ProjectPaymentsProofs.** `HandlerOK` says what each request knows to be written by the point it
  has reached: a notice that is past its payment has it recorded, one that is past its invoice has
  it marked, a status about to be written has its milestone. Nothing of this is ever taken back
  (`Grows`), whatever the other requests do. `Counting` adds to the confirmations of a payment the
  calls to core that are under way, so that a confirmation is paid for when its call starts. From
  them: `AnsweredRecorded`, `AnsweredConfirmed`, `Owed` and `HandoffPaid`. `HandoffImplemented` maps
  each step to one of `Handoff`: a milestone that is logged was owed, because `Counting` holds after
  the step as well (`OwedHolds`), and a notice that is answered has a payment that was made, because
  what is recorded for a notice is recorded as COMPLETED (`NoticesPaid`).
* **InvoiceRemindersProofs.** `HoldersOK`: a sweep about to call holds a key that is claimed, by no
  other sweep, and has no job yet. From it: one reminder per key and that claims are kept.

Each refinement theorem has the same shape: the initial states map to initial states, and under the
inductive invariant every action, by a step or a lemma of its own, maps to an action of the abstract
specification or leaves its variables as they are; PTL puts these together. Of the constants they
assume what the component's named assumption says, and nothing of the abstract module.

What is only model-checked: the liveness properties (`QueuedIsSettled`, `DueIsSettled`,
`ReceivedIsConcluded`, `CacheSettles`, `DueIsClaimed`), as fairness and ENABLED are out of the
provers' reach. For the same reason the refinements are of the safety part: the abstract
specifications state no fairness. Every safety property of a passing run, the five refinements
included, is proved.

## 5. What is left

1. AutomationJobs: the job and dead-letter indexes, acknowledging against pushing, requeueing,
   the audit log as the fallback. Candidate disagreement: acknowledged dead letters reappear from
   the audit log.
2. EventDelivery: the event bus, the subscriptions that enqueue several jobs for one event, and
   `Delivery` in the place of the queue.
3. Upload confirmation: the marker in Redis against the insert in PostgreSQL.
4. The gateway's revoked access tokens beside AuthSessions, and its request counters, which are
   read and written back; the one-time codes and PINs of auth.
5. The notification inbox; the external links of the core service.
6. An abstract specification of InvoiceReminders (a reminder is enqueued once per key, and only while
   it is wanted) and of AutomationWorkflow, refined as the other components are.

## 6. Not modelled, and why

The web application (most of the repository), contracts, metrics, AI and media services show no
protocol of their own where they were read; what the map covers is a small share of the
repository for this reason. The routes of core beyond payment milestones and project status,
expenses and vendors are mostly queries and single writes; they were not surveyed line by line.
Chat relies on Socket.IO. Signature checks, token formats and password hashing are functions
that unit tests reach. Object storage, PostgreSQL, NATS and Redis are modelled by what the code
relies on: atomic statements and transactions, unique indexes, at-most-once delivery, commands
that succeed, reject, or are not sent.
