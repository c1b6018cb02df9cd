# Pulseway in TLA+

Pulseway monitors HTTP endpoints. A **scheduler** claims the monitors that are
due and puts check jobs on a queue; **check workers** run them, store the
results, and open or resolve **incidents**; an **alert worker** sends an
incident's alerts to the channels of its workspace; a **dead letter worker**
opens an incident for a job that could not be handled; the **API** keeps the
accounts, sessions, teams, plans and monitors, and serves the dashboard; the
**web client** refreshes its session by itself and follows the incidents over a
stream of events. PostgreSQL and Redis hold the shared state, SQS (or Azure
Service Bus) the queues, Stripe the subscriptions.

```
 scheduler --(check queue, one per region or one for all)--> check worker process
    |  Redis lock,                                            | Semaphore, HttpChecker
    |  monitors.last_checked_at                               | and CircuitBreaker,
    v                                                         | CheckResultBatcher,
 PostgreSQL <-------------------------------------------------+ IncidentEvaluator,
    ^   ^   incidents, incident_timeline, incident_groups     | IncidentGrouper
    |   |                                                     v
    |   +-- dead letter worker <--(check DLQ)          (alert queue) --> alert worker --> channels
    |                                                         |
   API  <----- Redis pub/sub <--------------------------------+ (events)
    |  ^---- Stripe webhooks
    +--> SSE, REST --> web client
```

This directory holds one module per component, modules that compose the
components that interact, the instances TLC checks, and proofs that hold for every
value of the constants. Sources are named relative to the repository
(`packages/...`).

## The system's parts

| Component | Source (`packages/`) | State it keeps | Operations | What makes it correct |
|---|---|---|---|---|
| Scheduler | `scheduler/src/SchedulerLoop.ts` | Redis lock with a TTL; `last_checked_at` | tick: lock, findDue, updateLastCheckedAt, enqueue under pLimit, unlock | a due monitor is checked once per interval and is never forgotten |
| Check worker | `worker/src/CheckWorker.ts`, `AzureCheckWorker.ts`, `index.ts` | jobs in hand, running flag | poll, processMessage, executeCheck, delete or give back, disconnect | a job is deleted only when it was checked, and every job ends |
| Semaphore | `worker/src/Semaphore.ts` | permits, FIFO queue with timeouts | acquire, release, run | permits are conserved, nobody waits for ever or overtakes |
| Result batcher | `db/src/repositories/CheckResultBatcher.ts` | queue, timer, batches in flight | enqueue, flush, doInsert, drain | no result is lost or stored twice, and drain waits for what is there |
| HTTP checker | `worker/src/HttpChecker.ts` | none | check, with redirects, timeout and assertions | a result for every check, and a word to the circuit for each |
| Circuit breaker | `worker/src/CircuitBreaker.ts` | per host: state, failures, openedAt | isOpen, recordSuccess, recordFailure | the circuit is what the last results say, and is never stuck |
| Incident evaluation, grouping | `worker/src/IncidentEvaluator.ts`, `IncidentGrouper.ts` | Redis list of recent results; incidents, groups | push and read the list, decide, insert, group, note, announce, resolve | one unresolved incident per monitor, announced, converging to the monitor's health |
| Incident repository | `db/src/repositories/IncidentRepository.ts` | incidents, timeline, advisory locks, partial unique index | insert, acknowledge, resolve, appendTimeline, reads | insert returns the one unresolved incident |
| Incident API | `api/src/services/IncidentService.ts` | none of its own | acknowledge, resolve, addNote, list | only legal changes of status |
| Dead letter worker | `worker/src/DLQWorker.ts` | none | handleDeadLetter | a job that died leaves a visible incident |
| Alert worker | `worker/src/AlertWorker.ts`, `AzureAlertWorker.ts`, `channels/` | alert_log | poll, dispatch to all channels, log, delete or give back | an alert is deleted only when every channel has it |
| Refresh tokens | `db/.../RefreshTokenRepository.ts` | refresh_tokens with families | create, rotate, revoke, prune | a session has one token that is good, and none once it is revoked |
| Web API client | `apps/web/lib/api-client.ts` | access token, the shared promise of a refresh | call, refresh once, retry | calls that fail together neither lose the session nor hang |
| Registration, login, one-time tokens | `api/.../AuthService.ts`, `db/.../EmailVerificationRepository.ts`, `PasswordResetRepository.ts` | users, workspaces, tokens | register, login, resend, verify, reset | a token is used once; whoever has an account can get in |
| Membership, single flight, API keys | `api/.../MembershipCache.ts`, `lib/Singleflight.ts`, `routes/team.routes.ts`, `middleware/authorize.ts` | members, Redis entries with TTL, calls under way, keys | read through, invite, change, remove, invalidate | a change of a role is in force after it was made |
| Feature flags | `api/.../FeatureFlagService.ts` | rows by scope, Redis entries | isEnabled, setFlag | a change of a flag is seen |
| Billing webhooks | `api/.../BillingService.ts` | stripe_events, workspaces.plan | handleWebhook, checkout | an event is applied once, and the plan follows the subscription |
| Monitor service | `api/.../MonitorService.ts` | monitors | create under a limit, update with a lock, delete | the limit holds; no update is lost |
| Live updates | `api/src/sse/`, `api/.../events.routes.ts`, `apps/web/hooks/useSSE.ts` | connections, subscription | connect with a snapshot, publish, close, drain, reconnect | a client misses nothing while it is connected and gets in again |
| Incident list, pagination | `apps/web/hooks/useIncidents.ts`, `core/.../pagination.ts`, `IncidentRepository.findByWorkspace` | pages, cursor | reload on event, next page | pages neither repeat nor skip |
| Others | rate limiter, on-call, maintenance windows, statistics, audit log, metrics, migrations, infrastructure | rows and configuration | reads and single statements | see *Not modelled* |

What is hard in this system, and where the models look:

* **Interleaving at every await.** Two regions' evaluations of one monitor, a
  redelivered job, an API request and a dead letter work on the same rows. Every
  `await` that touches shared state is a step of its own.
* **Delivery at least once.** A message is received again after its visibility
  timeout, after a failure, and after a crash, and becomes a dead letter after
  `maxReceiveCount` receives, whoever received it and why. Stripe repeats its
  events until it gets a 200 and sends them in no particular order.
  On AWS the check queue is FIFO with one group per workspace, so two
  jobs of a monitor meet when they are received in one batch, when a visibility
  timeout lapses, or on Azure's queue, which is not FIFO; the models put no
  order on a queue.
* **Partial failure.** Code after a COMMIT can fail: an alert after an incident,
  a delete after an evaluation, a log entry after a notification, the handling of
  a webhook after its event was stored, a mail after an account.
* **Reads that outlive what they read.** A role looked up before it changed, a
  count before another insert, a row without the token that an open transaction
  is about to commit, a snapshot beside a stream, a page of a list that moved on.
* **Locks with a TTL, and two kinds of them.** The scheduler's lock expires by
  itself; PostgreSQL's advisory locks end with their transaction.
* **Limits.** Permits, a full batch, the pool's connections, the connections of a
  workspace, the plan's monitors.
* **Shutdown.** Processes stop with work in hand, timers armed and inserts in
  flight.

The full list, each entry at its line with the properties that would catch it,
is `hazards` in `PROJECT.json`.

## Modules

| Module | Models | Uses | Run |
|---|---|---|---|
| `IncidentLifecycle` | evaluator, grouper, incident repository, dead letter worker, incident API | | `IncidentCrashes`, `IncidentClients` |
| `SchedulerLoop` | the scheduler's instances and their lock | | `SchedulerTicks` |
| `CheckJobs` | check worker processes and their queue, on either cloud | | `CheckJobsMixed` |
| `WorkerConfig` | the constants of a worker process and their assumptions | | |
| `Semaphore`, `CheckResultBatcher` | the two classes | EXTENDS `WorkerConfig` | in `WorkerProcess` |
| `WorkerProcess` | a process from poll to exit | INSTANCE `Semaphore`, `CheckResultBatcher` | `WorkerProcess` |
| `CircuitBreaker` | the breaker of one host and the checks that use it, in the abstract | | in `HttpChecker` |
| `HttpChecker` | a check, await by await | EXTENDS `CircuitBreaker`, which it implements | `CircuitOverlapping` |
| `AlertDelivery` | alert workers and their queue, on either cloud | | `AlertRedelivery` |
| `Sessions` | refresh tokens, tabs, login, logout, reset | | `SessionsOverlapping` |
| `Accounts` | registrations, links by mail, the pool | | `Registration` |
| `Billing` | Stripe, its webhook, the plan | | in `MonitorAdmin` |
| `MonitorAdmin` | the monitors of a workspace and their plan | EXTENDS `Billing` | `MonitorAdmin` |
| `Access` | roles and their cache, team routes, API keys, a flag | | `AccessChanges` |
| `EventStream` | relay, connections, snapshot, shutdown, the page's connection | | in `IncidentList` |
| `IncidentList` | the list of incidents above the stream | EXTENDS `EventStream` | `LiveUpdates` |
| `MC...` | values of constants for TLC | | |
| `..._proofs` | theorems, see below | EXTENDS what it proves about | |

Definitions that begin with a comment `Mutant:` are faulty versions of the
definition next to them. No specification uses them: each is there to show that
some property fails when the code has that fault.

### IncidentLifecycle

`incident`, `group`, `timeline` and `alerts` are the tables `incidents`,
`incident_groups`, `incident_timeline` and the jobs on the alert queue.
`streak[m]` abstracts the Redis list `monitor:<id>:recent`: the script
keeps the last `Required` results, and the only question asked of them is
whether all are failures, that is, whether the leading run of failures has
length `Required`. `insertLock` and `groupLock` are the advisory locks;
`job[p]` is the program counter of a process and what it has read and still uses.

| Code | Actions |
|---|---|
| `IncidentEvaluator.evaluate` | `PushResult`, `Decide`, then either `InsertFindsExisting`/`InsertFindsNone`/`InsertRow`/`InsertCollides`, `GroupNotNeeded`/`GroupBegin`/`GroupJoin`/`GroupCreate`, `NoteDetected`, `EnqueueOpened`, or `ResolveRow`, `CountGroup`, `ResolveGroup`, `NoteRecovered`, `EnqueueResolved` |
| `DLQWorker.handleDeadLetter` | `DeadLetter`, the insert actions, `NoteDeadLettered` |
| `IncidentService.acknowledge`, `resolve` | `AckGet`, `AckUpdate`/`AckCollides`, `NoteAcknowledged`; `ManualGet`, `ManualUpdate`, `NoteManual` |
| an exception or a crash at any await | `Abort`, `GroupFails`, `ResolveGroupFails` |
| time | `LeaveGroupWindow`; what a push finds in the list (`RecentRuns`) |

A transaction with one statement that matters is one step. `insert` is two,
since the lock is held from its SELECT to its INSERT; `maybeGroup` likewise.
Row ids stand for `started_at` (rows are ordered by it and never reused).

### SchedulerLoop

`lock` is the value of `scheduler:lock`, `due` says whether `last_checked_at` is
older than the interval, `sent` counts sends of a monitor's jobs since it was
last due, `tick`, `todo` and `lanes` are an instance's program counter, the
monitors its pLimit has yet to handle and the lanes that still run. A failed send
ends its lane and rejects `Promise.all`; the other lanes go on after the
`finally` has released the lock, as they do in the code. The release is a GET, a
comparison and a DEL, as in the code. `late` records that the lock of a living
instance expired, or that a monitor fell due again while an instance still had it
to send: the 15 s TTL rests on neither happening, and `CheckedOnce` is
promised until one does. The model goes on afterwards.

### CheckJobs

A delivery is one receive of a job by one process; its receipt handle is current
while the job was not received again. `place` and `receives` are the queue:
visible, in flight, deleted, dead. A process is up, in its last long poll after
`stop()`, stopping (awaiting what `disconnect` found in its set), or down. The
cloud is chosen at first: SQS, where a late delete may still work and a late give
back is an error that is ignored, or Service Bus, which refuses both once the lock
is lost (`LockLost`, `SettleRejects`), where the second error ends the process. What a check does inside is the business of the other modules; here it is
the step from *running* to *evaluated*.

### WorkerProcess, Semaphore, CheckResultBatcher

The semaphore and the batcher are single-threaded classes: each function between
two awaits is one action, and timers, callers and database answers interleave
between them. `WorkerProcess` composes them as `CheckWorker` does: a job that a
poll brings acquires a permit or waits (`Arrive`), may be skipped, enqueues its
result (`Execute`), and releases the permit when the batcher has answered and the
evaluation is over (`JobEnds`); a caller that has waited too long makes the process exit
(`GiveUp`), since nothing handles its rejection; `Stop`, `LastPollReturns`, `Drain` and `Exit` are
the shutdown of `index.ts`. Its property `ImplementsComponents` is the refinement:
each behaviour of the process is one of `Semaphore` and one of
`CheckResultBatcher`, whose modules say what the two promise to any user.

### CircuitBreaker, HttpChecker

In `CircuitBreaker` a check remembers the health its host had when
it began, so that results arrive late and in any order; `failures` counts up to
the threshold, since only that comparison is made. A monitor whose URL is of another
protocol (the route takes any URL: `monitors.routes.ts:13`; `unsupported`, `EditUrl`) never asks the
circuit of its host and reports a failure to it at once, even while it is open
(`FailUnasked`). `HttpChecker` keeps these
variables and adds what the check awaits (`phase`), the redirects it has left and
the report it makes: `Check`, `Resolved`, `Redirected`, `ReadBody`, `Answered`,
`Broken`, and `BadLocation`, which ends the process. A refusal by
`assertSafeHost` is a name that does not resolve. `ImplementsBreaker` says that whatever
the awaits end with, the circuit sees a behaviour of `CircuitBreaker`, with its
fairness: a check that asked for a probe always reports.

### AlertDelivery

A delivery carries the channels left to notify, those notified but not yet logged,
and those that failed; dispatching to the channels is concurrent, as in
`Promise.allSettled`. An orphan is an alert whose monitor or incident is gone, and
is deleted unsent. The two clouds differ in a delete that comes late, in an error,
which on Azure ends the wait for the rest of the batch, and in a webhook's errors: `AzureAlertWorker` takes any answer of the webhook for
a success. `alert_log` refuses the type `webhook` on both (migration 005).

### Sessions

`status`, `session` and `loginOf` are the rows of `refresh_tokens`: a session is
named by the token of its login. A PostgreSQL UPDATE changes the rows that were
committed when it began, as they are when it comes to them: a revocation is
therefore two steps, the snapshot (`ReplaySnapshot`, `ResetSnapshot`) and the update
(`ReplayRevoke`, `ResetRevoke`). A replay whose row is pruned between finds no session, and ends
none. `rotate` is its SELECT (`RotateSelect`) and its
INSERT, UPDATE and COMMIT (`RotateIssue`), which nobody sees apart. `FindValid` is the
read after it, and `FindFails` the refusals and errors from there on. The browser has one cookie for its tabs and a shared promise in each
tab (`Unauthorized`, `Respond`, `RespondRefused`). The history variables say which
sessions were ended, which tokens went to a refresh or login that overlapped a revocation,
and which sessions were disturbed: presented by two tabs at once, given a token that
nobody was told of, or ended on purpose. A logout ends a session that is not disturbed.

### Accounts

A registration is a record with the statement it is about to run: it holds its
connection from BEGIN until it is answered, and takes a second one for the
session (`CreateSession`), which fails after the pool's timeout if all are taken
(`CreateSessionFails`). Its INSERTs wait for open transactions that have inserted
the same address or slug, and fail if they commit. A link goes through its two
statements (`Invalidate`, `Insert`), its mail, and its end: redeemed, expired, or
lost with a mail that failed. Passwords and tokens as such are in `Sessions`.

### Billing, MonitorAdmin

`sent` is the list of events as Stripe made them; they are delivered in any order
and again until answered. The handler stores the event (`Receive`), finds the
workspace, updates, answers; `WebhookFails` comes in between. `MonitorAdmin` puts the
monitors beside it: a creation reads the plan, counts and inserts (three
steps), a client reads a monitor and patches it with or without `If-Match`, a
deletion is a transaction that holds its row, and the scheduler and the workers
write rows and open incidents all the while. The deletion marks the row and reads which incident is
unresolved (`DeleteSweep`, a SELECT without a lock), writes that incident's row (`DeleteResolve`) and
commits (`DeleteCommit`). Incidents are numbered; a member who acknowledges one
reads it as open (`AckGet`) and updates its row later without looking at its status (`AckUpdate`), unless
the unique index has another one. `acks` keeps what was read so, since several members may
have read the same. `exact` says whether the
microseconds of `updated_at` are zero: JSON has milliseconds, and only then can an ETag
match.

### Access

A request is authenticated (`Arrive`, `ArriveWithKey`), looks for the user's role in the
cache (`Hit`, `Miss`), joins its process's lookup (`Read`, `ReadFails`, `Store`), and is then
*decided* with a role: it may invite, change, remove, create or revoke a key, change
the flag or create a monitor behind the flag, and ends with the invalidation of
the cache and the answer. `cache` and `flagCache` have times to live (`Expire`,
`FlagExpires`). `flags` has, by scope, what the rows of the flag say: at most one row of
the workspace, whose upsert replaces it and invalidates its entry, and any number of global ones, which
are inserted side by side and invalidate nothing (`SetRow`, `SetGlobal`). `Outcomes` is what
`isEnabled` may find: the workspace's row, or else any global one. `held` and `excused` are history: the
roles a user has had, and the users of whom a change overtook a lookup
or lost its `del`.

### EventStream, IncidentList

One process, one page, and the connections the page has made, some of which the
process does not yet know to be closed. `step` is how far the process is with a
connection: requested, added to `SSEManager`, its snapshot read, streaming, ended,
closed; *gone* is a request whose page hung up before `add`, and *ghost* what becomes
of it; a *stranger* will be answered 401 or 403 (`Deny`). `authorized` says whether the page's requests
pass `authenticate` and `getMemberRole`. The browser's EventSource that `useSSE` opens sends no
Authorization header, so it never is; one that sends the header, as in
`pipeline.e2e.test.ts:106`, is until its token or its membership ends (`AuthorizationEnds`).
`Show` leaves it open which of the two the page has. `committed`, `announced` and `missed` are the incidents, those published,
and those published while the relay was cut off. `IncidentList` adds the list that
`useIncidents` shows: requests under way, in order and answered in any order, and
pages by a cursor of milliseconds; `overlapped` is which of the requests that the view is from, of a
first page (`refetch`) or of a further one (`append`), overlapped another. `Page(c)` is what the ORDER BY, the LIMIT and the cursor ask for, as a
set of answers; that there is exactly one is the theorem `OnePage`. `ListFollows` has three parts:
no row twice and none left out between two that are shown (`ListHasNoGap`), all of them down
to the first once no next page is offered (`ListIsWhole`), and nothing missing that the page has been told of
once its requests are answered (`ListIsCurrent`). The first two hold whatever overlapped the reading of a
first page, but not of a page appended by a request that overlapped another, until the first page is read
again; the third is of requests that overlapped no other and did not fail. All excuse incidents
committed late and rows of the millisecond of one that is shown.

## Runs

Bounds appear as constants, each commented as one: `MaxIncidents`, `MaxGroups`,
`MaxFaults`, `MaxReceives`, `MaxOutages`, `MaxTokens`, `MaxOperations` and so on. A fault
is a step of the environment (a failed
statement or call, a crash, a lapse of a visibility timeout) which a small number
of times is enough to put at any place: every property speaks of one row, job,
alert or host, and a fault more only repeats the situation.

| Run | Question | Bounds, and why they are enough |
|---|---|---|
| `IncidentCrashes` | With crashes, dead letters and maintenance: is an incident opened in silence only if something was cut short or the DLQ opened it (`NoSilentIncident`), is every alert explained by the timeline (`AlertsExplained`), does nobody group what a new group is about to take (`LockProtectsGroup`)? | two monitors and group threshold two, so that the second incident makes a group; two evaluations and a dead letter at once, one result enough to open, two rows, one fault at any place; a list that expires and a group window that closes at any time |
| `IncidentClients` | With an API request beside two evaluations: one unresolved incident (`OneOpenIncident`), no silent recovery (`NoSilentRecovery`), and convergence to what the checks say (`IncidentsFollowChecks`)? | one monitor (monitors share nothing outside groups), a list of two results, three rows: an incident and two successors. Row ids run out in the model only: the liveness property assumes `[]SpareRow` |
| `SchedulerTicks` | Is a monitor checked once per interval and never lost when nothing fails (`SchedulerInv`), and claimed again after crashes and failed sends (`DueIsClaimed`)? | two instances, two monitors on two lanes, so that one lane goes on after the other was rejected; one fault; expiry of the lock and of the interval at any time |
| `CheckJobsMixed` | Are jobs deleted only after a check (`JobsInv`), evaluated twice only after a fault (`EvaluatedOnce`), and does every job end (`JobsSettle`)? | two processes of two regions, a job for each, one of them perhaps unparseable, three receives as in the queue's redrive policy, two faults, both clouds |
| `CircuitOverlapping` | Is the circuit what its results say, a half-open one always probed, and what is asserted true of what is up (`HttpInv`)? Does a recovered host's circuit close for good, if its monitors all have URLs of HTTP (`RecoveredHostCloses`)? Do the checks keep to the breaker (`ImplementsBreaker`)? | three checks, one with assertions, one of a monitor whose URL changes its protocol, threshold two, two outages, a redirect each: results from before, during and after an open circuit overlap |
| `WorkerProcess` | Do the semaphore and the batcher, used as the process uses them, lose nothing (`ProcessInv`, `ImplementsComponents`), is no active job cut off (`ActiveAreAwaited`), does every job end (`EveryJobEnds`)? | four jobs for two permits and batches of two: two inside, two queued, a full batch and a partial one by the timer; two that hang, which is every permit; one that loses its monitor and Redis; one database fault |
| `AlertRedelivery` | Is an alert deleted only when every channel has it (`AlertInv`), are repeats bounded by failures (`RepeatsNeedFailures`), does every alert end (`AlertsSettle`)? | two workers, two channels or a webhook, an alert and one that is orphaned or unparseable, three receives, two faults, both clouds |
| `SessionsOverlapping` | Has a session one good token (`SessionInv`), is it lost only to an overlap of tabs or a lost answer (`CookieSurvives`), does a revocation miss only what overlaps it (`RevokedStaysOut`), does every call end (`EveryFetchEnds`)? | two tabs, of which one makes two calls, a login, a logout, a reset; three tokens: a session and two rotations, or a rotation and a login; one fault |
| `Registration` | Does one link of a kind work (`AccountsInv`), is an account out of reach only after a failure or a full pool (`NobodyIsLockedOut`), is every registration answered (`EveryRegistrationEnds`)? | two registrations for a pool of two, which they fill; two addresses or one; two links; one failure |
| `MonitorAdmin` | Is an event applied once and the limit passed only by overtaken counts (`AdminInv`), is the plan the one paid for (`PlanIsPaid`), what is left after a deletion (`DeletionResolves`), is an edit overwritten unseen (`NoLostUpdate`)? | two subscriptions and two paid plans, so that prices change, five operations of Stripe and clients, three rows for limits of one and two, two creators, an editor and another, one failure |
| `AccessChanges` | Is no decision taken on a role nobody had (`AccessInv`), an old one only where a lookup was overtaken or a del lost (`StaleIsExcused`), do changes hold in the end (`ChangesTakeEffect`), is every request answered (`EveryRequestAnswered`)? | two users, two requests in one process (a lookup is shared within a process, and Redis among processes), two changes, one failure |
| `LiveUpdates` | Has a stream no gap and is the register exact (`LiveInv`), has a list that no overlapped page was appended to neither repeats nor gaps, and does it keep up with what it hears (`ListFollows`), does a page whose requests are authorized get in again (`PageGetsIn`)? | three incidents, one of them committed late or two in one millisecond, pages of one, two connections of which one is admitted, two overlapping requests, one stop or lost message |

A property that is a conjunction (`...Inv`, `...Follow...`) bundles properties of one
question, each defined and commented on its own in its module.

Symmetry is used in `IncidentCrashes` only, which checks safety; the definition
permutes the workers and the monitors.

`CHECK_DEADLOCK FALSE` stands in the runs of `CheckJobs`, `WorkerProcess`,
`AlertDelivery`, `Sessions`, `MonitorAdmin` and `Access`: their jobs, alerts, tokens,
operations or changes are finite in number, and once all of them have ended
nothing may be left to do. Liveness properties of the same runs
(`JobsSettle`, `EveryJobEnds`, `AlertsSettle`, `EveryFetchEnds`,
`EveryRequestAnswered`) say that the models do not stop before that; `MonitorAdmin`
checks safety only. The other models never stop, and TLC checks that they do not.

### Fairness

Only what the code or its platform keeps doing is fair, and always weakly:

* the scheduler's `start()` ticks for ever, and Redis expires keys;
* workers poll in a loop, jobs in hand go on (requests, channels and the semaphore
  have timeouts, PostgreSQL answers or fails), and the orchestrator starts a
  process again (`restart: unless-stopped`, the Kubernetes deployments);
* a visibility timeout ends and the redrive policy acts;
* armed timers fire: the batcher's, the semaphore's, the cooldown's, the page's;
* the API answers a request it has begun, the browser handles the answer, and
  the database answers a query or its pool's `connectionTimeoutMillis` ends;
* Redis drops an entry whose time to live is over.

Nothing is asked of users or API clients to begin a request, of Stripe, of the dead
letters, of faults, of a mail, or of a job in `Hangs`. `IncidentsFollowChecks` needs
the scheduler to keep every monitor checked, which `DueIsClaimed` and `JobsSettle`
show for the components in between. `MonitorAdmin` states no fairness.

## Where the code does what one would not expect

Met while modelling; the models behave as the code does, and the properties say what
holds in spite of it (their exceptions name the cases).

Incidents and jobs:

* `IncidentService.ts:34`, `IncidentRepository.ts:198`: acknowledge and resolve check the
  status before an UPDATE that has no condition on it, so an acknowledge that read the
  incident before it was resolved brings it back (`AckUpdate`). The unique index still
  keeps it the only one. So an incident that `MonitorService.delete` has resolved may be
  unresolved again on a deleted monitor, where the comment above the transaction means to leave
  none (`MonitorService.ts:68`; `DeletionResolves`, `reopened` in `MonitorAdmin`).
* `IncidentEvaluator.ts:62`: an evaluator that lost the race into `insert` gets the
  other's row and announces it a second time (`InsertFindsExisting`).
* `IncidentEvaluator.ts:144`: the alert is sent without a message group, while
  `infrastructure/modules/sqs/main.tf:26` makes the queue FIFO, which refuses such a
  message. In the model every send that is refused is an `Abort` after the incident
  was committed; the redelivered job then finds it open and sends nothing.
* `IncidentEvaluator.ts:51`: the list of results expires after 600 s; a monitor with an
  interval that long may never have enough failures in it to open an incident.
* `IncidentService.ts:47`: a manual resolve announces nothing and closes no group
  (`ManualUpdate`).
* `SchedulerLoop.ts:97-100`: the lock is released by a GET, a comparison and a DEL
  that are separate commands; a lock that expires between them and is taken by another
  instance is deleted (`CheckOwner`, `Release`).
* `CheckWorker.ts:110-112`: on a queue shared by two regions, giving a job back counts as
  a receive, and after `maxReceiveCount` of them (`sqs/main.tf:21`) a job dies unchecked.
* `worker/src/index.ts:65`: `forceExit` is armed when the process starts, not when it
  shuts down (`ForceExit` has no guard on shutting down).
* `CheckWorker.ts:58`: a job that waits 60 s for a permit ends the process, by an
  unhandled rejection (`GiveUp`).
* `CircuitBreaker.ts:41`: every check passes a half-open circuit, not one probe
  (`BeginHalfOpen`); and a success from before the outage closes an open circuit
  during its cooldown (`RecordSuccess` has no guard on the state).
* `HttpChecker.ts:192-194`: a monitor whose URL is of another protocol (`ftp://host`) is a failure
  of the host at each check (`:225-228`), and keeps open the circuit that the HTTP monitors
  of a healthy host share with it; a cooldown that is over can begin anew that way
  (`FailUnasked`). `RecoveredHostCloses` therefore supposes that there is no such monitor any more.
* `HttpChecker.ts`: an empty body passes every assertion (`EvaluateBodyAssertion`); a redirect
  to what is no URL throws in the response's callback, where no promise catches it, and
  ends the process (`BadLocation`); a target on another host counts for the circuit of the first.
* `alert_log` (migration 005) refuses channel type `webhook`, so a webhook's alert is sent
  until it is a dead letter; `AzureAlertWorker` takes a webhook's error for a success.

Accounts and sessions:

* `AuthService.ts:94`: a registration holds a connection of the pool while it waits for
  a second. As many at once as the pool has connections all fail after 10 s
  (`db/src/client.ts:34`), their accounts committed, a 500 answered and no mail sent
  (`CreateSessionFails`).
* Whoever is not verified cannot log in, and `resend-verification` requires a login: after
  such a failure, or once the link has expired, the account is out of reach (`lost`). A password
  reset of an unverified account ends the session that could still ask for a link.
* Two registrations of one address or name at once end in a 500 by the unique index, not in the
  409 or the next slug of the code's own checks (`InsertUser`, `InsertWorkspace`).
* A link is made by two statements: a failure between them leaves none, two requests at once two.
  A reset link is used up when the UPDATE after its claim fails (`ResetFails`).
* `AuthService.ts:146` calls the token "just issued" and "guaranteed valid": a revocation may
  come between its COMMIT and the read (`FindValid`).
* A revocation misses what is committed after its snapshot (`overlapping`); a logout revokes one row,
  so that a disturbed session keeps its others (`Logout`), of which `RevokedStaysOut` then says nothing;
  and a replay revokes nothing if the cleanup has deleted the presented row since `rotate` read it
  (`RefreshTokenRepository.ts:141`, `ReplaySnapshot`).
* A refresh that fails after its rotation (`AuthService.ts:150-155`) has used up the cookie, and the
  new token is told to nobody (`FindFails`).

Teams, billing and monitors:

* Inviting someone who is a member sets the role, also of the owner and of oneself (`Invite`), which
  PATCH refuses (`team.routes.ts:56`). A key's own role is not looked at (`ArriveWithKey`), and the
  keys of a member who is removed stay (`Remove`).
* A change of a global flag invalidates nothing of the workspaces (`SetGlobal`). Nor does it
  replace the global row: under `UNIQUE (flag_name, workspace_id)` (`027_feature_flags.sql:13`) two NULLs do not
  conflict, so the upsert inserts a second row, and `isEnabled` takes the one that the query happens to put
  first (`FeatureFlagService.ts:38`). `FlagTakesEffect` says no more of it than that some global row
  decides in the end. No route makes such a change so far.
* `BillingService.ts:92`: an event is stored before it is handled, and lost if the handler fails;
  an update before its checkout finds no workspace; an event of an old subscription is
  taken for the workspace's as long as its id is there.
* `updated_at` has microseconds and its JSON milliseconds, and the scheduler's writes change it: an
  `If-Match` seldom matches (`exact`, `Check`). PATCH without it also writes deleted rows (`PatchBlind`).
  `findDue` and the count of a plan's monitors do not look at `deleted_at`.

Live updates:

* `SSEManager.ts:17`: a request whose page hung up before `add` keeps its place until the process ends
  (`CloseEarly`, ghosts): a workspace full of them turns its pages away. `drainAll` clears a set
  that a newer one may have replaced (`TakeOut`).
* `useSSE.ts:26` opens the browser's EventSource, which sends cookies but no Authorization header, the only
  thing `authenticate` looks at (`authenticate.ts:16`): the page is answered 401 at every attempt, and gets in
  only with an EventSource that sends the header (`Show`, `PageGetsIn`).
* No hook of the web client handles the snapshot; the list is read by a request of its own.
* `IncidentListClient` takes `page` and `setPage` from `useIncidents`, which returns `loadNextPage`
  instead: today's page appends nothing, though the hook can (`LoadNextPage`).
* `useIncidents.ts`: answers that overlap mix pages (`Receive`), and rows of the cursor's
  millisecond are skipped (`Page`).

## Theorems

The proofs hold for any finite or infinite number of processes, monitors, jobs, checks and users
that the constants' assumptions allow, and for any value of the bounds (failures, rows, operations).
A theorem `XHolds` is `Spec => []X` (`Spec => X` for an action property), from an invariant
that every step preserves: a lemma per action, then `Initially`, `Inductive` and `Invariance`.
TLC has checked each of these invariants on the run of its model.

**Incidents** (`IncidentLifecycle_proofs`). `TypeCorrect` is `TypeOK`. `OneOpenIncidentHolds` would
follow from the index alone in `InsertRow` and `AckUpdate`, but a `ManualUpdate`, `ResolveRow` or
`AckUpdate` on a row that is *unused* would break it, so the invariant adds
`RowInv` (a row that is in use has a monitor, an unresolved one has not
the status unused) and `JobInv` (a process that works on an incident works on
a row in use, and one that is about to insert has a monitor).
`LockProtectsInsertHolds` needs in addition that a process between SELECT and INSERT
holds the lock of its monitor, and that a row comes back from *resolved* only by
an acknowledge, and then with `ended` set. Two more layers rest on this one.
`AlertsExplainedHolds`, `NoSilentIncidentHolds` and `NoSilentRecoveryHolds`: for each incident, what the
process that has it in hand has already written (row, entry, alert) and what it still owes;
`LockProtectsGroupHolds`: who is between the SELECT of the groups and the UPDATE holds the lock, and what it
has read is still so.

**Scheduler** (in `CheckJobs_proofs`, which extends both modules; hence the names `LoopInit` to `LoopSpec`).
`SchedulerInvHolds`. A tick under way holds the lock (`OneTick`) and what
it found is still due (`FoundIsDue`), as long as no tick has outlived its lock; that is why `CheckedOnce` is
conditional and why its proof must carry that condition through every step (`InTime`). A monitor that is
due has not been sent, and no two instances have the same one in hand (`NothingTwice`).

**Check jobs** (`CheckJobs_proofs`). `JobsInvHolds` and `EvaluatedOnceHolds`. A job that is evaluated *n* times has been
received *n* times: `Counted` charges each evaluation, done or still possible, to a receive of its own, and
`OneEach` says that a receive has one delivery. Without failures every delivery is the current one (`Clean`).

**Alerts** (`AlertDelivery_proofs`). `AlertInvHolds`: a channel of a dispatch is to be notified, awaits its log entry,
has failed, or is in the log (`DeliveryOK`), so a dispatch that is over has them all logged (`Recorded`).
`RepeatsNeedFailuresHolds`: the count of the check jobs again, per channel, and with no webhook each receive
after the first has a failure that paid for it (`Paid`).

**Worker process** (`WorkerProcess_proofs`). `ProcessImplementsComponents`: a process from poll to
exit implements both the semaphore and the batcher: each of its actions is one step of a component or
leaves it alone. What is proved of every behaviour of a component therefore holds of the process.
Of the semaphore, those are `PermitsAreConserved`, `QueueIsConsistent` and the action property
`FirstInFirstOut`, with a lemma about `RemoveAt`: the callers that stay keep their order and none
appears. Of the batcher, that a result is in one place: queued once (`QueuedOnce`), or in
one batch (`BatchesApart`), with its promise pending while it is (`PendingIsPlaced`), and that a drain waits for
every batch it found (`DrainCovers`). `ProcessInvHolds` composes the two, and `ActiveAreAwaitedHolds` adds
what is the process's own: after its last poll it only has jobs it will wait for, or those that poll took (`StopInv`).

**Circuit breaker and HTTP checker** (`HttpChecker_proofs`). `ClosedBelowThresholdHolds`,
`HalfOpenIsProbedHolds` and `OpenShieldsHostHolds` (an action property), for any
number of overlapping checks and any threshold. The inductive invariant has `ProbesRun` besides them: a probe is a
check under way, without which a half-open circuit could lose its last probe to
a check that has already ended.
`ChecksUseTheBreaker` is the safety part of the
refinement, every behaviour of the checks is one of `CircuitBreaker`, by a step per action
(`StepsAreSteps`). `HttpInvHolds` is the whole invariant of the run: the circuit's, which
the refinement carries over step by step, with `ChecksOK` (a
check waits for something exactly while the circuit counts it as under way)
and `ReportOK`.

**Roles, keys and flags** (`Access_proofs`). `AccessInvHolds` and `StaleIsExcusedHolds`. A decision is taken on a copy of a role that
has passed through a lookup, the single flight and the cache; `CopiesWereHeld` says of each of
these places that the user had the role at some time since.

**Sessions** (in `Access_proofs`, which extends both modules; hence the names `SessionsInit` to `SessionsSpec`).
`SessionInvHolds`, `CookieSurvivesHolds` and `RevokedStaysOutHolds`, from one invariant in three parts. `Base` says what
a refresh, a login and a revocation hold in hand; that a tab has a promise exactly as long as one of its refreshes runs
(`PromisesOK`); and, by a count of sets, that a row is left for whoever may still insert one (`Room`), so that the bound on the rows hides
nothing. `CleanInv` is about sessions that nobody disturbed: one refresh runs, of the cookie if that is of this session, and it holds
the only usable token (`RefreshesClean`); without one that is the cookie (`CookieClean`), or the token of a login that has not been
answered (`LoginsClean`). Neither property would be inductive without the other: the next refresh presents the cookie. `OutInv`
says that a refresh or login that is about to commit a token of what was ended has overlapped it (`LateOK`, `LoginsLateOK`), and that
what a revocation under way has not found was committed after its snapshot (`Found`). That a logout
ends a session rests on `CleanInv`: besides the cookie only a refresh under way can hold a usable token of it.

**Registration and links** (`Accounts_proofs`). `AccountsInvHolds` and `NobodyIsLockedOutHolds`. Registrations that
are inside a transaction have addresses of their own, and of those about to commit each has a slug of its own (`RegistrationOK`).
A slug that is taken leads to the next one: that this ends within as many slugs as there are addresses
(`SlugsLeft`) is a count, each account having one slug (`SlugsCounted`). Two links of a kind have both been in the making at some
time (`LinkOK`). An account is reachable through a link or the registration that has yet to make it (`Reachable`):
this is stronger than the property, which also counts a session.

**The plan and the monitors** (`MonitorAdmin_proofs`). `PlanIsPaidHolds`, `AdminInvHolds`, `DeletionResolvesHolds` and `NoLostUpdateHolds`
(an action property). An event is in one stage, and settled once it is answered (`StagesOK`); the plan is that of the
last event applied that is no checkout, the subscription that of the last checkout (`LastPlan`, `LastSub`); and no event of a subscription applies
before its checkout (`OthersFollow`). Then, if what was applied is in order, the last event of the subscription was applied last:
`BillingImpliesPlan`. A request that has counted the rows found fewer than its limit (`CreateOK`). An ETag
names at most the present version, and if it names that its client has seen the last edit (`EditorOK`). That the
versions stay within their bound is itself an invariant, since every write was paid for when its request came in (`WritesPaid`).
For the deletion: what is unresolved while it has the lock is what it found, was opened since, or was brought back
since (`UnresolvedAt`), and what is read as open on a deleted monitor was opened after it had looked (`AcksOK`), so
that only an acknowledgement from before can bring an older one back.

**Live updates and the list** (in `AlertDelivery_proofs`, which extends `IncidentList`; hence the names `LiveInit` to
`LiveSpec`). `LiveInvHolds` and `ListFollowsHolds`, for any number of connections and incidents and any
size of page. Overlapping requests are among the behaviours, and what `ListFollows` says of them is above: a first page is
as good as any, whatever overlapped it, and a page appended by a request that overlapped another is excused. That a stream has no gap is about the moment its
snapshot is written; `SentIsKept` says it of every moment in between: what the snapshot
holds and what the connection was told since add up to all that was published and heard. The
list needs more than the property says of it. A view is one stretch of the incidents (`Stretch`) only if each answer
is one, so `AnswerOK` says of every answer on its way that it has the rows after its cursor as far as the page
goes, except what was committed since; a page that is appended goes on where the view ends only if its cursor is still the last row, which a request that
overlapped no other can count on (`AloneOK`). What the page has heard of is in the view or ends below it (`Covers`), or
a request is under way that will read it (`ViewFollows`): a request made before an
incident was published does not excuse it, since an announcement that finds one under way makes it overlap.
`OnePage` rests on lemmas about finite sets of numbers: one has a greatest number
(`GreatestNumber`, by a count of what is above, no induction), an answer exists (`RowsExist`), no
two part at a row (`RowsDoNotPart`) and neither is shorter (`RowsAreNotFewer`).

Every invariant and action property that a run checks is thereby a theorem. Only model-checked is liveness (the
prover knows neither fairness nor ENABLED): `IncidentsFollowChecks`, `DueIsClaimed`, `JobsSettle`,
`RecoveredHostCloses`, the liveness part of `ImplementsBreaker`, `EveryJobEnds`, `AlertsSettle`, `EveryFetchEnds`,
`EveryRegistrationEnds`, `ChangesTakeEffect`, `EveryRequestAnswered` and `PageGetsIn`.

## Not modelled

* Bodies of requests, messages and formats: data that no property tells apart.
* The rate limiter: one Lua script that Redis runs as a whole, on time stamps each
  process takes itself; without Redis it lets every request through. What could be
  said of it is the script's arithmetic, not an interleaving.
* On-call schedules, layers, escalation and maintenance windows: stored and read; nothing acts on an
  on-call schedule (nothing calls `findCurrentOnCall`), and a window is the
  maintenance flag of the incident model.
* Statistics and retention: aggregates inside the database.
* The audit log and the metrics: counters and rows that nothing reads back.
* Incident notes, listings of monitors, teams and members: reads, or an INSERT, of one statement.
* The pages and components of the web client, which render what the hooks hold; `useMonitors`, a list
  without pages, and `useWorkspace`, which nothing uses.
* The API shell: wiring, middleware, health and metrics; its ordered shutdown is in `EventStream`.
* Migrations and infrastructure: run once, or configuration (the queues' settings are constants of the models).
* `packages/db/src/CheckResultBatcher.ts`: an older copy that nothing exports.
* Time: no clock is modelled; a time to live, a visibility timeout, a cooldown or an interval ends at
  any moment, which covers every duration.

## Plan

What is left:

1. *Composition*: check job, evaluation and alert in one pipeline over one queue.
