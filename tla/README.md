# OpenVibe.Events in TLA+

OpenVibe.Events is the event service of the OpenVibe network: producers publish
envelopes, which get a position in one log; consumers receive them as signed
webhooks, pull them page by page, or follow them as a server-sent event stream.
PostgreSQL is the only authority. Any number of processes run the same program
(`server/index.js`): an HTTP API, a delivery worker, the realtime gateway, push
carriers, and timers for retention, usage rollups and billing readings.

This directory holds the specifications, the TLC configurations and the TLAPS
proofs. Paths such as `store.js:539` are relative to `src/server` unless they
start with `lib/`, `migrations/`, `scripts/` or `deploy/`.

    tlc -config QueuePrompt.cfg MCDeliveryQueue     # one run, see "Runs"
    tlapm DeliveryQueueProofs.tla                   # the proofs of one component; likewise
                                                    # for each *Proofs.tla of section 2

## 1. The system

### Components

| component | state it keeps | operations | talks to | what is hard |
|---|---|---|---|---|
| Event log: publish (`store.js` insertBatch, `api/publish.js`) | `sequences`, `events`, `idempotency_receipts` | store a batch, duplicate look-up in three tables, quota, fan-out | queue, realtime, carriers, usage | concurrent transactions under READ COMMITTED, positions against commit order |
| Retention (`store.js` prune, moveBatch) | `events`, `events_archive`, receipts | move to the replay tier, delete | readers, publish | moves under running scans and publishes |
| Pull API (`api/read.js`, `store.scan`) | none here; the consumer's cursor | page scan, gap, `next_cursor` | log | one answer is many statements |
| Delivery queue (`store.js` claimDeliveries, claimDelivery, recordAttempt, requeue) | `deliveries` with leases | claim, record, replay | workers, carriers | leases, several workers, order within a key |
| Delivery worker (`worker.js`) | sends in flight, app share, timer | pass, send, retry policy, stop | queue, endpoints | crash between POST and record, stop during a pass, slow endpoints |
| Push carriers (`fabric/carriers/*`) | connections, consumer groups | hint to claim one delivery, remote rows for SSE | queue, realtime | hints lost, repeated, late |
| Planner, pins, breakers (`fabric/planner.js`, `signals.js`, `policy.js`) | placements, pins, health per carrier | choose a carrier for (class, key) | publish | a key's backlog must not change carriers; cached policies |
| Realtime gateway (`realtime.js`) | connections, their position and pending rows | catch-up from Last-Event-ID, live fan-out | log, publish, carriers | queries of the catch-up against live rows; reconnects |
| Subscriptions, revocation, resource control (`api/subscriptions.js`, `api/resource-control.js`) | `subscriptions`, revocations, control log | create, enable, rotate a secret, suspend, revoke | queue, publish | checks apart from writes |
| Redaction, account deletion (`redaction.js`, `account-data.js`) | tombstones in both tiers | redact by event, actor or subject | log, retention, archive | rows that are moving |
| Archive export and restore (`scripts/events-archive.js`) | month objects and manifests | export, delete, restore | replay tier | stops between steps, redactions in between |
| Usage rollups (`usage.js`) | `app_usage` | count in other transactions, hourly flush | publish, worker | counts racing flushes |
| Billing readings (`billing.js`) | `billing_readings`, `billing_periods` | aggregate closed hours, post with leases | Billing | two loops, leases, backoff, restarts |
| Ordered inbox (`lib/client.js`) | consumer's receipts and key heads | apply an event once and in revision order | consumer's database | redelivery, reordering, concurrent transactions |
| Client publisher, signatures (`lib/client.js`) | none | publish with one retry, sign, verify | publish | - |
| Topics, cursors, ordering keys (`topics.js`, `cursor.js`, `fabric/policy.js`) | none | matching, encoding | all readers | two implementations of one pattern (code and SQL) |
| Policies and placement API | `delivery_policies` | put, list | planner | cached copies |
| Authentication, app scope, limits | counters of a library | guard requests | API | - |
| Egress, endpoint checks | none | resolve, refuse, post | worker | - |
| Assembly (`index.js`, `app.js`, `config.js`) | timers | start, stop | all | order of shutdown |
| Pages, discovery, OpenAPI | none | render | - | - |

### What makes each component correct

* **Log**: an id keeps one position while it is known; positions become visible
  in the order in which they are handed out; no publish waits forever.
* **Readers**: a cursor passes nothing that the reader was not given or told of,
  and in the end passes everything.
* **Queue**: no two leases of one ordering key; no more leases than
  `max_inflight`; an endpoint first sees the events of a key in order; settled
  deliveries stay settled; every queued one is settled in the end.
* **Worker**: no delivery in two sends at once while leases outlive sends; apps
  keep to their share; a clean stop ends, and leaves no lease of its passes but of
  a send that threw; an at_most_once event is posted twice only for a named reason.
* **Streams**: a client that resumes has every row up to its last event, or was
  told of a gap, and in the end has every row.
* **Subscriptions**: what a revocation turned off stays off for older tokens;
  limits and duplicates hold but for requests that overlap; a consumer can verify
  what it is sent across rotations; a repeated control request changes nothing.
* **Redaction and archive**: no original outlives a redaction in Postgres unless a
  restore brings it back; an event leaves Postgres by age, or into an object
  that can be read and keeps it.
* **Carriers and planner**: a carrier that is called healthy has its stream, and
  its consumer in a process that consumes, and comes back when its broker does; policies in use are recent; a key's backlog
  stays on one carrier; the record of decisions explains each placement.
* **Usage**: a code that is listed has all its failures; an hour is sent with what was counted, corrected under rising
  revisions, and not dropped before that.
* **Billing**: each closed hour is billed for no less than its rows have and no more
  than was done in it, and none is left out;
  readings are settled once and all of them.
* **Inbox**: an event has effects once, and never after a newer revision of its
  key.

## 2. The modules

| module | models | runs | proofs |
|---|---|---|---|
| `DeliveryQueue` | queue, worker, carrier hints, process crash and stop | `QueueShares`, `QueuePrompt` | `DeliveryQueueProofs` |
| `EventLog` | publish transactions, retention tiers, pull readers | `LogPublish`, `LogPull`, `LogNarrow` | `EventLogProofs` |
| `Subscriptions` | requests that create, toggle and rotate, revocations, the rotation script, signatures, resource control | `Subscriptions` | `SubscriptionsProofs` |
| `ArchiveTiers` | both tiers and the month objects under retention, redaction, account deletion, export and restore | `ArchiveTiers` | `ArchiveTiersProofs` |
| `Carrier` | nats-js-v1 in each process, its broker and its breaker | (in `Fabric`) | (in `PlacementProofs`) |
| `Placement` | policies and their caches, planner, pins, publish and replay; EXTENDS `Carrier` | `Fabric` | `PlacementProofs` |
| `Realtime` | one SSE client over the log, with cuts and restarts | `StreamResume` | `ConsumerProofs` |
| `UsageRollup` | counting transactions and flushes of one project | `UsageCount` | `UsageRollupProofs` |
| `BillingReadings` | the billing loop of several processes for one project | `BillingHours` | `BillingReadingsProofs` |
| `KeyedEffects` | abstract: what an ordered inbox promises | (refined) | - |
| `OrderedInbox` | the transactions of createPgOrderedInbox | `InboxOrder` | `ConsumerProofs` |

How they meet: a publish is one transaction that EventLog, Placement,
ArchiveTiers (its redaction) and Subscriptions (its revocation) each see from
their side. Placement composes with Carrier: the planner reads `Healthy`, a
publish that commits adds to `signals`. What DeliveryQueue takes as given (a
subscription on or off, a delivery's key, a hint at any time) is what
Subscriptions, Placement and Carrier bring about.

`MC*` modules only give constants their values. Definitions marked
`\* mutated:` are not part of any specification: each is a plausible bug in the
definition it stands next to, and substituting it must break the property that
`PROJECT.json` pairs it with. They show what each property would notice.

### DeliveryQueue

State: `tier` (where an event is), `delivery` (the table), `enabled`, `send`
(the open sends of each worker's slots), `pass` (each worker's dispatch pass), `life`
of each worker. `reached`, `excused`, `again` and a row's `slot` are history.

| action | code |
|---|---|
| Publish | insertBatch as the queue sees it, `store.js:186-317` |
| SetEnabled | setSubscriptionEnabled and whatever disables, `store.js:517` |
| Replay | requeue, `store.js:689-720` |
| Prune | moveBatch and prune with ON DELETE CASCADE, `store.js:777-830` |
| BeginPass | dispatchPass up to its await: the look at `stopping`, the room, the apps' share, `worker.js:152-159` |
| ClaimDue | claimDeliveries, delivery by delivery, `store.js:539-598` |
| StartPass | the pass starts the sends of what it claimed, `worker.js:160` |
| ClaimHinted | claimDelivery for a carrier, `store.js:607-633` |
| Post, GiveUp, Record | send, `worker.js:68-134`, and recordAttempt, `store.js:640-665` |
| Throw | a query of send that throws: logged, the slot is free, the lease is left, `worker.js:168` |
| Stop, Stopped, Crash | stop `worker.js:203-213`, at any point of a pass; a killed process |
| Tick | time passing |

Abstractions. All comparisons of the code are with the current time, so
`next_attempt_at` and `lease_until` are ticks still to go; 0 is "due" and "no
lease". A pass claims one delivery after another; the code commits them
together, under the locks of their subscriptions' rows, so that no other claim sees one
without the others (`store.js:571`; 611 explains the lock). A pass computes its room and
share once, and a stop() that comes while it awaits its claim ends neither the claim nor
the sends it starts. A POST has three outcomes (2xx;
failed, whether or not it reached the endpoint; refused before it). Each worker
process has an owner id of its own (`worker.js:50`), so a restart is another
worker. Record's `once` is what the look-up of the policy found when the attempt failed:
it may miss an at_most_once policy, because it threw or because the table is
empty after a failed load (`worker.js:114-117`, `fabric/policy.js:102-105`). `again` has the
at_most_once deliveries that something lets be posted once more: a replay, a POST
whose result was not recorded, a policy that was not found. A hint may come at any time for any delivery, which covers lost,
repeated and late ones.

### EventLog

One action is one SQL statement under READ COMMITTED. `tx` holds what a publish
has written and not committed; the row of the counter is the only lock that
matters (`numbering`). Publish: Begin, FindHot, FindReplay, FindReceipt, Number,
Insert, Collide, Abort, Commit (`store.js:186-317`). Retention: Move,
DropSandbox, DropUntiered, DropReplay, DropReceipts (`store.js:777-830`), in any
order, by processes that need not agree on the replay period (`ReplayAges`).
Readers: Pull, Oldest, NextToCome, Scan, ToHead, Answer, Lose
(`api/read.js:72-113`, `store.js:430-475`).

Abstractions. The conflict checks, the loop guard and redaction in a publish are
an Abort at any point. A tick is a day: no transaction is open across one. The
epoch in a cursor, `latest_cursor` and checkpoints are not modelled; held rows
of a restore are in ArchiveTiers. A page is the set of its rows: what the code compares
of a page is its last position and how many rows it has. A request is narrowed (one pattern other than `*`, so only
matching rows are fetched) or not; what matches is the set `Wanted`.

### Subscriptions

A request is a process whose statements are steps, and works off the calls that
its plan gives it; it may be abandoned at each. `now` counts ticks, `Second` of
them a second: a token's `iat` is in whole seconds, a revocation's time is not.

| action | code |
|---|---|
| Withdraw, Regrant, Tick | Network: withdraws an app or its grant, gives it back, issues tokens (external) |
| Revoke, RevokeCommits | revocationHook in the transaction of a publish: `store.js:386-401`. Its UPDATE takes the rows it finds enabled; both effects show at the commit |
| Guard, Grant | appOrService; subscribeRevoked, `auth.js`, `api/subscriptions.js:60-80`, against `app_revocations` |
| FindTwin, CountOwn, CountProject, Insert | the statements of POST /subscriptions, `api/subscriptions.js:83-150` |
| NotFound, Toggle, Rotate | enable, disable and rotate-secret, `api/subscriptions.js:154-178`, `store.js:505-520` |
| ScriptLists, ScriptRotates, ScriptWrites, ScriptDies, Restart | `scripts/rotate-subscription-secret.js --service`: rows, transaction, env file; the consumer restarts on the file |
| ReadRow, Post | worker.send: the row, then the signature, `worker.js:68-111` |
| Look, Decide, Apply, Keep, Answer | POST /resources/control, `api/resource-control.js:44-95` |

`origin`, `stored`, `told`, `promised`, `dropped` and `answered` are history: what
a request had seen when it turned a row on (`Unchecked` where it checked nothing), the
revocations in commit order, which secret a consumer was given and the set of old
ones with the time until which each was said to sign.
Abstractions: all apps are of one project; a topic stands for a pattern with its
endpoint; the rows of people, which another product creates, are there at first;
what a request refuses for its shape is left out.

### ArchiveTiers

A tier holds of an event nothing, its original or its tombstone. A row that a
transaction wrote is locked (`hotLock`, `replayLock`) and shows its old value
to the others until the commit; a statement that needs it waits.

| action | code |
|---|---|
| MoveLocks, MoveCommits, MoveFails, PruneReplay | moveBatch with SKIP LOCKED, prune, `store.js:777-830` |
| Redact, FindHot, FindReplay, ApplyHot, ApplyReplay, RedactCommits, RedactFails | applyRedaction, `store.js:324-372`: hot before replay in the look-up, and again for each target |
| Erase, EraseHot, EraseScan, EraseReplay, EraseCommits, EraseFails | extraErase, `account-data.js:76-97` |
| Begin, ExportReads, ExportGets, PutObject, PutManifest, ExportChecks, ExportDeletes | exportMonth under the month's advisory lock, `scripts/events-archive.js:78-131` |
| RestoreReads, RestoreCommits | restoreMonth, `scripts/events-archive.js:134-149` |
| PruneHot | the hot delete where there is no replay tier, `store.js:814-818` |
| Dies, HoldEnds, Ages, TierEnds | the script stops; time; EVENTS_REPLAY_RETENTION_DAYS becomes 0 |

`tiered` says whether there is a replay tier. `age` stands for the four cut-offs an event passes, oldest first. `taken`,
`restored`, `gone` and `torn` (an export stopped between its two puts) are history. All events are of one month, one source and one
subject, so a directive or a deletion is about all of them; a redaction by
`event_ids` looks one by one, one by `subject_ids` at all together, and the
model allows both.

### Carrier and Placement

`Carrier` is `carriers/jetstream.js` over `nats-core.js`, per process. `link` is the
connection (`sock`: none, connecting, open, or cut and not noticed), whether the process
consumes (`handlers`: EVENTS_WORKER, `jetstream.js:154`; ensure then asks for no consumer
and is ready without one, 91), the refusal
it was given, its timers, the request of `ensure` under way and what became of it,
`streamReady`, messages in hand, and the stages of `stop()`. `broker` is external:
it fails with or without its storage, changes what it allows, forgets an idle
consumer.

| action | code |
|---|---|
| Start, Handshake, HandshakeFails, Refused, Close, Reopen, Reconnect | `nats-core.js`: connect, the first PONG, -ERR, scheduleReconnect, retryDenied; `jetstream.js:69` onConnect |
| Serve, Answer, EnsureFails, Retry | ensure, request by request, `jetstream.js:79-114` |
| Message, Handle | handle, one message after another |
| Stop, Drained, Delete, Quit, Crash | stop, `jetstream.js:163-170` |
| SignalEnds, BreakerTicks | signalStream; `signals.js` record and its pause |

`Placement` follows a delivery to its key and carrier for one event type.

| action | code |
|---|---|
| Select, SelectFails, LoadEnds | all and load, `fabric/policy.js:98-121`: a load in flight fills the cache whatever was written meanwhile |
| Write, Written, Timer | put and remove, which drop the cache afterwards; the interval, `fabric/policy.js:137-155` |
| Publish, Requeue | insertBatch and requeue, from the position or row they hold, `store.js:260-300`, `689-720` |
| PlaceFresh (and LoadEnds) | planner.place, `fabric/planner.js:59-95`: eligible carriers, the cached decision, the record |
| Pin | backlogCarrier, `store.js:168`, `289`, `716` |
| Commit, Rollback | the end of the transaction, and the signal after a publish's |
| Settle, Evict | a delivery is settled; the planner's cache is full |

`past`, `own`, `places` and what a row says about its placement (`from`, `place`,
`stored`, `apart`) are history; a decision a process remembers keeps the `place` of its
record, so that two records of one carrier are told apart. Abstractions: `plan()` of the SDK takes any eligible
offer; a publish stores one event, a replay takes one row; publishes follow one
another from their position on, because `nextSeq` locks the counter, and a replay
takes no position; a tick is long beside a transaction. Whether the policy's select
sees the state of the publish's own transaction is the SDK's, and makes no
difference to what it reads.

### Realtime

A row is its position: Commit stores it, Announce is `publish()` called for it
afterwards (`realtime.js:225-237`). The catch-up (`realtime.js:131-222`) is one
action per awaited query: Connect, ReadHead or ReadLatest, ReadOldest,
ReadEmpty, ReadWindow, ReadScan, and Reply, which is everything after the last
await. The rows of an answer are a set, and `Sends` writes them in the order of their
positions (`InOrder`). Receive, Cut and Restart are the client, the network and the process.

Abstractions. The scan, itself several statements, is one step. Every committed
row is announced once in the process of the client, by the request, flush or
carrier that has it; a lost carrier message for a row of another process is not
modelled. The public window starts at any retained row. The connection cap,
heartbeats and epochs are not modelled.

### UsageRollup

One project, hours as numbers. A count (Add, Tally, Commit, Abort:
`usage.js:72-91`) is one failed attempt: the upsert with its row lock, the
read-and-write of `error_codes`, and the end of the transaction it runs in. A
A row lists at most `MaxCodes` codes: the failure of a further one is in the
row's total alone (`usage.js:84`), and `failed` remembers what each code should have. A
flush is Start, then Store or Skip per row, then End (`usage.js:107-138`), Fail
anywhere. `now` is the hour a flush finds open, the grace minute included, so a
count may be `Late`. What a flush read is the set of its records; it works them off in
the order of their hours.

### BillingReadings

Use and HourPasses move time. `used` is what the rows have, from which an hour is
aggregated; `done` (history) what was done in it. Requeue takes an operation back, at any
time: a replay resets the delivery's status and delivered_at (`store.js:705-706`), and its
next delivery is an operation of another hour. The reading of an hour in `Invalid` is not
stored, and the hour is marked all the same (`billing.js:151-160`). A process's tick (`billing.js:208-223`) is Start,
Aggregate per hour, Aggregated, Claim, Answer and Record per reading, Release
after a failure; Crash anywhere; Clock ends waits, leases and bounds a post by its
timeout. `order` has the pairs of pending readings of which the first comes earlier by
next_attempt_at: a claim leases the first due ones (`FirstDue`) and posts them in that
order (`Batches`). Abstractions: no transaction is
longer than the grace period of five minutes; the very first aggregation takes
less than an hour; the growth of the backoff is left open (any member of
`Backoff`); Billing deduplicates by key.

### OrderedInbox and KeyedEffects

One transaction per arriving event: Arrive, Receipt (`inbox.once`, external, as
it is used at `lib/client.js:254`), MoveHead (the upsert, 256-260), Apply
(`fn` and the commit), Skip (stale), Fail. A receipt and a head row are locked
from the statement that writes them to the end of the transaction.
`KeyedEffects` says what this is for in two actions, Apply and Supersede.

## 3. Runs

An invariant that a run checks is often a conjunction of named parts: `SendsApart`
(no delivery and no two of a key in two sends), `CursorsSound` (with
`PullMissesNothing`), `ResumesSound` (`ResumeMissesNothing`), `CountsAddUp`
(`CodesExact`), `SendsCorrected` (`SentAsCounted`, `RevisionsRise`), `EveryUseBilled`
(`BilledAsUsed`, `NoHourSkipped`), `OneAnswerCounts` (`NeverTwoPosts`, `SettledStays`),
`CreatesBounded` (`LimitOvershoot`, `TwinsOverlapped`), `ArchiveKept` (`ExportedIsKept`, `MonthReads`),
`CarriersSound` (`HealthyIsServed`) and `PoliciesInForce` (`RecentPolicy`,
`OwnWritesSeen`); most of them with the module's TypeOK. `PROJECT.json` has a mutant for
each part.

Every passing run fires each action of its specification or shares that with
another run of the same module. Bounds are named in the modules (`MaxSeq`,
`MaxReplays`, `MaxFails`, ...) and are guards, not state constraints.

| run | question | bounds and why they are enough |
|---|---|---|
| `QueueShares` | limits, clean stop, settled rows | two workers that may stop or crash, one of them with a carrier; an app subscription, which may be disabled, with `max_inflight` 1, two pass slots of which apps get one, one carrier slot; two events without a key, one send that throws; leases of one tick, which end under a running send. Both limits are below what would be taken without them: the share binds once a lease has ended and its send has not. One attempt and no replay: they are in the other run |
| `QueuePrompt` | order and exclusion within a key, what holds when leases outlive sends, and liveness | two workers of one slot, of which one may stop or crash; two events of one key (the later one more urgent, and at_most_once; the earlier one may end its retention), one replay, one send that throws, leases and backoff of one tick, two attempts. Order and exclusion relate pairs of events and pairs of claims; a lease of one tick ends at the first tick after its send has gone. The theorems cover leases that end under a running send, and carriers |
| `LogPublish` | one position per id, commit order | a pair, a repeat of half of it and a sandbox event, published by two requests and again later; retention with a replay tier, without one, and processes that disagree; quota of two |
| `LogPull` | readers miss nothing and catch up; publishes end | two overlapping publishers, pages of one row, answers of one, scans of two, narrowed and not, lost answers; all retention steps. One reader: readers share no state |
| `LogNarrow` | finding | one publisher, one event, one reader |
| `StreamResume` | resume and liveness | anonymous, user and service clients, with a position and without; three rows of which one each is public, for users and for services; replay of one row, scan of two, two cuts, one pruned row |
| `UsageCount` | counts, revisions, pruning, liveness | two counting transactions, two flushes of two rows, three hours of which one is invalid and one only passes, two codes in an hour with room for one, two counts an hour, one failing flush |
| `BillingHours` | aggregation, posts, liveness | two processes, hours 0..3, catch-up of two, batches of two, leases and posts of one tick (so that a batch can outrun its lease), one operation an hour of which a replay takes one back, one hour with an invalid reading, one reading that always fails, one crash |
| `InboxOrder` | refinement of KeyedEffects, liveness | two transactions; three events of a key of which two share a revision, one of another key, one without a key; one failure |
| `Subscriptions` | revocation, limits, secrets, repeats | eight plans of two requests with up to three calls each: an enable or a create against a withdrawal (with a sandbox call beside it, and twice in a row), creates at limits that one more would pass, two rotations within an overlap, a rotation against the script and a create, control requests of two keys with repeats and dry runs. Three ticks, two to a second. Each property relates two requests, or one and a revocation |
| `ArchiveTiers` | redaction, retention and archive | two events, two pruners with batches of one, one rewrite (a redaction or a deletion), three jobs of which two may wait for the month, each step may be the last; the replay tier is taken away at any time |
| `Fabric` | carrier and placement | one plan with a process whose connection comes and goes, without any bound on failures, and that consumes or does not from one start to the next; five with two connected processes and what one question needs: writes to one or two patterns, stale and failed loads, two or three publishes beside a replay, a rollback, an eviction, a breaker that opens. Reload 2 ticks, breaker of one failure and one tick |

Deadlock is checked in every run except `LogPublish`, `StreamResume`,
`Subscriptions`, `ArchiveTiers` and `Fabric`: there the bounds on publishes, rows,
cuts, calls or jobs can be used up with nothing left to do, and the real
system would go on with a further one. A plan (`Plans`, in `Subscriptions` and
`Fabric`) is chosen in Init and says which calls happen and how often; everything
about when they happen is left open.

Symmetry is used for publishers (`LogPublish`), pruners and jobs (`ArchiveTiers`),
in runs without liveness properties only.

### Fairness

* Queue: `WF` of a worker's passes (BeginPass, StartPass) and of the end of its
  stop, because the timer chain schedules the next dispatch after each one, failed
  or not (`worker.js:179-189`), and a stop awaits what ends by itself. `SF` of claiming,
  over all workers together: a pass may end without a delivery it could have taken, as
  its query failed or skipped a subscription that another claim had locked, and what is
  claimable in pass after pass is not left by every one. `WF` of a send's steps,
  because a request has a timeout; `WF` of the tick. A process goes away
  only while another is up: systemd restarts it (`Restart=always`). A crash is
  never forced and never fair.
* Log: `WF` of a publish's statements, `SF` of Number since PostgreSQL queues
  waiters of a row lock in order; `WF` of a reader's steps, `SF` of Answer: not
  every answer is lost.
* Stream: an EventSource reconnects (`WF` Connect), queries end, committed rows
  are published, what is written arrives unless cut; cuts are bounded.
* Usage: the `setInterval` timer starts flushes; statements end; `SF` of Store,
  which waits for the row's lock in turn.
* Billing: the interval keeps firing; a reading that Billing can take is
  answered with "ok" in the end (`SF` per hour outside `Stuck`).
* Carrier: timers that are set fire and a cut connection is noticed (`WF`); a
  handshake, a request of `ensure` and its answer that are tried again and again get
  through once (`SF`). Nothing is assumed of the broker or of stops: the
  property starts where the broker stays up and allows the process.
* Inbox: at-least-once delivery: an event without a receipt is delivered again.

## 4. Proofs

TLAPS checks the theorems below for every value of the constants that the named ASSUMEs
allow: any number of processes, events, subscriptions, requests or hours. An
assumption says that a bound is a number, that a plan or a table is well formed, or that
a name of "no one" is no one's; those about the code's data are spelled out. Each
inductive invariant was an invariant of a TLC run before it was proved.

A proof goes the same way everywhere. Each action gets a lemma that says field by field
what it does (in `DeliveryQueueProofs` one "effect" for all steps of a kind:
`QueueEffect`, `ClaimEffect`, `SendEffect`, `LifeEffect`); each part of the invariant is
shown against those; a last lemma joins them, and the property follows.

**`DeliveryQueueProofs`** (`NaturalBounds`, `SubscriptionShape`, `EventShape`,
`WorkerShape`)

* `TypeCorrect`: `Spec => []TypeOK`, which is inductive. The lemmas about rows
  and slots (`OneRow`, `OneSlot`, `WrittenRows`) are what each action writes.
* `KeyLeaseExclusion`: `Spec => []OneLeasePerKey`. `LeaseNext` says that any step
  but a claim makes no lease; a claim asks for a key without a lease.
* `InflightCapHolds`: `Spec => []InflightCap`, by the same lemma and the
  cardinality of a set with one element added.
* `EndpointOrder`: `Spec => []FirstSeenInKeyOrder`. That invariant speaks of
  posts already made and is not inductive: a claim of long ago may post now, its
  lease expired and its delivery claimed again or even settled by another
  worker. The strengthening `KeyOrderInv` adds that every send under way is in
  order (`SendsInOrder`), that a settled row's event is past (`SettledIsPast`),
  that an accepted post reached its endpoint, and that only published events
  have sends or histories (`PublishedInOrder`). With it a claim is the only step
  with something to show: what is earlier of the key is not queued, hence
  settled, hence past.
* `SettledForGood` and `StoppedHoldsNothing`: `Spec => SettledStays` and
  `Spec => []CleanStop`, from `HeldInv`: a row with an owner is queued
  (`OwnedIsQueued`), only hot events have rows, a process that is gone sends nothing,
  and a lease that a pass took and no exception gave up is of a send in that slot unless
  its process crashed (`PassLeaseIsSent`, without which nothing says what a stop may
  leave). `PassInv` says that a pass is of a process that has not gone, and that a slot
  whose send has not started belongs to a pass under way: it is why a stop that waits for
  the pass, and only then for the sends, waits for all of them.
* `AppShareHolds` needs `ShareInv`: the sends to apps and what the pass under way may
  still take of the share are together at most the share, although that was computed
  when the pass began.
* `SendsStayApart` and `OnceAtMost`: `PromptSpec => []SendsApart` and
  `PromptSpec => []AtMostOnceReached`, where leases outlive sends. `PromptInv`: each
  send of a retained event holds its row's lease (`Covered`), and no delivery is in two
  sends, whatever retention did (`OneSend`). `NotAgainInv` then says, of an
  at_most_once delivery that nothing has let be posted again, where its one POST can
  be: in a send still under way, or of a row that is settled or gone. It holds row by
  row, so a replay, an exception or a missed policy of one delivery says nothing of
  the others.

**`EventLogProofs`** (`LogBounds`; `LogShape`: finitely many ids, a batch does not repeat
one)

* `IdsKeepPositions` and `PositionsInCommitOrder`: `Spec => StoredOnce` and
  `Spec => CommitOrder`. `LogInv`: a publish's positions follow the counter, whose row it
  has locked from the first on (`Numbered`); what it inserted is unknown to all
  others, and what it looked for and did not find is unknown still or was committed
  within the tick (`Looked`: the three look-ups are three statements, and a row may move
  between the tables in between).
* `CursorsAreSound`: `Spec => []CursorsSound`. `ReadInv` follows a request through its
  statements (`Scanned`): up to where it has come, every row its reader wants is in the page, in a
  gap it was told of, or among what `overtaken` names. A page is handled by what it
  leaves behind (`PageFacts`: between the cursor and the last row nothing is missed, by the
  least of a set of numbers); `CommitOrder` is what makes a position that was passed
  final.

**`SubscriptionsProofs`** (`SubscriptionBounds`; `SubscriptionShape`: finitely many requests,
at least one; `ConsumersApart`: a consumer's prefix says what it is; `InitialInLimits`)

* `RevocationHolds`: `Spec => []RevokedStaysOff`. A token's check is earlier than the
  write it allows, so the invariant keeps what the check saw: a token that passed was issued
  after all that was stored by then (`SeenHolds`), `app_revocations` has the latest
  (`LatestStored`), a row that is on was turned on by a request that was checked
  (`OnIsChecked`), and one that a revocation in progress did not find was turned on
  during it (`OnSince`).
* `CreatesAreBounded`: `Spec => []CreatesBounded`. Up to the last row a request saw there
  was no twin (`LookedFirst`); and the rows of a consumer with the requests that passed
  its count and did not insert yet are at most the limit and the other requests
  (`InLimits`), which is inductive where the bound on the rows alone is not.
* `RotationsVerify`: `Spec => []VerifiesUnlessRaced`. `Usable` lists what a secret that a row
  has had still is to it; what consumers hold, what env files hold, what the script is
  about to write and what the worker read are each usable, but for the rows the property
  names (`HeldUsable`, `FileUsable`, `ScriptKnows`, `SendKnows`).
* `RepeatsAreIdle`: `Spec => RepeatChangesNothing`, from `KeysAnswered`: a key that was
  answered is in the log, and a request that goes on to decide found it was not.

**`ArchiveTiersProofs`** (`TierBounds`; `LockNames`: no job is called free, no pruner free, redact or erase)

* `TypeCorrect`, `RewritesReachAll` (`Spec => []OriginalOnlyRestored`), `ExportsAreKept`
  (`Spec => []ArchiveKept`) and `EventsLeaveByRule` (`Spec => LeavesByRule`). An event is
  in one tier (`OneTier`), a locked row is there until the commit (`LockedIsThere`), a
  rewrite has locked, or will still look for, each original that was stored when it began
  (`RedactCovers`, `EraseCovers`), and an export knows what the month's object has before it
  deletes (`JobKnows`, `ReplayKeeps`). That jobs accept the object (`MonthReads`) is preserved
  because only the job that has the month writes it, and what it wrote last is what its
  manifest is of, unless it is, or ended, between its two puts (`ReadsNext`).

**`PlacementProofs`** (`CarrierBounds`, `PlacementBounds`, `PlansShape`)

* `CarriersAreSound` (`Spec => []CarriersSound`) and `StopsAreClean`
  (`Spec => CleanStopDeletes`), from what the broker told a process that still holds
  (`Told`; of the consumer only where the process consumes) and what a connection waits for
  (`LinkOK`).
* `PoliciesHold`: `Spec => []PoliciesInForce`. What a process knows of the table, in its
  cache, in a load in flight or in a delivery, is a policy that was in force then and no older than
  what it wrote itself (`PoliciesKnown`); a transaction is waited for by one load
  (`LoadsAwaited`).
* `BacklogsStay`: `Spec => []OneCarrierPerBacklog`. A delivery past its look-up of the backlog
  has the backlog's carrier unless another came beside it meanwhile (`PinHolds`).
* `PlacementsExplained`: `Spec => []Explained`. Decisions have places of their own
  (`PlacesApart`), and what a process remembers, a transaction holds or a row says is explained
  by a record, or by one of a transaction under way, that is the latest of its class and key
  (`Decisions`).

**`UsageRollupProofs`** (`UsageBounds`: no count comes later than rows are kept; `UsageShape`; `CodeShape`: finitely
many codes occur)

* `CodesNeverLost`: `Spec => []CountsAddUp`. A row that is being counted in is locked, and what
  its transaction wrote is what is committed with its code tallied (`CountCopy`); a tally
  keeps a row exact, be its code listed, new or beyond MAX_CODES (`TalliedExact`), which is
  about the sizes of two sets of codes of which one has an element more.
* `SentIsCounted`: `Spec => []SendsCorrected`. What a flush holds of an hour agrees with its
  row in each respect no race has spoiled (`ReadKnows`), and the hour's events stay below its
  row's revision as long as there is a row (`EventsBelow`); that a pruned row does not come back
  needs `Late <= Keep`.

**`BillingReadingsProofs`** (`BillingBounds`, `BillingShape`)

* `UseIsBilled`: `Spec => []EveryUseBilled`. The amount billed lies between what the rows still have
  and what was done, because once an hour has closed nothing is added to either, and a replay
  only takes from the rows (`MarkedAsUsed`). A tick decides once which hours it will
  aggregate and does so one by one beside the ticks of others, so that no hour is left out is
  not inductive: what a tick skipped is beyond the catch-up for as long as it runs
  (`SkippedByTicks`), and no tick starts a period before the first one there is
  (`TicksFollow`, which is where the first aggregation's hour matters).
* `OneAnswer`: `Spec => OneAnswerCounts`. A row of a batch is leased and in no other batch
  unless a lease ended first (`HeldOnce`), from the claim to the record or the release; a claim
  takes rows without a lease, hence rows that nobody has.

**`ConsumerProofs`** (`InboxShape`, `InboxBounds`, and for the stream `StreamBounds`, `StreamShape`)

* `TypeCorrect`, `HeadCorrect`, and `Refinement`: `Spec => ImplementsEffects`,
  with KeyOf and Revision arbitrary. The inductive invariant `IInv` adds to the
  two properties that an event whose receipt is being written has none and one
  writer (`ReceiptHeld`), and that a transaction that has judged a head is the
  only one for that key and its verdict still holds (`HeadHeld`): without them a
  verdict could be stale when it is committed.
* `ResumesAreSound`: `StreamSpec => []ResumesSound`. That property speaks of what arrived, and
  a cut may come at any time; so what is on the wire must pay as it goes: no event is sent
  before each earlier row that is `Owed` was received, told of, late or sent
  (`Pays`, in `AccountsOK`). At each point of a catch-up `AccountsOK` says up to which position
  that holds. Two facts carry it across the queries: all that was published beyond the head
  that was read waits in `pending`, or is late (`WaitOK`), and what was not published before
  a later row is late (`LateOK`). Without a first position the rows owed depend on the
  first event sent, which a cut may take back; `Reached` says from where a stream
  may go on without owing more.

**Model-checked only**

* Every liveness property (`EventuallySettled`, `StopReturns`, `ReaderCatchesUp`, `PublishEnds`,
  `EventuallyStreamed`, `EveryHourSent`, `EveryReadingSettles`, `EventuallyReady`): TLAPS has no
  rules here for fairness, nor for ENABLED. Every other property of a passing run is proved.

## 5. Findings

One run ends in a violation, of a property that quotes the code:

* `LogNarrow`: with one narrow pattern, `scan` moves the cursor to `lastSeq()` in a
  statement after the page's (`store.js:470`); a matching event committed in
  between is skipped for good.

Disagreements met while modelling, which the properties are conditioned on
rather than having a run each:

* An expired claim and a newer claim of the same worker share an owner id, so the
  older one's result is recorded over the newer lease (`store.js:645`; the comment
  at 642 says the newer result is the one to keep).
* A replay keeps the lease, so a send in flight records its attempt over the reset
  (`store.js:705`, against "reset to pending, attempt 0" at 686). `SettledStays`
  allows for a replay.
* at_most_once makes a recorded failure final "(dead, never retried)", as the root README
  says. Such an event is posted again after a crash between the POST and the record,
  after a recordAttempt that throws (`worker.js:168`), and after a stop with a carrier's
  send open: `worker.stop` waits for the sends of its own passes only, and those of a hint
  are waited for by the carrier that gave it (`index.js` closes the carriers first; for
  valkey-v1 that wait is the SDK's). `AtMostOnceReached` names these, event by event.
* at_most_once is looked up when the attempt has failed, and not before it is made: a
  look-up that throws counts as at_least_once (`worker.js:116`), and so does one of the empty
  table that a failed load leaves (`fabric/policy.js:102-105`), and the event is retried.
  `AtMostOnceReached` names this too.
* A send whose query throws leaves its lease behind, also when the worker then stops
  cleanly, and the next worker waits it out (`worker.js:168`). `CleanStop` excludes that
  lease, and no other.
* On an empty store `oldestSeq()` takes two statements; the gap it gives can cover
  an event committed in between (`store.js:433`). It counts as told.
* Two overlapping publishes of one id: the second fails on the primary key instead
  of answering `duplicate: true` (`store.js:270`). `Collide` in EventLog.
* The codes of an hour add up to its errors only up to MAX_CODES of them: the 21st code and
  any later one count in `errors` alone (`usage.js:84`). `CodesExact` says just that.
* A delivery that is replayed before its hour is aggregated is not billed in that hour, but
  when it is delivered again (`billing.js:110-119`, `store.js:705-706`); one that is replayed
  afterwards is billed in both hours. A reading that does not match its schema is not stored, the
  hour is marked all the same, and it is never billed (`billing.js:151-160`). `BilledAsUsed` is
  between what the rows have and what was done, and excludes such hours; a billed quantity
  is of one aggregation, which nothing repeats.
* An export that stops between its two puts (`scripts/events-archive.js:104-105`) leaves an
  object without a manifest, or with the one before it: `readObject` (58-63) refuses the
  month from then on, to a restore and to a further export alike, whereas the root README
  (line 154) says "Re-running, or exporting the rest of a month later, merges into the
  month's object". No row is lost that Postgres still has, but what earlier exports deleted
  cannot be restored until someone repairs the manifest by hand. `MonthReads` excludes a month in which that
  happened (`torn`), and TLC refutes it without that.
* With EVENTS_WORKER=off a process is connected, ready and hence healthy without a consumer
  (`jetstream.js:91`, `154`; `index.js:89`; `config.js:193`), and the planner places deliveries
  on nats-js-v1 that no process may consume; the poll of any worker still finds them. `HealthyIsServed` asks for the consumer where the process consumes.
* A project's retained bytes are summed before the counter's lock, so two
  publishes may exceed the quota together (`store.js:198`).
* A catch-up takes `latest` before its scan; rows committed in between are sent by
  the replay and again from pending (`realtime.js:211`).
* Without a position, a row published between joining and reading the head is
  dropped (`realtime.js:177`).
* Two overlapping flushes store two events for one rollup (`usage.js:131`); as many
  invalid rollups as a flush reads starve the later hours (`usage.js:127`).
  `RevisionsRise` excludes the first, the bounds of `EveryHourSent` the second.
* `sent` marks whatever the row holds (`usage.js:132`), and the event was made from
  the row as read at 114: a count that commits in between is never sent, against
  `usage.js:21-22`. `SentAsCounted` excludes such a count.
* `publish()` of the gateway drops rows at or below what a connection was sent
  (`realtime.js:230`), and nothing makes publishers call it in commit order
  ("in seq order", 225): a row whose publisher comes second is not sent.
  `ResumeMissesNothing` and `EventuallyStreamed` exclude such rows (`late`).
* The connection cap is checked before `await store.epoch()` (`realtime.js:146`,
  `151`), against the comment at 170.
* A request that passed its revocation check may write after the revocation
  committed, and the subscription stays on (`api/subscriptions.js:173`, against
  the root README's line 231). `RevokedStaysOff` allows for it. (A token's `iat` is a
  whole second, so a newer token of the revocation's second is refused too.)
* Overlapping creates exceed a limit by the number of requests in flight and insert
  twins (`api/subscriptions.js:95-132`).
* A second rotation within the overlap ends the first secret's (`store.js:512`). A
  subscription created while the operator's script runs gets the old secret, which
  no other subscription of the service signs with after it.
* `exportMonth` also deletes rows a restore holds, and `restoreMonth` does not hold a row that
  is still there. A restore brings an original back that was redacted after its
  export, as the root README says at line 154.
* `trial` of a breaker is read and never set (`signals.js:34`): a failed trial does
  not open it again.
* A stop of nats-js-v1 deletes its consumer (`jetstream.js:23`) unless an ensure is
  under way, whose CONSUMER.CREATE may come last. `CleanStopDeletes` excludes it.
* `ensure` runs on a connect and after its own failure. A stream that is deleted under
  an open connection is not made again; Carrier does not have that case.
* A load of the policies that fails is cached as an empty table, so that the default
  policy is served until the next load (`policy.js:102-105`); a load in flight when
  a write drops the cache puts the older table back. `RecentPolicy` and
  `OwnWritesSeen` name both.
* A key's backlog can be on two carriers when a replay overlaps another transaction
  of the key, or when the policy gave the key another value since
  (`store.js:289`, `716`; the root README's line 183). `OneCarrierPerBacklog` excludes what such
  a replay put there.
* The planner remembers a decision before its transaction commits (`planner.js:89`): a
  rollback loses the record for good. A decision's time is taken later than its
  delivery's `created_at` (`planner.js:62`, `store.js:187`), so the placement API's look-up by
  time misses the decision of the delivery's own transaction. `Explained` excludes
  the first and orders by what was decided, not by time.
* The lease of a batch of readings can end before its last post
  (`billing.js:183`). `NeverTwoPosts` excludes readings whose lease was outrun.

## 6. What is not modelled

* The topics and queues of `valkey-v1`, `nats-v1` and `cloud-v1`: hints, like those of
  nats-js-v1, that DeliveryQueue allows at any time. A lost TOPIC message leaves
  a remote row out of the live streams until the client resumes.
* Several streams of one process and their cap, tickets, heartbeats; the epoch of
  cursors and streams; checkpoints, which are one row per consumer.
* The statements of one claim under READ COMMITTED (`ClaimTx`): whether they amount
  to the steps of DeliveryQueue rests on the lock of the subscription's row.
* An export whose database connection ends while it goes on writing: the month's lock
  is gone then, and another job may write beside it. Dies ends the whole job.
* Two revocation publishes at once; they wait for one another on the counter.
* The `--subscription` form of the rotation script, one row of what `--service` does.
* Topic patterns in code and as SQL LIKE, and cursor encoding: functions of strings
  without state.

What is left to do, in this order: `ClaimTx`, the statements of a claim, as a
refinement of the claim of DeliveryQueue; the epoch of cursors and streams.

Left out for good: request parsing and rendering, token verification and
signatures (cryptography), sockets and address resolution, per-actor rate limits
(counters of a library), metrics and pages.
