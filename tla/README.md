# TLA+ models of Icinga for Kubernetes

These modules model the v2 data path of Icinga for Kubernetes
(`internal/v2`): how an observation made by a collector becomes an inventory
row, a change-log entry and a notification, and what happens to it when
processes stop, requests are lost or repeated, transactions overlap and
retention runs. TLC checks the modules on small instances; TLAPS proves all
their safety properties for every number of events, shards, workers, senders,
replicas and clients.

Source paths below are relative to the repository root. `PROJECT.json` lists
the source lines of each definition, the runs, the hazards and the theorems.

## 1. The system

```
 Kubernetes API
      | list, watch                       src/internal/v2/collector
  collector  --- local spool
      | POST /ingest (batches)            src/internal/v2/api
     api  ---- Enqueue ---->  PostgreSQL: ingest_event, ingest_shard_head
      ^                             |  ApplyShard, ResolveEvents, Cleanup
      | queries, SSE, federation  worker  src/internal/v2/store, worker
      |                             v
      +----------------- resource, change_log, notification_outbox
                                    |  Claim, Delivered, Retry
                                 notifier  src/internal/v2/notifier
                                    v
                          Icinga Notifications (external)
```

| Component | State it keeps | Operations | What makes it correct |
|---|---|---|---|
| Collector list and watch (`collector.go`) | Lease holder, snapshot start, list version, unsent batch | `watch`, `consume`, `flush`, `snapshotEvent`, reconcile marker | a marker removes nothing its snapshot saw; a caught-up inventory equals the cluster |
| Discovery, RBAC, partitions, resync (`collector.go`, `resync.go`) | running shards, namespaces per partition, signal channel, applied requests | `reconcile`, `preserveExistingNamespaces`, `watchNamespaces`, `applyResyncRequests` | no update lost, no revocation without cause, everything permitted is watched, every request relists; revoked rows are tombstoned |
| Sender and spool (`client.go`, `spool_space.go`) | spool files, byte counter, `replayMu` | `Send`, `replay`, `post`, `spool`, `spoolWithBackpressure` | nothing accepted is lost or overtaken; the capacity holds; the spool drains |
| Ingest inbox (`store.go`, `server.go`, `worker.go`) | `ingest_event`, `ingest_shard_head` | `Enqueue`, `ApplyShard`, `Cleanup` | 202 means durable; the head is the earliest unapplied row; the counter is exact; shard order; everything is applied |
| Inventory and Event recovery (`store.go`, `event_recovery.go`) | `resource`, `reconciled_at`, `change_log`, `notification_outbox` | `applyResource`, `resolveEvent`, `ResolveEvents`, `Cleanup` | no roll-back, no resurrection, every change logged, incidents agree with rows |
| Outbox and notifier (`notifier.go`) | claims, attempts, back-off | `Claim`, send, `Delivered`, `Retry` | per-resource order at the server, no loss, late copies harmless, delivery |
| Change log and SSE (`store.go`, `server.go`) | sequence numbers, stream cursors | insert, `Changes`, `LatestSequence`, `events` | each change once, in order, none skipped |
| Federation (`federation.go`) | cache, pending calls, cooldown, probe flag | `federationRead`, `fetchFederation` | one probe per failed target; a recovered target is asked again; freshness is never better than the source's |
| Lookups (`server.go`, `store.go`) | none of their own | `batchGet`, `resolveGraph`, `resolveSelector`, `aggregate` | what could not be looked up is not reported as gone; the worst freshness; counts cover all rows |
| Resource list (`store.go`) | the client's cursor | `List` | rows that are there all the time are listed exactly once |
| Business processes (`store.go`, `server.go`) | definition and generation | read, optimistic update, delete | no lost update |
| Service-account tokens (`kubeauth/token.go`) | cached token, due time | `Token`, `Invalidate`, `RoundTrip` | a late 401 does not discard a fresh token |
| Normalisation and adapters, live gateway, metrics, configuration, migrations, entry points | none, or caches | reads and pure projections | see section 7 |

Components meet at four places: a replica's `Sender` and the ingest endpoint
(HTTP, at least once); the inbox tables, shared by API and workers; the
inventory transaction, which writes row, change log and outbox together; and
the outbox and change-log tables, read by notifiers and streams.

### What is hard

* **Overlapping READ COMMITTED transactions.** A head is chosen from one
  snapshot and written later; `SKIP LOCKED` decides on a snapshot that may be
  stale; sequence numbers are drawn before they are visible.
* **At-least-once delivery.** The API may store a batch whose answer was lost,
  the spool is replayed late by a process that no longer leads, notifications
  are sent twice.
* **Process death between two writes**: temporary file and rename, post and
  removal, send and acknowledgement.
* **Retention** forgets the very rows that protect against old observations.
* **Limits**: spool capacity, block size, page size, claim duration.
* **Partial knowledge.** A permission review, a federated lookup or a cache
  answers in part or late, and what is missing must not be taken for absent.
* **Progress** that depends on somebody else: a spooled batch on another
  sender's call, a warning Event on a periodic scan, an outbox row on its
  predecessors.

`PROJECT.json` lists 40 such hazards with their lines and the properties that
cover them; two are not covered and say why.

## 2. Modules

| Module | Models | Extended by |
|---|---|---|
| `ShardQueue` | what the inbox promises: one queue per shard (abstract) | instantiated by `Inbox` |
| `Inbox` | `Enqueue`, `ApplyShard`, inbox part of `Cleanup` | `MCQueues`, `MCInbox`, `InboxProofs`, `InboxRefinement` |
| `Inventory` | `applyResource`, `resolveEvent`, `ResolveEvents`, inventory part of `Cleanup` | `MCInventory`, `InventoryProofs`; instantiated by `CollectorProofs` |
| `Incidents` | what the outbox promises: incidents that go through the queued entries one by one (abstract) | instantiated by `Outbox` |
| `Outbox` | outbox rows, notifier loop, external server | `MCQueues`, `OutboxProofs` |
| `Spool` | `Sender` of a collector process | `MCSpool`, `SpoolProofs` |
| `Collector` | one shard, from the Kubernetes API to its rows | `MCCollector`, `CollectorProofs` |
| `Discovery` | `reconcile`, `runShard`, `watchNamespaces`, resync requests | `MCDiscovery`, `DiscoveryProofs` |
| `ChangeStream` | change log, `events`, `Changes`, `LatestSequence` | `MCApi`, `ApiProofs` |
| `Listing` | `List` and its cursors | `MCApi`, `ApiProofs` |
| `ResourceLookup` | `batchGet`, `resolveGraph`, `resolveSelector`, `aggregate` | `MCApi`, `ApiProofs` |
| `Federation` | `federationRead`, `fetchFederation` | `MCApi`, `ApiProofs` |
| `BusinessProcess` | get, put and delete of a definition | `MCApi`, `ApiProofs` |
| `TokenSource` | `kubeauth` token cache and transport | `MCApi`, `ApiProofs` |

`Collector` composes the collector's list and watch with the path to the
inventory row. Three refinements tie modules together: `Inbox` implements
`ShardQueue`, `Outbox` implements `Incidents`, and the rows of `Collector`
implement `Inventory`. `MCQueues`
and `MCApi` put modules that share no state under one specification: the
variable `part` chooses which of them runs in a behaviour and the others stay
in an initial state. Since no action of one part reads or writes a variable of
another, these are all the behaviours a property of one part can tell apart.

Definitions introduced by "Seeded defect" are deliberately wrong variants of
the definition after them. They take no part in any specification; putting
one in place of its original must make the property violated that is meant to
detect it, which shows that the property can fail.

### Inbox

`inbox[e]` is the row of an event: absent, inserted by an open transaction,
committed and unapplied ("pending"), or applied. `head`, `pending` and `lock`
are the columns and the row lock of `ingest_shard_head`. `Enqueue` is split at
its statements: `InsertRow`/`SkipDuplicate` (one `INSERT ... ON CONFLICT` per
event; a key held by an open transaction makes it wait), `StageHead` (the
upsert takes the row lock, the `UPDATE` reads the earliest row in a new
snapshot), `CommitEnqueue` or `CommitDuplicates`, and `AbortEnqueue` at any
point. `ApplyShard` is `BeginApply` (the locking SELECT takes its snapshot),
`LockShard`/`SkipShard` (row by row; a head that moved fails the recheck, a
locked one is skipped), `ProcessBlock`, `CommitApply`, `AbortApply`. The clock
ticks with inserts and two transactions may read the same microsecond.
Payloads that cannot be decoded are the code's own error path: the row backs
off and ends the block. What an applied event does is module `Inventory`.

Seen from outside the inbox is `ShardQueue`: `Put` stores the events of a batch
at places given by a stamp, `Take` removes at most `Limit` events, at most one
is set aside, and whatever waits ahead of a taken event is taken with it or was
set aside before. The refinement mapping shows the committed unapplied rows
with their `received_at`, and the failed ones as set aside. A committed batch
is a `Put`, a committed block a `Take`; open and aborted transactions, skipped
heads, back-off that ends and retention are invisible.

### Inventory

One action is one transaction, or one event inside `ApplyShard`: the head lock
and the row lock serialise them. Every observation may be applied at any
moment and any number of times, which covers late spools, retries and rows
that expired from the inbox. `row` is the table `resource`, `watermark` is
`reconciled_at`, `incident` is what the last outbox row of a resource says as
the notifier would send it (`makeEvent`), `logged` is the change log of the
last transaction. Reason, labels, kind and name are one `detail`. `cutoff` and
`retired` are history variables: the latest reconciliation ever applied to a
shard, and the Events that retention removed while they were a problem.
Collectors never set `deletedAt` on an upsert, so an upsert always stores a
live row.

### Outbox

A row is queued, claimed by a notifier, sent, acknowledged or retried, and
pruned. `Claim` orders by id, but `SKIP LOCKED` can pass over a row another
statement has locked, so any claimable row may be taken. A claim expires when
its holder gave the entry up, and for `Slow` holders at any time. The server
is external: it processes each event UUID once and may process a request after
its sender timed out.

Seen from outside the outbox is `Incidents`: an entry is raised after all earlier
ones of its resource, the incident is shown to move on to the next entry, never
past one and never back, and an entry is settled once, after the incident went
through it. The refinement mapping shows every entry that ever had a row as
raised, the delivered and the pruned ones as settled, and what the server shows
as it is. Queueing a row is `Raise`, the first processing of an entry `Show`, the
update that marks its row delivered `Settle`. Claims, retries, expiry,
repeated and late requests and retention are invisible.

### ChangeStream

`open[w]` are the sequence numbers drawn by an uncommitted transaction,
`visible` the committed rows. `Poll` reads one page after the cursor and may
break after any number of rows; `Connect` starts at the tail or resumes with
`Last-Event-ID`.

### Spool

Each sender (watch goroutines and the heartbeat) is a process with a program
counter inside `Send`. `replayMu` is held for a whole replay, HTTP included,
and for a whole spool write; the direct post runs outside it. The files are a
sequence in the order of their names, which is the replay order; names begin
with the wall clock, so with `ClockSteps` a new file may take any place. Posts
fail with the request lost, stored unseen, or stored later (`late`). A crash
keeps the files, forgets what was being sent and recounts the bytes. A
heartbeat's batches take part in everything, but their fate is not recorded.
Two details of the code show in the model: a sender whose context is cancelled
always gives its batch up (`CheckContext`; callers then log it), and a
temporary file left by a crash is neither counted nor removed.

### Collector

`log` is the history of one shard's objects, a resourceVersion its position.
A holder starts a snapshot, lists in pages at a fixed version, sends the
marker with the time the snapshot started, opens the watch at the list's
version, batches and flushes changes, and starts over when the list or the
watch fails. It may be stopped at any point, and another replica takes over
while the first one's messages are still on their way. `channel[r]` is FIFO
and loses nothing that `Send` did not report, which is what `Spool`
establishes for one process; the inbox stores an event id once (`Inbox`) and
rows follow the rules of `Inventory`, which is a theorem
(`CollectorImplementsInventory`). Assumed: Leases are exclusive and the
replicas' clocks agree.

### Discovery

A shard is a GVR with a namespace (or the cluster scope), a target is a GVR
with the partition its namespaces hash to. A refresh is two atomic parts: the
review, whose answer may be true, partial, failed or a stray 401, and the
critical section under `c.mu`, followed by one `Signal` per running target (the
last statement of `state.update`). Permissions, the namespace listing and the
resync document change in between; leases come and go; the process restarts
with an empty `appliedResync`. Each target's goroutine waits, takes the
signal, reads the state, starts missing watches, and stops unwanted ones one by
one, each followed by its marker. `live` are the shards with live rows.
`excused` records which shards a complete review gave reason to give up,
`relisted` which requests had been accepted when a watch began. `Home` is the
collector's own namespace, the only one reviewed when listing is denied.

### Listing

A client reads page after page while rows are inserted (`sort_id` is drawn when
the transaction is open and visible when it commits), tombstoned, changed,
shown again and purged. The three orders (`sort_id`, `id`, name and `sort_id`)
and their cursors are modelled; names do not follow ids.

### ResourceLookup

A situation (what exists, what each server's inventory holds and how fresh it
is, how each remote's call goes) is chosen in `Init`; requests are asked into
it. The remotes run the same handlers. A live server's inventory is taken to be
its cluster; any other may lack rows or keep old ones. Freshness is a rank.

### Federation

A reader looks into the cache, then joins or starts the refresh of its cache
key under `federationMu`, and may leave before it ends. Refreshes succeed, are
refused or fail; entries age and are evicted; the cooldown of a target expires
at any time after it began. An entry carries the rank it was given and, for
the property, the rank the target had when it answered. `Unmarked` are requests
whose handler sets no `X-Icinga-Freshness` header.

### BusinessProcess

Editors read, write and delete one process with the generation they know; a
stored reply may be lost. Stamps and creations are history.

### TokenSource

`Token()` holds the mutex while it asks the API server, so time passes; an
issued token lives for up to `Lifetime` ticks and is refreshed at four fifths;
a request carries a token and may be answered 401 long after the token was
replaced.

## 3. Runs

| Run | Instance | What it shows |
|---|---|---|
| `queues` | inbox: 4 events, 2 shards, 3 overlapping batches, 2 clients, 2 workers, block size 2, one undecodable event; outbox: 3 entries of one resource, 2 slow notifiers, 2 attempts told apart | heads, counters, acknowledgements, order, and the refinement of `ShardQueue` under every interleaving, abort and retention step; server-side order, no loss, and the refinement of `Incidents`: late and repeated requests are harmless |
| `drain` | inbox: 2 events, 1 client, 2 workers, block size 1; outbox: 2 entries, one slow and one prompt notifier; fairness | everything committed is applied, everything queued is delivered |
| `inbox_order` | 2 events, the first undecodable, 1 client, 2 workers, block size 2 | *violation*, finding 1 |
| `inventory` | a pod and a warning Event that regards it, their projections dated or not, 2 shards, 3 time values, fairness | resurrection, roll-back, incidents, tombstones, change log, replay, and that every dated problem ends |
| `collector` | 2 objects, 2 replicas, 3 changes, 6 clock readings | marker safety and exactness after hand-over |
| `collector_loss` | same, `Send` may report errors | *violation*, finding 3 |
| `spool` | 1 watcher with 2 batches, the heartbeat, capacity 4 (two large batches, or a large and two small), 1 crash, fairness | loss, order, capacity and drainage of the spool |
| `discovery` | 2 namespaces of one partition, 1 resync request, 2 changes around the process, fairness | lost signals, unfounded revocations, progress of watches and resync |
| `discovery_revoked` | a namespaced and a cluster-scoped resource, each alone in its partition, 1 change, fairness | *violation*, finding 4 |
| `api` | stream: 1 writer, 1 client, 4 changes, pages of 2; list: 3 rows, pages of 1; lookups: 2 remotes, 3 ids; federation: 1 target, 2 cache keys, 1 reader, 2 ranks; process: 2 editors, 4 writes; token: 2 requests, 2 tokens, 4 ticks; fairness for the federation | stream: each change once, none skipped; list: steady rows exactly once; lookups: nothing unsure is reported gone, worst freshness, full counts; federation: one probe, honest freshness, recovery; no lost update; only refused tokens are dropped |
| `stream_gap` | 2 writers | *violation*, finding 2 |
| `selector_freshness` | 1 target, a request without the freshness header | *violation*, finding 5 |

### Why the bounds are enough

* `queues`, inbox: two concurrent transactions of each kind are what every
  hazard of the source needs (one holding, one reading); overlapping batches in
  opposite orders produce duplicates and waits; a block size below the number
  of rows of a shard makes a block end early; `MaxClock` = 3 allows three of
  the four rows to be inserted and a row to be inserted again after retention.
  The theorems remove all these bounds.
* `queues`, outbox: the claim's condition relates entries of one resource only,
  so all three have the same one; entries of different resources share nothing
  but the notifiers. Attempts are told apart up to two because only "an earlier
  attempt" and "the current one" matter.
* `inventory`: three times (0 to 2) allow before, at and after a
  reconciliation; two shards a resource that changes its shard; the projections
  a problem that recovers, changes severity, or only changes its reason.
* `api`: four changes fill two pages; three rows of which two share a name give
  a page boundary inside a name; a remote, a local and a mixed set of ids;
  a failing and a succeeding refresh of one target need two cache keys; four
  writes are create, update, delete, create; two tokens are the one that was
  replaced and its successor.
* `spool`: two batches of a shard show an order; the capacity is reached by
  them alone and by mixtures with heartbeats. With three batches the run also
  passes, in about four and a half minutes.
* `collector`: three changes let an object be created, changed and deleted, or
  two be created and one deleted between pages; six clock readings give two
  snapshots with a page each and a watch event in between.
* `discovery`: two namespaces of one partition let one be revoked while the
  other remains; two changes are a revocation and a new grant, a request and
  its change, or a restart after either. Partitions are independent but for
  the refresh, which treats them one by one.

Deadlock is checked except in `queues` and `drain`, where all entries of the
outbox may be delivered and nothing is left to do.

### Fairness

* `Inbox`: the worker's idle timer is always reset, so `BeginApply` and
  `SkipShard` are weakly fair; locking, processing and committing are strongly
  fair because they may be interrupted by aborts but not every time; time
  passes. Nothing is assumed of a client beyond the commit of a transaction
  that has reached its last statement.
* `Inventory`: the 30-second ticker of `worker.go` calls `ResolveEvents` for
  ever, and a row is not locked by somebody else each time.
* `Outbox`: `Run` never ends; network, server and database do not fail every
  attempt. One notifier must not be slow: if all outlive their claims always,
  delivery is never acknowledged.
* `Spool`: the heartbeat ticker never stops, a Go mutex admits every waiter
  (its starvation mode), and the API asked again and again answers at last.
  No fairness is assumed of watch goroutines' calls.
* `Discovery`: the five-minute ticker never stops; the API server does not fail
  at every refresh, nor the resync document at every refresh that goes through;
  some replica gets the lease and does not lose it each time before
  `watchNamespaces` gets to work.
* `Federation`: a call ends within its timeout, the cooldown is a time span,
  clients keep reading, and a reader is not excluded from `federationMu` for
  ever.
* `drain` states the fairness of `Inbox` and of `Outbox`. TLC's effort doubles
  with every strong condition, and only one of the two parts runs, so
  `DrainFairness` shares the strong ones: a condition on "an action of the one
  or an action of the other" is the condition on the action of the part that
  runs.

## 4. Findings

1. **An undecodable event is overtaken** (`inbox_order`). A row that cannot be
   decoded backs off, and the block SELECT passes over rows that back off. The
   head still names the failed row, so normally its shard waits. But a worker
   whose locking SELECT took its snapshot before the back-off was committed
   finds the head unchanged, locks it, and applies the *later* events of the
   shard. `ARCHITECTURE.md` promises strictly ordered events. The theorem
   `OvertakingOnlyFailed` shows that this is the only way to overtake: the
   event passed over always is one that failed to decode.
2. **A stream can pass a change it never delivers** (`stream_gap`). Sequence
   numbers are drawn at the INSERT and become visible at the commit; a
   transaction that drew a lower number may commit after a stream moved its
   cursor beyond it. With one writing transaction at a time (`api`) nothing
   is skipped.
3. **A lost page does not hold back the marker** (`collector_loss`). `flush`
   logs the error of `Send` and `watch` sends the marker all the same; objects
   on the lost page are tombstoned although the snapshot listed them, until
   the next list. As long as `Send` does not fail the marker is safe
   (`collector`).
4. **The last namespace of a partition is not tombstoned** (`discovery_revoked`).
   `watchNamespaces` sends a marker for a revoked namespace as long as another
   namespace of the partition remains. When none does, `reconcile` cancels the
   shard, `watchNamespaces` returns without a marker, and the rows stay live.
   With 16 partitions and few namespaces, and for cluster-scoped resources
   always, that is the usual case. The test of the revocation calls
   `state.update` with an empty set, which `reconcile` never does.
5. **A stale selector resolution becomes live** (`selector_freshness`).
   `resolveSelector` does not set `X-Icinga-Freshness`; the federating server
   takes a missing header for live and overwrites the freshness in the body.
   For requests whose handlers set the header freshness is never improved
   (`api`).

One observation is not a run of its own: with `ClockSteps = TRUE` the property
`FirstArrivalsInOrder` of `Spool` fails, because a wall clock that steps back
between two spool writes reverses the file names. Observation times still keep
the inventory right (`Inventory`), so only the order of arrival is affected.

## 5. Proofs

| Theorem | Statement |
|---|---|
| `InboxTypeOK`, `HeadCorrect`, `PendingCorrect`, `AckedDurable` | `Spec => []P` for `TypeOK`, `HeadIsEarliest`, `PendingCountsUnapplied`, `AckedIsDurable` |
| `OvertakingOnlyFailed` | `Spec => OvertakesOnlyFailed` |
| `InboxImplementsQueue` | `Spec => ImplementsQueue`: `Inbox` refines `ShardQueue` |
| `InventoryTypeOK`, `NoResurrection`, `IncidentsAreConsistent` | `Spec => []P` for `TypeOK`, `NothingLiveBeforeReconciliation`, `IncidentMatchesInventory` |
| `NoRollBack` | `Spec => ObservationNeverRollsBack` |
| `SpoolTypeOK`, `AcceptedIsSafe` | `Spec => []P` for `TypeOK`, `NothingLost` |
| `ArrivalOrder` | `~ClockSteps` and `Spec` give `[]FirstArrivalsInOrder` |
| `EveryChangeIsLogged`, `MarkersSpareTheObserved`, `ResolvedStaysResolved` | `Spec => P` for `ChangesAreLogged`, `TombstonesOnlyUnobserved`, `ReplayNeverReopens` of `Inventory` |
| `CapacityHolds` | `Spec => []SpoolAccounted` of `Spool` |
| `OutboxImplementsIncidents` | `OutboxSpec => ImplementsIncidents`: `Outbox` refines `Incidents` |
| `OutboxInvariant`, `ServerOrder`, `NothingUnsentSettled`, `IncidentNeverRolledBack` | `OutboxSpec => []P` for `OutboxInv`, `ProcessedInOrder`, `DeliveredWasProcessed`, `ShowsLatest` |
| `CollectorInvariant`, `InventoryIsTheCluster`, `MarkersSpareTheListed` | `SendErrors = FALSE` and `Spec` give `[]CollectorInv`, `[]CaughtUpIsExact`, `ListedSurvivesMarker` |
| `CollectorImplementsInventory` | `Spec => ImplementsInventory`: the rows of `Collector` refine `Inventory`, whether or not `Send` reports errors |
| `DiscoveryInvariant`, `UpdatesAreNeverLost` | `Spec => []P` for `DiscoveryInv`, `QuietMeansCurrent` |
| `RevocationsAreJustified` | `Spec => RevocationHasCause` |
| `FederationInvariant`, `SingleProbe`, `MarkedAnswersAreHonest` | `FederationSpec => []P` for `FederationInv`, `OneRecoveryProbe`, `MarkedNeverLiveAgain` |
| `AnswersAreHonest` | `Unmarked = {}` and `FederationSpec` give `[]NeverLiveAgain` |
| `ProcessInvariant`, `UpdatesAreNotLost` | `ProcessSpec => []ProcessInv`, `ProcessSpec => NoLostUpdate` |
| `OthersKeepTheirToken` | `TokenSpec => OnlyRefusedIsDropped` |
| `ExistingNeverGone`, `RepliesNoFresher`, `SelectorStateIsComplete` | `LookupSpec => []P` for `NeverReportedGone`, `FreshnessIsWorst`, `SelectorCountsAll` |
| `PagesAreExact` | `ListingSpec => []SteadyRowsOnce` |
| `StreamInvariant`, `ChangesArriveOnce` | `StreamSpec => []P` for `StreamInv`, `EachChangeOnce` |
| `ChangesAreComplete` | at most one writer and `StreamSpec` give `[]NoChangeSkipped` |

Assumptions are those of the modules: event ids are numbers from a finite set,
a batch is not empty and carries one shard (`IngestBatch.Validate`), block, page
and row limits at least 1, sentinels are not values, sizes are positive, the
rows of a list and the ids, remotes, shards and requests are finite sets. They
are evaluated by TLC in every run. Nothing bounds the numbers of events, shards,
clients, workers, resources, senders, batches, notifiers, replicas, readers or
streams.

Four theorems have a hypothesis beyond that, and each one is needed: for the
opposite case a run or an observation of section 4 has a counterexample.
`SendErrors = FALSE` (no error from `Send` while its context is live) is refuted
otherwise by `collector_loss`, "at most one writer" by `stream_gap`,
`Unmarked = {}` by `selector_freshness`, `~ClockSteps` by a clock that steps
back. Together theorem and counterexample say exactly where the promise ends;
`MarkedAnswersAreHonest` holds without the hypothesis, for the requests whose
handlers set the header.

**Inbox.** `HeadIsEarliest` is not inductive: an open transaction has already
chosen the head it will write. `Inv` adds, for each open transaction, that the
choice is still right: a staged client or worker holds the head's lock and its
`next` is the first of the rows that will be unapplied after its commit
(`ClientInv`, `WorkerInv`). This is stable because only the lock's holder adds
to or removes from the committed unapplied rows of the shard (frame lemmas
`ClientFrame`, `WorkerFrame`, `ShardFrame`), and the rows open transactions
inserted are disjoint (`DisjointRows`). `Handled` carries each event of an
open batch to the acknowledgement; `RowInv` says that a row that backs off has
failed, which together with the order of `Block` gives the action property.
Counting rests on the library's cardinality theorems.

**Refinement.** `InboxRefinement` shows that the initial states map to the
empty queue, that `CommitEnqueue` is a `Put` (or invisible, for an empty set of
rows) and `CommitApply` a `Take` (or invisible, when it only backs a row off
again), and that every other step leaves the mapped variables alone. Places and
order follow from `Inv`; what is missing is the size of a block (`BlockSizes`):
`LIMIT n` returns at most n rows, because the number of predecessors maps them
injectively into `0..n-1`, and the row that ends a block is unique.

**Inventory.** The two state properties become inductive with one more fact,
`WatermarkIsCutoff`: the stored watermark is the latest reconciliation ever
applied, because retention never drops a shard row that has one. Apart from
that each action is a case analysis on the row it writes. The action properties
share the lemma `RowWrites`: a step that keeps a row changes it in one of three
ways, by an accepted upsert or delete (`AppliedRow`), by a marker (`RemovedRow`)
or by resolving it (`RecoveredRow`).

**Spool.** Order needs to know where each unarrived batch is: for each
watcher, its files are older than the batch it is sending (`FilesBehind`),
every batch has arrived, was given up, has a file or is in hand (`Accounted`),
files are sorted per sender (`Sorted`), while a watcher is at its direct post
it has no file left (`NoFileWhilePosting`), and whatever has arrived or may
still arrive late has nothing outstanding before it (`Ordered`). The heart is
`NoFileWhilePosting`: `replay` returned without error under the mutex, and only
the watcher itself spools its batches, although the mutex has been
released.

The capacity needs one fact more than `SpoolAccounted`: a batch that fitted when
its temporary file was begun still fits at the rename (`WritersFit`), because
the writer holds the mutex and nobody else touches the counter. The rest is
about the sum over the files, a recursive function of their number. What it
computes after an insertion at any place (`Displaced`, `UsageInserted`) or a
removal at the front (`UsageTail`) is an induction, and it is reached without an
induction theorem that takes an operator: from the library's `WFMin`, which takes
a set, follows that a nonempty set of numbers has a least one (`LeastNumber`),
and the lemmas ask it for the first number at which they would fail.

**Outbox.** A claim is checked once and used for as long as its holder likes,
so the order at the server cannot rest on claims. What is stable is `WorkIsDue`:
whoever works on an entry, and every copy of its request on the way, came
after the server had all earlier entries of the resource, because a claim waits
for them to be delivered, and delivered was processed. Then a late copy can
only be of an entry the server already knows. `QueuedInOrder` keeps a row from
appearing before its predecessors, `AnsweredWasProcessed` carries the answer to
the update that marks the row.

The refinement of `Incidents` adds `IncidentInv`: only rows that exist are worked
on or asked for, and an incident is past processed entries only
(`ShowsProcessed`). A request of an unprocessed entry then finds all earlier
entries of the resource processed, and none that is later, so that showing it
is the `Show` of exactly the next one (`FirstProcessing`); for all others the
server does nothing.

**Collector.** A message under way is a claim about an object, and what counts
is its observation time, not the order of arrival: batches of former holders
may arrive after those of their successors. Lanes are the replicas' channels
and the unsent batch. For each object the claims under way and the row are one
of three: `Unlisted` (nothing since the snapshot began), `Exists` (the latest
claim has the given version), `Gone` (each claim that it exists is older than
the marker or followed by its deletion). A delivery keeps all three, because a
row is replaced, tombstoned or left alone by time (`Turns`). Before the marker
the listed objects exist at the list's version and all others are unlisted
(`Snapshot`); the marker turns "unlisted" into "gone" (`Watching`, `Follows`),
and each watched change moves one object. Two facts make this work. The inbox
drops an id it knows, so every id must be new: a watch event carries the
version it was received at, a snapshot event the start of its snapshot
(`IdsAreFresh`; with plain version ids the proof fails, and so it does when the
watch starts anywhere but at the list's version). And a marker must not
overtake its pages: it is in the same lane, behind them (`MarkersFollow`). When
the watch has caught up and the lanes are empty, `Follows` says that the
inventory is the cluster.

`Collector` has its own short rule for what a message does to a row. That it is the
rule of `Inventory` is shown by instantiating that module with one shard of
healthy objects that are no Events. A marker accepted is its `Reconcile`, an
upsert or delete that is not known its `Apply`; everything else leaves rows and
watermark alone. Observations of `Inventory` are bounded by times, so the proof
carries that every message bears a time the clock has shown (`StampInv`). The
change log, which `Collector` does not have, is hidden: no step of `Inventory`
reads it, so it is enough that each step has some value for it. The proof uses
none of `Inventory`'s assumptions about its constants.

**Discovery.** `TargetsAreOrderly` states what a target's goroutine may rely on:
whenever its watches, or the snapshot it works from, differ from the stored
namespaces, a signal waits or the refresh in progress is about to give it. That
is stable because `state.update` stores before it signals and `watchNamespaces`
takes the signal before it reads. For revocations `ReviewIsReasoned` carries the
reason of each omission of a complete answer to the critical section (an
incomplete one takes nothing away, `preserveExistingNamespaces`), and
`StopsAreJustified` from there to the goroutine that stops the watch.

**Federation.** Two calls for one target with `probing` set are excluded by
`ProbesAreMarked`: a probe in flight has set the target's flag, and is the only
one of it. For freshness the claim has to be made of all places an answer passes,
the cache, the pending call and the reader's hands (`MarkedNeverLiveAgain`).

**ChangeStream.** What a client received ascends and, while it is connected,
ends at or before its cursor (`StreamsAscend`); a page is ascending and starts
after the cursor, and a reconnect starts from the last id received. For
completeness with one writer, numbers not yet visible are larger than
everything visible and everything any stream has come to (`NewNumbersAreLarge`).

**Listing.** The cursor divides the rows that have matched since the first page:
those up to it were received once, the others not at all (`CursorDivides`).
`LIMIT n` leaves out only rows that come after all it returns, in an order
that is total because sort ids are unique (`SortIdsAreUnique`).

**ResourceLookup, BusinessProcess, TokenSource.** A reply is computed in one
step, so these proofs are about the operators: what a server's own rows, a
remote's result and their merger contain and how fresh they are (`ResultOK`,
`ReplyOf`, `GraphReplyOK`), for batch-get asked of remotes that run the same
handler, and for owners that are followed across servers. A lost update is
excluded because within one creation a generation names one write
(`GenerationsNameWrites`). A request that waits to invalidate a token holds the
one it was refused with (`TokenInv`).

TLC finds the inductive invariants of `Outbox`, `Collector`, `Discovery` and the
API modules true on the instances of the runs as well.

**Only model-checked.** The seven liveness properties (`EventuallyApplied`,
`EventuallyDelivered`, `ProblemsOfEventsEnd`, `EventuallyArrives`,
`PermittedIsWatched`, `ResyncRelists`, `Recovers`), because fairness and ENABLED
are beyond the prover. Every other property of the passing runs has a theorem.

## 6. Plan

Done: all modules of section 2, model-checked; proofs of every safety property of
the passing runs; the refinements of `Inbox`, `Outbox` and the rows of
`Collector`. Left, in this order:

1. `Inventory` with `applyResource` split into its read and its upsert, for
   two shards that insert one resource at once.
2. Leases with paused holders under `Collector`, replacing its assumption.

## 7. Not modelled

* **Normalisation and adapters**: pure projections of Kubernetes objects; the
  models take their results (`Projections`) as inputs.
* **Live gateway, resource metrics**: pass-through reads of Kubernetes and
  Prometheus; they keep no state.
* **Lease election**: client-go's elector. `Discovery` lets leases come and go,
  `Collector` assumes that they are exclusive.
* **The remaining endpoints**: authentication, parsing, request slots, status
  and statistics; the evaluation of a business process.
* **Configuration, telemetry, operational counters**: parsing and exporting.
* **Migrations**: one-time DDL; the tables are the models' variables.
* **Entry points and load generator**: process start-up and a test client.
* **Owner references, annotations, conditions** of a row: written and deleted
  with it in the same transaction.
* **PostgreSQL itself**: the models use READ COMMITTED visibility, row locks,
  `ON CONFLICT` waiting and `SKIP LOCKED` as documented; deadlock victims are
  aborts.
* **Two concurrent first inserts of one resource**: `Inventory` takes the
  application of one event as atomic; see the plan.

## 8. Running

```
tlc -workers 2 -config MCQueues.cfg MCQueues   # any run of PROJECT.json
tlapm InboxProofs.tla                          # or another module with proofs
```

Modules with proofs: `InboxProofs`, `InboxRefinement`, `InventoryProofs`,
`OutboxProofs`, `SpoolProofs`, `CollectorProofs`, `DiscoveryProofs`,
`ApiProofs`. None takes longer than a few minutes.
