# View server: specifications, model checking and proofs

TLA+ models of the view server's core, the TLC runs that check them on small
instances, and theorems that TLAPS proves for every instance. Paths below are
relative to `src/packages/`; "engine" is `column-live-view-engine/src/`.

The system keeps topics of rows in memory. Sources (Kafka, gRPC feeds, TCP
commands, the in-process client) publish, patch and delete rows. Clients
subscribe to queries; each subscription receives a snapshot and then deltas, and
its client rebuilds the result from them. All of it runs as fibers of one
JavaScript thread, scheduled by Effect: the hard part is what happens between two
suspension points of one fiber, and how much work incremental evaluation may
save without ever showing a wrong result.

## 1. Inventory

### Column live view engine (the core)

| Part | State | Operations | Hard behaviour | What makes it correct |
|---|---|---|---|---|
| Topic store: `topic-store-*.ts`, `live-subscription.ts`, `subscription-handoff.ts` | rows, version, two semaphores (mutation, notification), registered subscribers, one bounded event queue each | publish, publishMany, patch, delete, subscribe, close, reset, engine close | commit and notification are two critical sections; slow readers are evicted from within one; two lock orders; interruption at every wait | permits never leak; every call returns; deltas are gapless and truthful; a closed reader is told and never left waiting; leases balance |
| Engine: `engine.ts` | stores by topic, closed flag, engine version | routing of the above, snapshot, health | a call that passed the open check before close; reset of many stores one by one | nothing is registered in a closed engine |
| Health ledger: `topic-health-ledger.ts` | pending batches, rates, queue depths | begin/end of a batch, counters | reset while batches are in flight | counts what is in flight |
| Active queries: `active-query.ts`, `active-raw-query.ts`, `active-materialized-query.ts` | shared executions by query, leases by window, retained window | acquire, release, latest | the window is updated from changes, from a base evaluated earlier, while leases come and go | what is shown is what a full evaluation shows |
| Change journal: `topic-row-change-journal.ts` | batches of changes, pending changes, limits, references | record, commit, retain, release, clear, changesSince | overflow inside a mutation, trimming, references going to 0 and back | an offered replay has no gap |
| Query results: `query-result.ts` | none | row operations of a delta, in three ways | index arithmetic over moving rows | replaying gives the new result, and sends only what is new |
| Row storage and indexes: `topic-row-storage.ts`, `topic-column-vector.ts`, `topic-*-window*.ts`, `topic-*-index.ts` | slots, columns, ordered and predicate indexes | set, delete, scan | index maintenance | a scan with an index equals one without |
| Raw and grouped query compilation, grouped evaluation: `raw-*.ts`, `grouped-*.ts` | aggregates per group | compile, evaluate, update | incremental aggregates, admission of incremental execution | equal to recomputation |

### Around the engine

| Part | State | Hard behaviour |
|---|---|---|
| Client state: `client/src/live-query-state.ts` | rows, keys, version, status | replay by index, refusal of deltas that do not fit |
| Remote client: `client/src/remote-*.ts` | event queue, lifecycle flags, counts of subscriptions | overflow ends a stream that its producer's exit ends too; three ways to close |
| Runtime core: `runtime-core/src/health.ts`, `runtime-client.ts` | shared health read, epochs, refresh scheduler | a read that is older than a mutation must not be installed after it; no refresh is lost |
| gRPC lease manager: `runtime/src/grpc-lease-manager.ts` | feeds by route, subscriber counts, row cleanup | feed exit races with subscribing and releasing; failed cleanup |
| gRPC ingress: `runtime/src/grpc-ingress.ts`, `grpc-health.ts` | feed fibers, retry budget, statuses | what counts as a run that proved itself; close while a feed sleeps or releases |
| Kafka ingress: `runtime/src/kafka-ingress.ts` | batch, offsets | publish before commit, partial batches, flush deadline, crash and restart |
| Kafka health: `runtime/src/kafka-health.ts` | status of regions and topics, errors by topic and region | a stream that commits and fails while listeners report joins, rebalances and lag |
| TCP publish ingress: `runtime/src/tcp-publish-ingress.ts` | per socket queue, counters, deadline | closed sockets with queued commands |
| Server: `server/src/rpc-handlers.ts` | coalesced health read | completion racing with shutdown |
| Runtime assembly: `runtime/src/internal.ts` | the parts that were started | a start that fails half way; concurrent closes |
| Protocol, config, React, in-memory, effect-utils | schemas, types, composition | none of their own |

Interactions: ingresses call the runtime core client, which calls the engine; a
mutation of the engine calls every captured subscriber, which calls the shared
execution of its query, which reads the journal and the storage; events go
through a queue to a stream, over RPC to the remote client, into the client
state. The lease manager opens and closes feeds around engine subscriptions.

`PROJECT.json` lists every part with its files and every hazard with its line.

## 2. Modules

| Module | Models | Role |
|---|---|---|
| `TopicStore`, `MCTopicStore` | topic store, leases, delivery, client status handling | state machine, properties, inductive invariant; instances |
| `TopicStoreProofs` | | the inductive invariant and what follows from it, the ends of streams, the health ledger, and that deltas are gapless and truthful |
| `RowChangeJournal` | the change journal | operators on journal records |
| `RowChangeJournalProofs` | | lemmas about the journal's methods, for changes of any kind, which the next two proofs share |
| `RetainedWindow`, `MCRetainedWindow` | raw query execution over the journal | state machine and properties; instances |
| `RetainedWindowProofs` | | proof that the journal offers no replay with a gap, that the retained window is the head of the full result, and that leases show the right rows |
| `GroupedExecution`, `MCGroupedExecution` | grouped query execution over the journal | state machine and properties; instance |
| `GroupedExecutionProofs` | | proof that groups and results are those of the rows, and about references to the journal |
| `Listing` | what is in a set, or at some indices, as a list in its order; `DeltaOperations` and `RawWindowScan` extend it | operators |
| `DeltaOperations` | row operations of a delta and their replay | server cursor and client, properties |
| `DeltaOperationsProofs` | | proof that deltas replay and send nothing twice; lists, folds and windows, on which the next proofs rest |
| `RowStorage` | slots, columns, ordered indexes, buckets | state and mutations |
| `RawWindowScan` | every way a scan reads a window (`EXTENDS RowStorage`) | operators and properties |
| `QueryPredicates` | what clauses accept as functions and as plans, the order of values | operators, a state machine of stored values, properties |
| `QueryDataProofs` | | proofs that indexes match rows, whatever is stored and scanned, that scans answer as filtering and sorting all rows would, and that plans decide what clauses ask |
| `MCQueryData` | `DeltaOperations`, `RawWindowScan` and `QueryPredicates` side by side | instances |
| `GrpcLease`, `MCGrpcLease` | the lease manager of gRPC feeds | state machine and properties; instance |
| `GrpcLeaseProofs` | | proofs that leases are counted and cleaned up |
| `IngestedLog` | what Kafka ingestion promises | abstract specification |
| `KafkaIngress`, `MCKafkaIngress` | the Kafka ingress of a region, which implements `IngestedLog` | state machine, refinement; instance |
| `RuntimeHealth`, `HealthWatch` | health reads and refreshes, subscriptions to them | state machines and properties |
| `TcpPublishIngress` | sockets, commands, limits, close | state machine and properties |
| `KafkaHealth` | the Kafka health ledger under streams and listeners | state machine and property |
| `MaterializedFeed` | materialized gRPC feeds and the statuses they report | state machine and property |
| `RemoteSubscription` | live subscriptions of the remote client | state machine and property |
| `SharedHealthRead` | the server's shared health read | state machine and property |
| `RuntimeAssembly` | start and close of a runtime's parts | state machine and property |
| `RuntimeEdgesProofs` | | proofs about the eight modules above and `KafkaIngress`, each with its inductive invariant: among them the refinement of `IngestedLog` |
| `MCRuntimeEdges` | the eight modules above, side by side | instance |

Definitions introduced by a comment `MUTANT of X` are wrong versions of X. They
are not part of any specification; each shows that some property notices the
mistake.

`MCQueryData` and `MCRuntimeEdges` choose in the initial state which of their
components a behaviour is about; the others stand still. Only `HealthWatch`
composes with what it watches, `RuntimeHealth`: both run together.

### TopicStore

A fiber is a member of `Mutators`, `Subscribers` or `Admins`, and `pc` says
between which two suspension points it stands. An action is what runs from one
suspension point to the next.

| Actions | Code (engine) |
|---|---|
| `BeginMutation`, `EnterMutation`, `WriteRows`, `CommitRows`, `ChangeNothing`, `FailMutation`, `InterruptMutation` | `engine.ts` 106-171, `topic-store-mutation.ts` 35-132, 151-239: the batch is counted, the mutation permit taken, rows written, the version advanced and the subscribers of that moment captured |
| `EnterNotification`, `SkipClosed`, `NotifyUnchanged`, `NotifyDelta`, `NotifyDropped`, `EndMutation` | `topic-store-mutation.ts` 41-63, 134-172 and `live-subscription.ts` 80-107: each captured subscriber's cursor moves to the latest result and its delta is offered |
| `EvictSubscriber`, `SendBackpressure` | `topic-store-subscription.ts` 92-107, `live-subscription.ts` 33-78: a full queue closes its subscription, under the mutation permit as well, then the queue is cleared, told and ended |
| `BeginSubscribe`, `InterruptSubscribe`, `EnterSubscribe`, `AdmitSubscriber`, `RejectSubscribe`, `RegisterSubscriber`, `OfferSnapshot` | `engine.ts` 240-270, `topic-store-subscription.ts` 19-39, `live-subscription.ts` 109-151: the closed flag is read before the wait for the mutation permit and again under it; the flag may still go up between that and the registration |
| `TakeEvent` with `Apply` | the consumer of the event stream, and `client/src/live-query-state.ts` 157-220 |
| `BeginClose`, `InterruptClose`, `CloseTakesNotification`, `CloseTakesMutation`, `FinishClose` | `live-subscription.ts` 153-167, `topic-store-subscription.ts` 73-90: both permits, notification first |
| `BeginReset`, `BeginEngineClose`, `AdminTakesNotification`, `DrainSubscribers`, `CloseWithStatus`, `EndTransition` | `engine.ts` 343-371, `topic-store-lifecycle.ts` 31-86 |

Data is abstract: the store holds a member of `Contents`, and `View[q][c]` is what
query `q` shows of `c`. A delta carries the result it starts from and the result
it leads to; `Apply` refuses it on any other result or version. `log` is a
history variable: what each version committed.

Two constants choose what the environment may do.
- `Interruptible`: a mutating fiber is interrupted while it waits for a permit, and
  an owner while its close waits for the first one (its subscription stays open).
  The engine's interface permits that. For mutations, the runtime core wraps publishing in
  `Effect.uninterruptible` (`runtime-core/src/runtime-client.ts` 137), so it
  happens only to those who use the engine directly. A fiber interrupted between
  commit and notification tells nobody; its subscribers stay behind until the
  next commit. `Converges` is therefore checked with `Interruptible = FALSE`, and
  every safety property with `TRUE`.
- `YieldBeforeCommit`: writing rows and advancing the version are two steps of one
  fiber with no wait between them, but Effect's scheduler switches fibers after a
  budget of operations, between any two steps. With `FALSE` no fiber evaluates a
  query between the two (`Readable`); with `TRUE` it may. `Latest` evaluates from
  the rows at once; the retained window, which may lag behind them, is in
  `RetainedWindow`.

### RowChangeJournal and RetainedWindow

`RowChangeJournal` has the journal as a record and each method as an operator
on it. `RetainedWindow` is one execution of a raw query: keys are numbers
(ties are broken by key), a row is the number the query orders by, and `Matching`
rows are those that it selects. `evaluation` is the retained window with its
version, total and filled flag, `windows` counts the leases by window, and `base`
is the limit that covers them all. `Refresh` is `latest()`: a new evaluation if
the base window changed, else `Updated` (the incremental update) where that gives
a result, else a new evaluation (`Latest`). The update folds `ApplyChange` over
`ChangesSince` (`Changed`): a state of the fold has the total, the retained entries with
the rows replaced among them, the keys removed from them and the rows that entered. `Suffices` has
the conditions under which the code keeps what came of it; then `Kept` is what stays of the
retained entries, sorted again if a row was replaced, and `Refilled` adds the rows that
entered, cut to what `SafeLimit` says can be trusted after removals. Sorting (`Sorted`)
takes the order as a parameter and is said by ranks: storage's order where both rows are
stored, else the entries' (`Ordered`). `past` and `seen` are history: the rows of the versions the journal may
reach back to, and those of the version the evaluation carries.

Acquiring and releasing happen under the mutation semaphore (guard `writing = 0`),
a notification does not: with `YieldBeforeCommit` it runs in the middle of a
mutation. `RetainElsewhere` and `ReleaseElsewhere` stand for executions of other
queries, which share the journal.

### DeltaOperations

`Operations(prev, next)` is `deltaOperations`: `SingleMove`, then `Replacement`
(threshold `MinReplacement`), then `General`, which drops what is gone key by key (`Drop`), places
entry after entry (`PlaceEntry`), both folds, and maintains a map from keys to indices
(`Reindex`). `InOrder` (of `Listing`) lists indices in their order, so that the operations of some entries
(`Removals`, `Insertions`, `Updates`) are functions of such a list. `ApplyOperation` and
`ApplyDelta` are the client, with its own such map and every check that makes it
refuse an operation. A subscription starts with a snapshot of any result (`Init`)
and each `Notify` leads to any other.

### RowStorage and RawWindowScan

`storage` is one record: slots with key and row, a column per field, the slot of
each key, ordered indexes and buckets that earlier scans have built. `Publish`,
`Patch`, `PublishMany`, `Delete` and `Clear` are the mutations with their index
maintenance: a deleted row's slot is filled with the last row (`FillHole`), whose
old slot every index has to forget. `Query(p)` is `scanRawWindow`: an ordered index if the plan
allows one (`ScanIndex`), else the candidates of the best predicate index, which is looked for filter
by filter and may build buckets (`Considered`, a fold over `Consider`), else
all slots; the window is kept sorted (`SortedWindow`), in a heap (`HeapWindow` with `SiftUp` and `SiftDown`), or sorted at
the end (`Sorted`). A list of slots in an order is said by ranks (`Ordered` of `Listing`): at index i stands the
slot that i - 1 others are before. Values are positions in the order of `compareQueryValue`, missing and
non-finite values included. That this is a linear order is assumed here; `QueryPredicates`
shows it for rows without a negative zero, and finding 4 is about the others.
`neq` stands for the filters no index serves, of which `startsWith` is another.

### QueryPredicates

One field and one clause of a query's `where` (`asked`), and the values that rows hold in
the field (`cells`, `PutCell`). A field is the set of kinds that its schema unites, from
which follow its column and the operators it supports. `Matches` is the compiled function
of a row; `Planned` says which operators become filters of the plan, and
`CallbackSkippable` that they say all of the clause, so that rows are not looked at.
`Selects` is what the storage does with the plan on its columns, leniently where the row is
looked at afterwards and exactly where it is not. `CompareQuery` is the order of values and
`CompareColumn` the shortcut of typed columns. A stored object that is itself a clause of
operators is left out: there the function also accepts the object that equals the clause,
which an exact plan does not ask for.

### GroupedExecution

One execution of a grouped query in `mode` "none", "incremental" or
"fallback". `groups` has members, a running count and total, and how often each value
occurs; a minimum whose last copy goes is marked outdated and recomputed at the
end of the batch (`Outdated`, `Finalized`). `Refresh` is `latest()`: a replay of the
journal's batches (`CatchUp`), in place if no change touched the order, else a new order; a
rebuild if the journal has a gap (`Rebuild`); or the fall back to plain evaluation
beyond the admission limits (`FallBack`), which gives the journal reference back. `avg` and `max` are kept
as `sum` and `min` are. A mutation and its evaluation are not interleaved here:
what a torn read does to an execution is shown with `RetainedWindow`.

### GrpcLease

Subscribers of a route share a lease: `leases` maps routes to the current one,
`lease` has every lease created. One permit is held across the start of a feed
(`StartLease` to `ForkFeed`/`FailStart`) and across its degradation; `Register`,
closing scopes and deleting rows are outside it. The feed fiber publishes, ends,
waits for the permit and degrades its lease (`DegradeTells`), unless the lease is
being closed, which in turn waits for the fiber. Sections without a suspension are
one action.

### KafkaIngress and IngestedLog

The producer fiber reads partitions into the bounded queue; the ingress fiber
takes a batch (`FlushDeadline` or its size ends it), decodes up to the first bad
message, publishes topic by topic, commits offset by offset, and then fails if
there is a cause. `Stop`, a crash or a close, may come between any two steps; the rows
live in memory, so `Restart` has none and resumes at the committed offset or at the
beginning, as configured. `AtLeastOnce` is `IngestedLog`'s specification under `applied <- Applied(p)`,
the prefix of the log published since the start: rows are applied in log order,
and an offset is committed only after everything before it.

### RuntimeHealth and HealthWatch

The engine is the number of commits, `health` the number last installed. A read
records its epochs when it starts and is installed only if `ShouldInstall`; callers
of one epoch share it. The scheduler's run clears `pending`, sleeps, reads and
decides to go on or end. A watcher listens to the atom, reads once, and forwards
the newest value through a one-place slot to its bounded queue.

### TcpPublishIngress

Per socket a chain of commands, of which the first is somewhere between
authorisation and its answer; both counters, the deadline of an idle socket, the
sets the server keeps. Node runs handlers to completion, so a handler of a socket
event, and what a command does between two awaits, are one action each.

### KafkaHealth, MaterializedFeed, RemoteSubscription, SharedHealthRead, RuntimeAssembly

- `KafkaHealth`: the ledger as a record, each method of `kafka-health.ts` an operator on it
  (`RegionDisconnected`, `MessageDecoded`, ...). A region's stream commits and fails
  messages; its listener reports at any time until the stream has failed.
- `MaterializedFeed`: a feed's fiber acquires, runs, releases, then reconnects or gives
  up (`Settle`); `unstable` counts against the budget, `flags` say what the run has
  achieved. A failed release, a defect, an interruption and the ingress's close are
  ways for a run to end.
- `RemoteSubscription`: the producer's queue is dropping; an overflow clears it, offers the
  status, ends it and interrupts the producer, whose exit ends it again. Closing the
  subscription, the client or the stream closes one scope.
- `SharedHealthRead`: a request follows the active read or forks one; completing frees the
  slot; the scope's finalizer answers the waiters and interrupts the fiber.
- `RuntimeAssembly`: `CloseAfterFailed(p)` and `CloseOrder` are the lists of finalizers as
  they are written in the code; `Closers` run the latter, several at once.

## 3. Runs

| Run | Asks | Bounds, and why they are enough |
|---|---|---|
| `store_transitions` | all safety of the store, mutations interruptible | 2 mutating fibers, 2 subscriptions of one query, 1 admin; 2 calls, 1 reset, a queue of 1 event. Two mutations overlap as commit and notification; a queue of one overflows on the second delta, so eviction meets closing, reset and engine close; two subscriptions share an execution. |
| `store_liveness` | calls return, clients learn of closure (also those who subscribe while the engine closes), open subscriptions converge | the same with 1 subscription, no reset, no interruption |
| `store_torn_read` | does a client always hold a committed result, if the scheduler may switch between write and commit? It does not: finding 1 | 1 subscription, 2 calls |
| `retained_window` | is the retained window always the head of the full result, with its total; do windows show the right rows; does the journal ever offer a replay with a gap? | 2 leases; each behaviour has one of two profiles, each of which would be too large with the other's bounds. *Windows*: 3 keys with 2 selected rows, windows (0,1) and (1,1); a load of up to 3 rows, then 3 changes, each a version, of which the journal keeps two. The retained window is smaller than, equal to or larger than the result; several versions are caught up at once, so that a key leaves and re-enters in one update; `SafeLimit` cuts the window and it is updated again afterwards. *Journal*: 2 keys with one selected row and one that is not, limits of 3 changes and 2 versions, mutations of up to 4 rows, 3 versions, another execution: overflow within a mutation, overflow by count, trimming by version, references going to 0 and back, reset; windows of limit 0 and without limit |
| `retained_window_torn` | is a result right once all has settled, if the scheduler may switch between write and commit? It is not: finding 2 | 2 keys, 2 versions |
| `query_data` | does replaying a delta give the new result; is a scan with indexes one without; do plans decide what clauses ask? | deltas: all pairs of results of at most 4 rows of 4 keys with 2 values each, and one hidden row: every permutation, replacement and mixture, with the fast path from 3 changed keys on. Scans: 4 keys, 3 rows, two fields with a missing and a non-finite value, 3 batches, 10 plans that between them use both kinds of indexes, ranges with and without members, several filters, offset and limits 0 to 3 and none; every sequence of mutations and scans. The code's thresholds are scaled: windows of 1 are kept sorted, up to 3 in a heap, a bucket holds 2 slots. Predicates: fields of 11 types, 19 values of 8 kinds, every single operator with every operand (`in` with up to two) and four pairs of operators; every value in one row, and three rows where they are only sorted. |
| `query_order` | do all rows of a number field have one order? They do not: finding 4 | 3 rows, all values of the kind |
| `grpc_lease` | counts, cleanup, informed subscribers, calls that return | 2 subscribers of one route and 2 successive leases, 1 row: a second subscriber joins, arrives between release and cleanup, or finds a lease that cannot be cleaned up; feeds fail to start, fail, complete or are closed; the manager closes. Routes share nothing but the permit. |
| `grpc_late_subscriber` | is every subscriber of a dead feed told? It is not: finding 3 | the same |
| `kafka_ingress` | nothing lost, nothing committed early, everything before a failure flushed, no batch that waits for ever | 3 partitions of 2 topics, 5 messages of which one cannot be decoded, batches of 3, a queue of 2, 1 crash: a batch mixes topics, fails between two of them, and the queue is full with the terminal event still to come |
| `grouped_execution` | is a grouped result always that of the rows, are groups and journal references exact? | 3 keys, 4 rows in 2 groups of which 3 are selected, 4 queries with limits 0, 1, 2 and none; a load of up to 3 rows, then two mutations, 2 leases, another execution; the limits of 2 groups, 3 members and 6 values are reached, that of 2 members per group is reached and exceeded; that any of them is exceeded is covered by the theorems, which hold for all limits |
| `runtime_edges` | the modules around the engine | see below |

`runtime_edges` has a part for each module. *Health*: 2 readers, 2 runs of the scheduler and one
mutation. *Watch*: 1 watcher, 2 mutations, a queue of one value. *TCP*: 3 connections of which 2 are
accepted, chunks of up to 2 lines, 2 commands per socket and 3 in all: every limit is
reached. *Kafka*: 3 sources, a topic in 2 regions and another in one of them, without
any other bound. *Feeds*: 2 feeds with a budget of one retry. *Remote*: 2 subscriptions of up to 2 events
over a queue of one. *Read*: 3 requests, 2 reads. *Assembly*: every choice of parts, 2 closers.

Bounds that only cut the state space: `MaxCalls`, `MaxResets` (store);
`MaxLoad`, `MaxBatch`, `MaxLeases`, `MaxOthers`, `MaxVersion` (window, groups); `MaxWindow`,
`MaxHidden` (deltas); `MaxLeases` (gRPC); `MaxRestarts` (Kafka); `MaxCommits`, `MaxEpoch`, `Tokens`
(health); `MaxLines` (TCP); `MaxEvents` (remote); `MaxSharedReads` (server). `MaxReconnects`, `BufferSize`,
`QueueSize`, `BatchSize`, `QueueCapacity` and the limits are options or constants of the code.
Runs whose systems stop (calls used up, ingress stopped, runtime closed) do not check deadlock as
TLC defines it; that no call hangs is a liveness property there. The others check deadlock.

### Fairness

- `TopicStore` (`FairSpec`): a runnable fiber is run and a semaphore serves its waiters
  in turn, hence strong fairness for steps that may have to wait for a permit that
  others take again and again; readers read and the finalizer of a finished stream
  runs, hence weak fairness for `TakeEvent` and for closing after the end. Nothing
  obliges anyone to call, to publish or to close an open subscription.
- `GrpcLease`: weak fairness of each subscriber's steps once it has called, of a lease's feed
  fiber and of what the manager does for a lease; nobody has to subscribe or leave, no
  feed has to end.
- `KafkaIngress`: weak fairness of the ingress fiber, its flush deadline included. The broker
  owes no message, and no crash has to happen.
- `RuntimeHealth`: weak fairness of a mutation that has committed, of a fiber that reads and of
  the scheduler's runs, whose sleep ends.
- No other part has a liveness property.

### Findings

1. `store_torn_read`: a notification of an earlier commit holds the notification
   semaphore only. If the scheduler switches fibers between the write and the
   commit of the next mutation, it evaluates rows of no version and sends them
   under the previous one. `plans/v2-column-live-view-engine-plan.md` 879 asks that
   a client "must converge exactly to a fresh snapshot at `toVersion`".
2. `retained_window_torn`: if such an evaluation is a full one, it becomes the base
   of the next incremental update, which applies the mutation's changes a second
   time. Rows appear twice and totals are wrong after everything has settled.
3. `grpc_late_subscriber`: a subscriber acquires its lease under the manager's permit and
   registers its subscription outside it, without looking again. A feed that ends in
   between closes and informs the registered subscriptions only: the late one stays
   open and silent, although the test at `runtime/src/index.test.ts` 9413 expects
   subscribers to be informed.

4. `query_order`: finite numbers are compared as numbers, so that 0 and -0 tie and the key
   decides; a number that is not finite is compared by its stable string, in which -0 comes
   before -Infinity and -Infinity before 0. Three such rows precede each other in a circle,
   and what a sort or a bisection makes of them depends on their history, although
   `docs/query-semantics.md` 76 says that rows are ordered deterministically. Without
   negative zeros the order is linear (`StorageDecidesAsQueries`).

The first two need the scheduler's budget to end exactly there (2048 operations by
default), which no test provokes; one cause, two consequences.

Observations, which no run states as a property: a Kafka stream that ends normally
leaves its region "connected" in the health; a materialized feed whose run stays open
for the reconnect delay and then *completes* does not get its budget back, which the
test at `runtime/src/index.test.ts` 9956 pins and `plans/grpc.md` 104 words otherwise;
subscribing with a closed remote client closes the lifecycle before it is opened, so
that its health may count one subscription too many from then on; and a fiber that
makes a runtime and is interrupted between two parts, where it does not wait, would
close nothing (the launch layer makes it uninterruptible).

### Assumptions of the models

- A step is what runs between two suspension points; only the runs about torn reads let
  the scheduler switch elsewhere. In particular a failed Kafka stream records its
  failure and closes its listeners in one step, and a mutation is atomic for a grouped execution.
- A `Queue.take` cancelled by a timeout takes nothing (Effect), which the flush deadline relies on.
- `BeginClose` stands for the owner's close, for that of the fiber that subscribed and for the
  finalizer's. Two of them at once are left out: the second waits for the permits and then finds the
  subscription closed.
- A query that cannot be prepared or leased leaves the store as a refused one does (`RejectSubscribe`).
- `SpansOf` always has spans, where the code falls back to all rows for values it cannot look up: what
  is found is filtered again in either case. Arrays are not among the values of `QueryPredicates`; a
  field there may mix numbers and bigints, which the configuration refuses.
- `CloseCore` follows the runtime's own close. The live client that the lease manager hands out
  would close the core before the manager; the runtime gives its users its own close instead.
- Reading the engine's health does not fail. That "stopping" stays once reached is left out of
  `RuntimeHealth`. Equal values of the health are not announced.
- Node's microtasks after a socket event may come later than they do: `TcpPublishIngress` allows more
  interleavings than there are. Interrupting a command is one way for it to end.
- Events of Kafka listeners do not depend on the ledger, so their queue is left out: an
  event is recorded at any time.
- The lifecycle callbacks of remote subscriptions count and do not suspend; a refresh requested by a
  materialized feed does not suspend either.
- A degraded client of a materialized feed is recomputed from its feeds by every snapshot, so its own
  status is not kept.
- A fiber that closes a part which another one is closing may wait for it or not: the parts
  differ, and `PassOver` allows both.

## 4. Proofs

`tlapm` proves the theorems for every value of the constants that the `ASSUME`s of the
modules allow: any number of fibers, subscriptions, queries, keys, rows, partitions, leases,
sockets and versions, and any limit, capacity and budget. The assumptions say what the code
fixes: kinds of fibers are disjoint, what is counted is finite, limits are natural numbers and
those the code replaces by a default if they are not positive are positive, and functions
have their domains. TLC evaluates each of them on every run of its module. `MaxVersion`,
`MaxCalls`, `MaxLeases` and the other bounds of the runs are any number in the theorems.

No theorem has a hypothesis other than these, except where `YieldBeforeCommit = FALSE` is
said below (what clients hold, what retained windows show): findings 1 and 2 show that it is needed there.
An inductive invariant that is not a property of a run was first checked by TLC on the run of its module.

### Topic store: `TopicStoreProofs`

None of the safety properties is inductive alone.
`LeaseCounts` needs to know that whoever releases a lease is registered, which is
`RegisteredWhileOpen`; that needs the captured subscribers of mutations and drains
(`TargetsRegistered`, `DrainedIsClosed`), the evicted one (`EvicteeKnown`), and that
nothing closes a subscription before it exists (`FreshIsOpen`); all of them need that
critical sections exclude each other (`PermitsMatchSections`, which is proved and not a
property of a run). `IInv` is their
conjunction; `InitIInv` and `NextIInv` prove it with one lemma per conjunct and one
step per action. From it: `Typing`, `MutualExclusion`, `LeasesBalance`,
`Registration`, `NotifyLiveExecutions` and `NoOrphanedReader`.

`NothingLeftBehind` (`ClosedEngineDrains`): a subscriber that found the engine open under the
mutation permit keeps it until it is registered, so that the drain of a close that raised the
flag meanwhile comes later (`AdmittedBeforeDrain`).

*Ends of streams.* `Streaming` adds that a stream is empty
before its snapshot, that a registered one is current, and that at most one fiber
is about to end it. It yields `EndsAreTold` (through `TellsEnd`), the action property
`EndIsLast`, and `LedgerCounts` (through `Ledger` and `ResetsCounted`).

*Delivery.* Under `~YieldBeforeCommit`, three facts per
subscription are preserved together: its queued events link up and the first one
applies to what the client holds (`Applicable`); every event and the client's view
are what the query shows of the version they name (`Truthful`); and what is queued
leads to the cursor, from which the next delta starts (`Complete`). `NoStaleClient`
and `ShowsCommitted` follow.

### Row change journal: `RowChangeJournalProofs`, `RetainedWindowProofs`

The first module says what each method leaves of a journal, with one lemma for each (`RecordCases`,
`CommitCases`, `RetainCases`, `ReleaseCases`). Both kinds of executions rest on them.

`OffersReplay` (`JournalReplays`): if the journal says that it covers the versions since v,
its changes lead from the rows of v to the committed ones. The property speaks of what the
concatenation of batches does; the invariant `JournalInv` speaks of each batch
(`BatchesReplay`: its version follows its predecessor's, and its changes lead from the rows of the
one to those of the other), of the changes that are not committed yet (`PendingReplays`), and
says that a journal without references holds nothing (`EmptyWhenUnused`), without
which the first batch after a retain could have a gap before it. `RowAfter` says without recursion
what a row is after some changes, so that two replays compose by a lemma (`FlattenSteps` unfolds
the concatenation), and trimming drops whole batches from the front.

### Retained windows: `RetainedWindowProofs`

Under `~YieldBeforeCommit`: `RetainsPrefix` (`RetainedIsPrefix`): the retained window is the head of the full
result on the rows it has seen, with its total, and long enough for the leases. `ShowsReference`
(`ShownIsReference`): what each lease shows is its slice of that result. `SettlesWithoutYield`
(`Settled`): with no mutation under way it is the result on the rows of its version; this is the
property that `retained_window_torn` violates with `YieldBeforeCommit = TRUE`, so that the three say exactly
what the missing switch between write and commit buys.

`RetainedInv` is `JournalInv` with four facts. `Right(evaluation, seen, base)`: the window is the
first entries of what the rows `seen` select, in order; the total is their number; there are
at least as many as the leases need, and as many as are retained if the window counts as
filled. Without the last part an update could append an entering row behind one that is not retained.
`SeenIsPast`: those rows are the ones of the version that the evaluation carries, as long as the journal may
reach back to it; without it the changes would be applied to other rows than they start from. `BaseCovers`: the
base limit is that of the leases, so that enough for the base is enough for each of them. `Leased`: finitely many
windows are leased, so that there is such a limit.

A step that evaluates anew is `EvaluateRight`. For an update:

- *The fold*: `Tracks` says what has become of the retained entries, the total and the entered rows after a number of
  changes, compared with the rows that those changes lead to (`RowAfter`, from the journal's proof). `ChangeTracks` keeps it for
  each case of a change, `ChangedTracks` unfolds the fold, and `OffersReplay` says that the rows reached are the
  current ones.
- *First entries*: a sequence is the first n of a result if it lists entries of it in order and whatever it leaves out
  comes after it. Removing, replacing in place a row that does not move down, and adding rows
  preserve that up to a length. `RefilledRight` shows that `SafeLimit` is such a length in each case, and that `Suffices` leaves
  enough entries. From it come `UpdatedRight`, `RefreshRight` and `NextRetainedInv`.

### Row storage: `QueryDataProofs`

`IndexesAgree` (`IndexesMatchRows`): after any mutations and scans, columns, keys, ordered indexes
and buckets agree with the rows. The invariant `StorageInv` says of an ordered index that it lists
every slot exactly once and each before the next, and that different slots have different keys,
which makes the order strict. The lemmas follow the code: a search by
halves finds the cut of a sequence (`BisectFindsCut`), so that an inserted slot has its place;
removing a slot keeps the others' order; a deleted row's slot is filled with the last row
after every index forgot both; a batch of upserts is a fold, unfolded to its steps; and an index that a
scan builds is sorted because in a finite linear order exactly one slot has i - 1 before it. That
values have a linear order is the model's assumption, see finding 4.

### Scans: `QueryDataProofs`

`ScansRefer` (`ScanIsReference`): whatever was stored before, and whatever indexes and buckets earlier scans left,
each plan is answered with the keys and the total of filtering and sorting all rows. It holds for any
keys, fields, rows and plans, and any limits on buckets, sorted windows and heaps, and it follows from
`StorageInv` in every state; that scans and mutations keep `StorageInv` is `IndexesInductive`. The
argument, with `Lists(q, S, before)` for "q lists each element of S once, and each before the next":

- *One list.* A finite set with a strict linear order has such a list, `Ordered` is one, and there is no other
  (`OrderedLists`, `ListsRank`). Slots of a storage are strictly ordered by any order of a query, since the keys
  differ (`BeforeIsStrict`); what the scan lists by slots and the reference lists by rows is the same (`ReferenceIs`).
- *What is asked.* `Asked` are the slots whose rows the plan accepts; what filters say of the columns together with the row
  predicate is exactly that (`MatchesIsAccepts`).
- *What is read covers what is asked.* The part of an ordered index between the bounds, or at the values, that filters on its field allow
  (`SpanIs`, `SpansCover`), the buckets of a filter's values (`EqualityKeeps`), the range of an index (`RangeKeeps`) and
  hence the best of the filters (`FoundInv`, kept along the fold by `ConsiderKeeps`). A span that ends where it starts means that
  nothing is asked (`NothingAsked`).
- *What is kept is what leads.* `Leading(T, S, before, n)`: T is all of S, or n of its elements that come before all others. One more slot
  changes the leading ones by that slot or by nothing (`LeadingGrows`, `LeadingTurns`). A sorted window lists them
  (`KeepSortedKeeps`). A heap holds them with the last on top (`KeepInHeapKeeps`): the recursions of
  `SiftUp` and `SiftDown` are unfolded along the number of steps that are left (`DescentGives`), during which the order of
  a heap fails at most at one index (`Rising`, `Sinking`).
- *What is answered* is the same cut of the same list in each way (`ReadAnswers` for slots, `IndexAnswers` for an
  index), with its length as the total.

### Query predicates: `QueryDataProofs`

`StorageDecides` (`StorageDecidesAsQueries`): for any field, clause and rows, the planned filters on the
columns accept what the clause asks, exactly where rows are not looked at and at least that
otherwise; typed columns compare as queries do; and the order is linear without a negative zero. It is a
case distinction over kinds of values, with one lemma per way of planning;
the invariant is that cells hold values of their field.

### Deltas: `DeltaOperationsProofs`

`Replays` (`DeltaReplays`): whatever two results follow each other, the client that applies the operations
of the delta refuses none of them and holds the new result and its total. `SentOnce` (`RowsSentOnce`, an action property): a delta sends a row only if the client does not hold it, and
tells no key twice what one operation could have said; it is proved and no run repeats it. Both hold for windows of any size and any
threshold `MinReplacement`.

`Leads(ops, x, y)` says that a client which holds x holds y after the operations, with an exact map. One
lemma for each operation says what it leads to (`RemovedWindow`, `InsertedWindow`, `MovedWindow`, `UpdatedWindow`); that a map may be
brought up to date from the first changed index on is `ReindexTells`. Each of the three ways to compute a
delta then has its own argument: in `SingleMoveLeads` the move makes the keys equal and the updates the rows; in `ReplacementLeads`
the removals lead to what both results share, wherever it stands, and insertions in ascending order never displace one that was made; in `GeneralLeads` the
server's copy and the client's are the same after each drop and each placement, and after n placements the first n entries are the new ones.

For `SentOnce`, `Thrifty(ops)` says that a row sent is news to a client with the old result and that no key occurs
twice among the operations that carry a row, nor among those that do not. It is again shown for each way (`SingleMoveThrifty`, `ReplacementThrifty`,
`GeneralThrifty`). In the general way it is not preserved by a step alone: `Dropping` and `Frugal` add which keys
have been told of so far, and that all entries behind the placed ones are still the old result's, in its order.

### Grouped executions: `GroupedExecutionProofs`

`GroupsMatch` (`GroupsMatchRows`): the groups kept are those of the rows seen. `GroupedShows`
(`ShownIsReference`): what is shown are those groups, in order. `ReferencesBalance` (`JournalReferences`):
the journal has one reference for each incremental execution. None of them is inductive alone: the
groups stay right only if the journal's changes lead from the rows seen to the current ones, and it
offers them only while the reference is held. `GroupedInv` therefore says that there is a history of
the rows of each version (`History`) that the journal fits (`Fits`: its batches are those of
the last versions, each leading from one version's rows to the next, and the uncommitted changes lead
from the last version to what is written), that the execution's result is one of that
history, that its groups are right for it (`GroupsRight`) and its result is (`Shown`).

The proof goes along the code:

- *A group's aggregates* are functions of its members (`Tallied`): adding and removing a member
  changes each as it should, sums by `MapThenSumSet` included (`SumOver`). The minimum is what
  cannot be undone; it is right unless its group is among the outdated (`LeastOf`).
- *A change* is undone in the group of the previous row and redone in that of the next, or replaced in
  place (`RemovedKeeps`, `InsertedKeeps`, `ReplacedKeeps`, `ApplyChangeKeeps`; `CountChangeKeeps` for a query
  without rows). What an update knows is `Kept`: groups and limits are right for the rows reached, and unless the
  groups are to be ordered again nothing has moved (`Unmoved`), that is, only the values in changed
  groups differ, and the query does not order by them.
- *Folds*: a scan, a batch and a sequence of versions are folds. `FoldSteps` gives their steps as a
  function; from it `ScanFinds`, `BatchKeeps` and `UpdatedTracks`, which says that applying the versions the journal
  covers brings the groups from the rows seen to the rows there are.
- *Results*: groups are in one strict order (`GroupsAreOrdered`), so that each rank has exactly
  one (`EveryRank`), and evaluating right groups shows them (`EvaluationShows`); while nothing moved,
  replacing changed rows in place shows the same (`PatchedShows`).

Since an operator cannot be a parameter of a lemma that is used, the model's folds use operators with names
(`AddRow`, `AnyChange`, `ApplyLater`), and its window is said by ranks (`Ranked`), not by a sorting
function, whose definition the prover does not have.

### gRPC leases: `GrpcLeaseProofs`

`HoldersAreCounted` and `LeasesEnd` come from `LeaseInv`: the map and the subscribers agree about who
has which lease (`MapAgrees`); the permit is with the one between taking and giving it back
(`PermitHeld`); counts are cardinalities of holders (`CountsHolders`); at most one subscriber cleans a
route, and only one nobody holds (`OneCleans`); how far a cleanup is says what of the lease
has ended (`CleanupStages`); and rows belong to the mapped lease (`RowsAreOwned`). `LeasesAreCleaned` alone is not
inductive: that the subscriber which cleans is the only one is what makes its steps
safe outside the permit.

### Kafka ingress: `RuntimeEdgesProofs`

`IngressImplementsLog` is the refinement of `IngestedLog`, which the run checks as a property: each step
of the ingress is a step of the abstract log or changes nothing in it, under `applied <- Applied(p)`. A publish maps
to applying what the batch holds of a topic, an acknowledged offset to committing. `KafkaInv` is what makes it so:
batch and queue hold each partition's messages in order (`InStreamOrder`) and without a gap between what was published and
what was read (`NoneLost`); an acknowledged message was published (`PublishedFirst`); the phase
says how much of the batch was published and committed (`Stages`). `Flushed` follows from the same invariant.

### Edges of the runtime: `RuntimeEdgesProofs`

One invariant for each module:

| Theorem | Property | What the property needs to be inductive |
|---|---|---|
| `CommandsAccounted` | `CommandsAreAccounted` | sockets the server does not know are gone (`SocketsKnown`); counts are sums over finite sets |
| `WaitersAnswered` | `WaitersAreAnswered` | the active read is the only pending one that was forked (`OneReadPending`) |
| `CoreClosesLast` | `NothingOutlivesTheCore` | what a fiber has still to close covers what runs (`ClosersCover`), and whoever is closing a part owns it |
| `FailuresStay` | `FailureStaysVisible` | the ledger's topics say what their sources do (`LedgerRemembers`) |
| `BudgetKept` | `BudgetIsRespected` | attempts are counted through reconnects (`AttemptsCounted`) and statuses follow runs |
| `ReadersTold` | `ReadersAreTold` | read, queued and sent events line up for each stage of a subscription (`Served`) |
| `HealthNeverReturns` | `HealthNeverGoesBack` (an action property) | a later read has no earlier commit, and followers wait for the read of their epoch (`ReadsAreOrdered`, `FollowersWait`) |
| `WatchersStayCurrent` | `WatchersAreCurrent` | the same, and what a slot, a hand and a queue hold is in order and ends with the newest (`Watching`) |

### Only model-checked

- *Liveness* (`CallsReturn`, `ClientLearnsClosure`, `Converges`,
  `FailureEndsSubscriptions`, `FetchedIsSettled`, `HealthCatchesUp`): fairness and ENABLED are
  outside the prover's reach.
- *The findings*, which are counterexamples.

Every other property of the runs is stated by a theorem.

## 5. Not modelled, and the plan

Not modelled, and why:

- *Several stores of one engine.* Stores share nothing but the closed flag. A reset sets the engine
  version (`engine.ts` 352) to 0 after the stores, one by one, and so may forget a commit in
  between; health shows that version and nothing compares it. A one-shot snapshot changes no state and reads in
  the same window as finding 1.
- *Rates and samples*: the rolling windows of messages per second, queue depth maxima, lags
  and offsets that health shows.
- *Decoding of query literals, cache keys and projections, protocol codecs, configuration
  contracts, option validation, routes, metrics*: pure functions over concrete values, types
  and formatting.
- *Resource helpers of the Kafka ingress* (closing a consumer whose start failed), *tracking of
  WebSockets*, the *mapping of keys and values* in gRPC feeds.
- *React bindings, the in-memory runtime, effect-utils, the package facade*: composition; the
  state they show is that of the modules above. Benchmarks, scripts and examples are no part
  of the server.

Plan: every safety property of the runs is proved. What is left is breadth: the decoding of query literals and
cache keys, on which it depends that equal queries share an execution, and the protocol codecs, each as a pure function checked against
its inverse.
