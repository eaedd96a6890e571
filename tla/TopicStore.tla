------------------------------ MODULE TopicStore ------------------------------
(***************************************************************************)
(* One topic store of the column live view engine: mutations, live         *)
(* subscriptions, reset and close, as the fibers that run them interleave. *)
(*                                                                         *)
(* A store has two semaphores of one permit.  A mutation takes the         *)
(* mutation semaphore, writes rows, commits a version and captures the     *)
(* subscribers of that moment; it then takes the notification semaphore    *)
(* and tells each captured subscriber to compute its next delta.  Closing  *)
(* a subscription, resetting the store and closing the engine take both,   *)
(* notification first.  Subscribing takes the mutation semaphore only.     *)
(*                                                                         *)
(* Data is abstract: Contents are the row sets the store can hold, and     *)
(* View[q][c] is what query q shows of c.                                  *)
(***************************************************************************)
EXTENDS Naturals, Sequences, FiniteSets

CONSTANTS
  Mutators,         \* fibers calling publish, publishMany, patch and delete
  Subscribers,      \* fibers calling subscribe once, then close
  Admins,           \* fibers calling reset and engine close
  None,             \* no fiber, no subscriber
  Queries,          \* query cache keys
  QueryOf,          \* [Subscribers -> Queries]
  Contents,         \* row sets a store can hold
  Empty,            \* the row set of a new or a reset store
  Results,          \* what queries can show
  View,             \* [Queries -> [Contents -> Results]]
  QueueCapacity,    \* subscriptionQueueCapacity of the engine
  Interruptible,    \* may a mutating fiber be interrupted while it waits
  YieldBeforeCommit,\* may the scheduler switch fibers between write and commit
  MaxCalls,         \* bound on mutation calls
  MaxResets         \* bound on resets

Fibers == Mutators \union Subscribers \union Admins

ASSUME FiberAssumption ==
  /\ Mutators \intersect Subscribers = {}
  /\ Mutators \intersect Admins = {}
  /\ Subscribers \intersect Admins = {}
  /\ None \notin Fibers
  /\ IsFiniteSet(Fibers)

ASSUME QueryAssumption ==
  /\ IsFiniteSet(Queries)
  /\ QueryOf \in [Subscribers -> Queries]
  /\ View \in [Queries -> [Contents -> Results]]
  /\ Empty \in Contents

\* The engine replaces a capacity that is not a positive integer by 1024.
ASSUME CapacityAssumption == QueueCapacity \in Nat \ {0}

ASSUME BoundAssumption ==
  /\ MaxCalls \in Nat
  /\ MaxResets \in Nat
  /\ Interruptible \in BOOLEAN
  /\ YieldBeforeCommit \in BOOLEAN

VARIABLES
  pc,                     \* where each fiber stands
  mutationSemaphore,      \* the fiber holding the permit, or None
  notificationSemaphore,  \* the fiber holding the permit, or None
  rows,                   \* the row storage
  version,                \* its committed version
  log,                    \* history: log[v + 1] is what version v committed
  subscribers,            \* subscriptions registered with the store
  closed,                 \* subscriber.closed
  queue,                  \* each subscription's event queue
  ended,                  \* Queue.end was called
  cursor,                 \* the evaluation a subscription's next delta starts from
  refs,                   \* leases of each query's shared execution, 0 if absent
  journalRefs,            \* retainers of the row change journal
  targets,                \* subscribers a fiber has yet to notify or to close
  evictee,                \* the subscriber a mutator closes for backpressure
  pendingBatches,         \* pendingMutationBatches of the health ledger
  engineClosed,           \* the engine's closed flag
  view,                   \* the state each client rebuilds from its events
  calls,                  \* mutation calls so far (bound)
  resets                  \* resets so far (bound)

storeVars  == <<rows, version, log>>
lockVars   == <<mutationSemaphore, notificationSemaphore>>
streamVars == <<queue, ended, cursor>>
leaseVars  == <<refs, journalRefs>>
boundVars  == <<calls, resets>>
vars == <<pc, lockVars, storeVars, subscribers, closed, streamVars, leaseVars,
          targets, evictee, pendingBatches, engineClosed, view, boundVars>>

Evaluation == [version : Nat, rows : Results]

\* A delta's operations turn `before` into `rows`: they are the difference of
\* two evaluations, and mean nothing on any other result.
Event ==
  [type : {"snapshot"}, version : Nat, rows : Results]
    \union
  [type : {"delta"}, from : Nat, before : Results, version : Nat, rows : Results]
    \union
  [type : {"status"}]

ClientState == [status : {"loading", "ready", "stale", "closed"},
                version : Nat, rows : Results]

Result(q) == View[q][rows]
InitialView(s) ==
  [status |-> "loading", version |-> 0, rows |-> View[QueryOf[s]][Empty]]

MutatorStates    == {"idle", "waiting", "mutating", "written", "committed",
                     "notifying", "evicting", "clearing"}
SubscriberStates == {"new", "waiting", "subscribing", "admitted", "registered",
                     "open", "closing", "transition", "finalizing", "done",
                     "rejected"}
AdminStates      == {"idle", "resetting", "stopping", "resetTransition",
                     "stopTransition", "draining"}

FiberTypeOK ==
  /\ pc \in [Fibers -> MutatorStates \union SubscriberStates \union AdminStates]
  /\ \A m \in Mutators : pc[m] \in MutatorStates
  /\ \A s \in Subscribers : pc[s] \in SubscriberStates
  /\ \A a \in Admins : pc[a] \in AdminStates
  /\ mutationSemaphore \in Fibers \union {None}
  /\ notificationSemaphore \in Fibers \union {None}
  /\ targets \in [Mutators \union Admins -> SUBSET Subscribers]
  /\ evictee \in [Mutators -> Subscribers \union {None}]

StoreTypeOK ==
  /\ rows \in Contents
  /\ version \in Nat
  /\ log \in Seq(Contents)
  /\ pendingBatches \in Nat
  /\ engineClosed \in BOOLEAN
  /\ calls \in Nat
  /\ resets \in Nat

StreamTypeOK ==
  /\ subscribers \in SUBSET Subscribers
  /\ closed \in [Subscribers -> BOOLEAN]
  /\ queue \in [Subscribers -> Seq(Event)]
  /\ ended \in [Subscribers -> BOOLEAN]
  /\ cursor \in [Subscribers -> Evaluation]
  /\ view \in [Subscribers -> ClientState]

LeaseTypeOK ==
  /\ refs \in [Queries -> Nat]
  /\ journalRefs \in Nat

\* Every variable keeps its type.  The counters of leases stay natural numbers
\* although releases subtract from them: that is part of what is proved.
TypeOK == FiberTypeOK /\ StoreTypeOK /\ StreamTypeOK /\ LeaseTypeOK

Init ==
  /\ pc = [f \in Fibers |-> IF f \in Subscribers THEN "new" ELSE "idle"]
  /\ mutationSemaphore = None
  /\ notificationSemaphore = None
  /\ rows = Empty
  /\ version = 0
  /\ log = <<Empty>>
  /\ subscribers = {}
  /\ closed = [s \in Subscribers |-> FALSE]
  /\ queue = [s \in Subscribers |-> <<>>]
  /\ ended = [s \in Subscribers |-> FALSE]
  /\ cursor = [s \in Subscribers |->
                 [version |-> 0, rows |-> View[QueryOf[s]][Empty]]]
  /\ refs = [q \in Queries |-> 0]
  /\ journalRefs = 0
  /\ targets = [f \in Mutators \union Admins |-> {}]
  /\ evictee = [m \in Mutators |-> None]
  /\ pendingBatches = 0
  /\ engineClosed = FALSE
  /\ view = [s \in Subscribers |-> InitialView(s)]
  /\ calls = 0
  /\ resets = 0

Goto(f, label) == pc' = [pc EXCEPT ![f] = label]
-------------------------------------------------------------------------------
(* Leases of the shared query executions. *)

\* The first lease creates the execution and retains the change journal.
AcquireExecution(q) ==
  /\ refs' = [refs EXCEPT ![q] = @ + 1]
  /\ journalRefs' = IF refs[q] = 0 THEN journalRefs + 1 ELSE journalRefs

\* MUTANT of ReleaseExecution: the missing entry is not noticed.
ReleaseUnchecked(q) ==
  /\ refs' = [refs EXCEPT ![q] = @ - 1]
  /\ journalRefs' = IF refs[q] = 1 THEN journalRefs - 1 ELSE journalRefs

\* A release finds nothing once a reset or a close has cleared the registry.
ReleaseExecution(q) ==
  /\ refs' = [refs EXCEPT ![q] = IF @ = 0 THEN 0 ELSE @ - 1]
  /\ journalRefs' = IF refs[q] = 1 THEN journalRefs - 1 ELSE journalRefs

ClearExecutions ==
  /\ refs' = [q \in Queries |-> 0]
  /\ journalRefs' = journalRefs - Cardinality({q \in Queries : refs[q] > 0})

-------------------------------------------------------------------------------
(* Mutations. *)

EndBatch == pendingBatches' = IF pendingBatches = 0 THEN 0 ELSE pendingBatches - 1

\* publish, publishMany, patch or delete: ensureOpen, row preparation, then the
\* mutation batch opens and the fiber queues for the mutation semaphore.
BeginMutation(m) ==
  /\ pc[m] = "idle"
  /\ ~engineClosed
  /\ calls < MaxCalls
  /\ calls' = calls + 1
  /\ pendingBatches' = pendingBatches + 1
  /\ Goto(m, "waiting")
  /\ UNCHANGED <<lockVars, storeVars, subscribers, closed, streamVars, leaseVars,
                 targets, evictee, engineClosed, view, resets>>

EnterMutation(m) ==
  /\ pc[m] = "waiting"
  /\ mutationSemaphore = None
  /\ mutationSemaphore' = m
  /\ Goto(m, "mutating")
  /\ UNCHANGED <<notificationSemaphore, storeVars, subscribers, closed, streamVars,
                 leaseVars, targets, evictee, pendingBatches, engineClosed, view,
                 boundVars>>

\* The rows are written, the version is not yet advanced.
WriteRows(m) ==
  /\ pc[m] = "mutating"
  /\ \E c \in Contents : rows' = c
  /\ Goto(m, "written")
  /\ UNCHANGED <<lockVars, version, log, subscribers, closed, streamVars, leaseVars,
                 targets, evictee, pendingBatches, engineClosed, view, boundVars>>

\* MUTANT of CommitRows: subscribers still reading earlier events are skipped.
CommitSkippingBusy(m) ==
  /\ pc[m] = "written"
  /\ version' = version + 1
  /\ log' = Append(log, rows)
  /\ targets' = [targets EXCEPT ![m] = {s \in subscribers : queue[s] = <<>>}]
  /\ mutationSemaphore' = None
  /\ Goto(m, "committed")
  /\ UNCHANGED <<notificationSemaphore, rows, subscribers, closed, streamVars,
                 leaseVars, evictee, pendingBatches, engineClosed, view, boundVars>>

\* advanceVersion, and the capture of who is to be notified, in one step.
CommitRows(m) ==
  /\ pc[m] = "written"
  /\ version' = version + 1
  /\ log' = Append(log, rows)
  /\ targets' = [targets EXCEPT ![m] = subscribers]
  /\ mutationSemaphore' = None
  /\ Goto(m, "committed")
  /\ UNCHANGED <<notificationSemaphore, rows, subscribers, closed, streamVars,
                 leaseVars, evictee, pendingBatches, engineClosed, view, boundVars>>

\* No row changed: nothing to commit, nobody to notify.
ChangeNothing(m) ==
  /\ pc[m] = "mutating"
  /\ mutationSemaphore' = None
  /\ Goto(m, "committed")
  /\ UNCHANGED <<notificationSemaphore, storeVars, subscribers, closed, streamVars,
                 leaseVars, targets, evictee, pendingBatches, engineClosed, view,
                 boundVars>>

\* A patch of a missing row, or one that yields an invalid row, fails the call.
FailMutation(m) ==
  /\ pc[m] = "mutating"
  /\ mutationSemaphore' = None
  /\ EndBatch
  /\ Goto(m, "idle")
  /\ UNCHANGED <<notificationSemaphore, storeVars, subscribers, closed, streamVars,
                 leaseVars, targets, evictee, engineClosed, view, boundVars>>

\* MUTANT of InterruptMutation: the batch ends on completion only.
InterruptKeepingBatch(m) ==
  /\ Interruptible
  /\ pc[m] \in {"waiting", "committed"}
  /\ targets' = [targets EXCEPT ![m] = {}]
  /\ Goto(m, "idle")
  /\ UNCHANGED <<lockVars, storeVars, subscribers, closed, streamVars, leaseVars,
                 evictee, pendingBatches, engineClosed, view, boundVars>>

\* The critical sections are uninterruptible, the two waits are not.  A fiber
\* interrupted in the second one has committed and notifies nobody.
InterruptMutation(m) ==
  /\ Interruptible
  /\ pc[m] \in {"waiting", "committed"}
  /\ EndBatch
  /\ targets' = [targets EXCEPT ![m] = {}]
  /\ Goto(m, "idle")
  /\ UNCHANGED <<lockVars, storeVars, subscribers, closed, streamVars, leaseVars,
                 evictee, engineClosed, view, boundVars>>

EnterNotification(m) ==
  /\ pc[m] = "committed"
  /\ notificationSemaphore = None
  /\ notificationSemaphore' = m
  /\ Goto(m, "notifying")
  /\ UNCHANGED <<mutationSemaphore, storeVars, subscribers, closed, streamVars,
                 leaseVars, targets, evictee, pendingBatches, engineClosed, view,
                 boundVars>>

\* notify reads the rows under the notification semaphore alone.
Readable == YieldBeforeCommit \/ \A m \in Mutators : pc[m] # "written"

\* The execution's latest evaluation, as it stands when notify runs.
Latest(s) == [version |-> version, rows |-> Result(QueryOf[s])]

Delta(s) == [type    |-> "delta",
             from    |-> cursor[s].version,
             before  |-> cursor[s].rows,
             version |-> Latest(s).version,
             rows    |-> Latest(s).rows]

\* Subscriptions are notified in registration order; they share nothing that
\* order could show, so any order is allowed here.
Notifying(m, s) ==
  /\ pc[m] = "notifying"
  /\ s \in targets[m]
  /\ targets' = [targets EXCEPT ![m] = @ \ {s}]

SkipClosed(m, s) ==
  /\ Notifying(m, s)
  /\ closed[s]
  /\ UNCHANGED <<pc, lockVars, storeVars, subscribers, closed, streamVars, leaseVars,
                 evictee, pendingBatches, engineClosed, view, boundVars>>

\* The result is what it was: no event, and the cursor keeps its version.
NotifyUnchanged(m, s) ==
  /\ Notifying(m, s)
  /\ ~closed[s]
  /\ Readable
  /\ Latest(s).rows = cursor[s].rows
  /\ UNCHANGED <<pc, lockVars, storeVars, subscribers, closed, streamVars, leaseVars,
                 evictee, pendingBatches, engineClosed, view, boundVars>>

\* MUTANT of NotifyDelta: the closed flag is not read again after the capture.
NotifyDeltaUnchecked(m, s) ==
  /\ Notifying(m, s)
  /\ Readable
  /\ Latest(s).rows # cursor[s].rows
  /\ Len(queue[s]) < QueueCapacity
  /\ cursor' = [cursor EXCEPT ![s] = Latest(s)]
  /\ queue' = [queue EXCEPT ![s] = Append(@, Delta(s))]
  /\ UNCHANGED <<pc, lockVars, storeVars, subscribers, closed, ended, leaseVars,
                 evictee, pendingBatches, engineClosed, view, boundVars>>

NotifyDelta(m, s) ==
  /\ Notifying(m, s)
  /\ ~closed[s]
  /\ Readable
  /\ Latest(s).rows # cursor[s].rows
  /\ Len(queue[s]) < QueueCapacity
  /\ cursor' = [cursor EXCEPT ![s] = Latest(s)]
  /\ queue' = [queue EXCEPT ![s] = Append(@, Delta(s))]
  /\ UNCHANGED <<pc, lockVars, storeVars, subscribers, closed, ended, leaseVars,
                 evictee, pendingBatches, engineClosed, view, boundVars>>

\* MUTANT of NotifyDropped: the refusal of the queue is ignored.
NotifyIgnoringDrop(m, s) ==
  /\ Notifying(m, s)
  /\ ~closed[s]
  /\ Readable
  /\ Latest(s).rows # cursor[s].rows
  /\ Len(queue[s]) >= QueueCapacity
  /\ cursor' = [cursor EXCEPT ![s] = Latest(s)]
  /\ UNCHANGED <<pc, lockVars, storeVars, subscribers, closed, queue, ended, leaseVars,
                 evictee, pendingBatches, engineClosed, view, boundVars>>

\* The dropping queue refuses the delta: the cursor has moved, the event is lost.
NotifyDropped(m, s) ==
  /\ Notifying(m, s)
  /\ ~closed[s]
  /\ Readable
  /\ Latest(s).rows # cursor[s].rows
  /\ Len(queue[s]) >= QueueCapacity
  /\ cursor' = [cursor EXCEPT ![s] = Latest(s)]
  /\ evictee' = [evictee EXCEPT ![m] = s]
  /\ Goto(m, "evicting")
  /\ UNCHANGED <<lockVars, storeVars, subscribers, closed, queue, ended, leaseVars,
                 pendingBatches, engineClosed, view, boundVars>>

\* MUTANT of EvictSubscriber: the subscriber stays in the store's list.
EvictKeepingRegistration(m) ==
  LET s == evictee[m] IN
  /\ pc[m] = "evicting"
  /\ mutationSemaphore = None
  /\ IF closed[s]
     THEN UNCHANGED <<closed, leaseVars>>
     ELSE /\ closed' = [closed EXCEPT ![s] = TRUE]
          /\ ReleaseExecution(QueryOf[s])
  /\ Goto(m, "clearing")
  /\ UNCHANGED <<lockVars, storeVars, subscribers, streamVars, targets, evictee,
                 pendingBatches, engineClosed, view, boundVars>>

\* MUTANT of EvictSubscriber: it takes both permits, as every other close does.
EvictInTransition(m) ==
  LET s == evictee[m] IN
  /\ pc[m] = "evicting"
  /\ notificationSemaphore = None
  /\ mutationSemaphore = None
  /\ closed' = [closed EXCEPT ![s] = TRUE]
  /\ subscribers' = subscribers \ {s}
  /\ ReleaseExecution(QueryOf[s])
  /\ Goto(m, "clearing")
  /\ UNCHANGED <<lockVars, storeVars, streamVars, targets, evictee, pendingBatches,
                 engineClosed, view, boundVars>>

\* closeBackpressuredTopicStoreSubscription, inside the mutation semaphore.
EvictSubscriber(m) ==
  LET s == evictee[m] IN
  /\ pc[m] = "evicting"
  /\ mutationSemaphore = None
  /\ IF closed[s]
     THEN UNCHANGED <<closed, subscribers, leaseVars>>
     ELSE /\ closed' = [closed EXCEPT ![s] = TRUE]
          /\ subscribers' = subscribers \ {s}
          /\ ReleaseExecution(QueryOf[s])
  /\ Goto(m, "clearing")
  /\ UNCHANGED <<lockVars, storeVars, streamVars, targets, evictee, pendingBatches,
                 engineClosed, view, boundVars>>

\* MUTANT of EndWithStatus: the queue is cleared and ended, with no status.
EndSilently(s) ==
  /\ queue' = [queue EXCEPT ![s] = <<>>]
  /\ ended' = [ended EXCEPT ![s] = TRUE]
  /\ UNCHANGED cursor

\* MUTANT of EndWithStatus: the queue is cleared and left open.
ClearOnly(s) ==
  /\ queue' = [queue EXCEPT ![s] = <<>>]
  /\ UNCHANGED <<ended, cursor>>

\* Queue.clear, Queue.offer of the terminal status, Queue.end.
EndWithStatus(s) ==
  /\ queue' = [queue EXCEPT ![s] = IF ended[s] THEN <<>> ELSE <<[type |-> "status"]>>]
  /\ ended' = [ended EXCEPT ![s] = TRUE]
  /\ UNCHANGED cursor

SendBackpressure(m) ==
  /\ pc[m] = "clearing"
  /\ EndWithStatus(evictee[m])
  /\ evictee' = [evictee EXCEPT ![m] = None]
  /\ Goto(m, "notifying")
  /\ UNCHANGED <<lockVars, storeVars, subscribers, closed, leaseVars, targets,
                 pendingBatches, engineClosed, view, boundVars>>

EndMutation(m) ==
  /\ pc[m] = "notifying"
  /\ targets[m] = {}
  /\ notificationSemaphore' = None
  /\ EndBatch
  /\ Goto(m, "idle")
  /\ UNCHANGED <<mutationSemaphore, storeVars, subscribers, closed, streamVars,
                 leaseVars, targets, evictee, engineClosed, view, boundVars>>

-------------------------------------------------------------------------------
(* Subscriptions. *)

BeginSubscribe(s) ==
  /\ pc[s] = "new"
  /\ ~engineClosed
  /\ Goto(s, "waiting")
  /\ UNCHANGED <<lockVars, storeVars, subscribers, closed, streamVars, leaseVars,
                 targets, evictee, pendingBatches, engineClosed, view, boundVars>>

\* Interrupted in the queue for the semaphore: nothing was acquired.
InterruptSubscribe(s) ==
  /\ pc[s] = "waiting"
  /\ Goto(s, "rejected")
  /\ UNCHANGED <<lockVars, storeVars, subscribers, closed, streamVars, leaseVars,
                 targets, evictee, pendingBatches, engineClosed, view, boundVars>>

\* MUTANT of EnterSubscribe: the initial evaluation does not wait for a mutation
\* that is being applied.
EnterSubscribeAnyway(s) ==
  /\ pc[s] = "waiting"
  /\ mutationSemaphore' = s
  /\ Goto(s, "subscribing")
  /\ UNCHANGED <<notificationSemaphore, storeVars, subscribers, closed, streamVars,
                 leaseVars, targets, evictee, pendingBatches, engineClosed, view,
                 boundVars>>

EnterSubscribe(s) ==
  /\ pc[s] = "waiting"
  /\ mutationSemaphore = None
  /\ mutationSemaphore' = s
  /\ Goto(s, "subscribing")
  /\ UNCHANGED <<notificationSemaphore, storeVars, subscribers, closed, streamVars,
                 leaseVars, targets, evictee, pendingBatches, engineClosed, view,
                 boundVars>>

\* MUTANT of AdmitSubscriber: a fiber that found the engine open before it waited
\* does not look again.
AdmitUnchecked(s) ==
  /\ pc[s] = "subscribing"
  /\ Goto(s, "admitted")
  /\ UNCHANGED <<lockVars, storeVars, subscribers, closed, streamVars, leaseVars,
                 targets, evictee, pendingBatches, engineClosed, view, boundVars>>

\* The engine is still open, so the query is prepared.  The flag may be raised
\* from here on: only the permit keeps the close from overtaking this fiber.
AdmitSubscriber(s) ==
  /\ pc[s] = "subscribing"
  /\ ~engineClosed
  /\ Goto(s, "admitted")
  /\ UNCHANGED <<lockVars, storeVars, subscribers, closed, streamVars, leaseVars,
                 targets, evictee, pendingBatches, engineClosed, view, boundVars>>

\* The engine was closed while this fiber waited, or the query is not valid.
RejectSubscribe(s) ==
  /\ \/ pc[s] = "subscribing" /\ engineClosed
     \/ pc[s] = "admitted"
  /\ mutationSemaphore' = None
  /\ Goto(s, "rejected")
  /\ UNCHANGED <<notificationSemaphore, storeVars, subscribers, closed, streamVars,
                 leaseVars, targets, evictee, pendingBatches, engineClosed, view,
                 boundVars>>

\* The execution is leased, the cursor made, the subscriber registered.
RegisterSubscriber(s) ==
  /\ pc[s] = "admitted"
  /\ AcquireExecution(QueryOf[s])
  /\ cursor' = [cursor EXCEPT ![s] = Latest(s)]
  /\ subscribers' = subscribers \union {s}
  /\ Goto(s, "registered")
  /\ UNCHANGED <<lockVars, storeVars, closed, queue, ended, targets, evictee,
                 pendingBatches, engineClosed, view, boundVars>>

\* The initial snapshot, evaluated anew, and the end of the critical section.
OfferSnapshot(s) ==
  /\ pc[s] = "registered"
  /\ queue' = [queue EXCEPT ![s] =
                 Append(@, [type    |-> "snapshot",
                            version |-> Latest(s).version,
                            rows    |-> Latest(s).rows])]
  /\ mutationSemaphore' = None
  /\ Goto(s, "open")
  /\ UNCHANGED <<notificationSemaphore, storeVars, subscribers, closed, ended, cursor,
                 leaseVars, targets, evictee, pendingBatches, engineClosed, view,
                 boundVars>>

\* The client applies the next event to its state; what it cannot apply makes
\* the state stale, and a closing status takes it back to the initial one.
Apply(s, state, event) ==
  CASE event.type = "snapshot" ->
         [status |-> "ready", version |-> event.version, rows |-> event.rows]
    [] event.type = "delta" ->
         IF /\ state.status = "ready"
            /\ state.version = event.from
            /\ event.version > state.version
            /\ state.rows = event.before
         THEN [status |-> "ready", version |-> event.version, rows |-> event.rows]
         ELSE [state EXCEPT !.status = "stale"]
    [] OTHER -> [InitialView(s) EXCEPT !.status = "closed"]

TakeEvent(s) ==
  /\ queue[s] # <<>>
  /\ pc[s] \notin {"new", "waiting", "subscribing", "admitted", "registered"}
  /\ view' = [view EXCEPT ![s] = Apply(s, @, Head(queue[s]))]
  /\ queue' = [queue EXCEPT ![s] = Tail(@)]
  /\ UNCHANGED <<pc, lockVars, storeVars, subscribers, closed, ended, cursor, leaseVars,
                 targets, evictee, pendingBatches, engineClosed, boundVars>>

\* close(), called by the owner of the handle, by the interruption of the fiber
\* that subscribed, or by the finalizer of the event stream.
BeginClose(s) ==
  /\ pc[s] = "open"
  /\ Goto(s, "closing")
  /\ UNCHANGED <<lockVars, storeVars, subscribers, closed, streamVars, leaseVars,
                 targets, evictee, pendingBatches, engineClosed, view, boundVars>>

\* An owner interrupted in the queue for the permit has closed nothing.
InterruptClose(s) ==
  /\ Interruptible
  /\ pc[s] = "closing"
  /\ Goto(s, "open")
  /\ UNCHANGED <<lockVars, storeVars, subscribers, closed, streamVars, leaseVars,
                 targets, evictee, pendingBatches, engineClosed, view, boundVars>>

CloseTakesNotification(s) ==
  /\ pc[s] = "closing"
  /\ notificationSemaphore = None
  /\ notificationSemaphore' = s
  /\ Goto(s, "transition")
  /\ UNCHANGED <<mutationSemaphore, storeVars, subscribers, closed, streamVars,
                 leaseVars, targets, evictee, pendingBatches, engineClosed, view,
                 boundVars>>

CloseTakesMutation(s) ==
  /\ pc[s] = "transition"
  /\ mutationSemaphore = None
  /\ mutationSemaphore' = s
  /\ Goto(s, "finalizing")
  /\ UNCHANGED <<notificationSemaphore, storeVars, subscribers, closed, streamVars,
                 leaseVars, targets, evictee, pendingBatches, engineClosed, view,
                 boundVars>>

\* MUTANT of FinishClose: a subscription already closed is released again.
FinishCloseTwice(s) ==
  /\ pc[s] = "finalizing"
  /\ closed' = [closed EXCEPT ![s] = TRUE]
  /\ subscribers' = subscribers \ {s}
  /\ ReleaseExecution(QueryOf[s])
  /\ ended' = [ended EXCEPT ![s] = TRUE]
  /\ mutationSemaphore' = None
  /\ notificationSemaphore' = None
  /\ Goto(s, "done")
  /\ UNCHANGED <<storeVars, queue, cursor, targets, evictee, pendingBatches,
                 engineClosed, view, boundVars>>

\* MUTANT of FinishClose: a notification that captured it is not told.
FinishCloseUnflagged(s) ==
  /\ pc[s] = "finalizing"
  /\ IF closed[s]
     THEN UNCHANGED <<subscribers, leaseVars, ended>>
     ELSE /\ subscribers' = subscribers \ {s}
          /\ ReleaseExecution(QueryOf[s])
          /\ ended' = [ended EXCEPT ![s] = TRUE]
  /\ mutationSemaphore' = None
  /\ notificationSemaphore' = None
  /\ Goto(s, "done")
  /\ UNCHANGED <<storeVars, closed, queue, cursor, targets, evictee, pendingBatches,
                 engineClosed, view, boundVars>>

\* MUTANT of FinishClose: nobody ends the queue.
FinishCloseUnended(s) ==
  /\ pc[s] = "finalizing"
  /\ IF closed[s]
     THEN UNCHANGED <<closed, subscribers, leaseVars>>
     ELSE /\ closed' = [closed EXCEPT ![s] = TRUE]
          /\ subscribers' = subscribers \ {s}
          /\ ReleaseExecution(QueryOf[s])
  /\ mutationSemaphore' = None
  /\ notificationSemaphore' = None
  /\ Goto(s, "done")
  /\ UNCHANGED <<storeVars, queue, ended, cursor, targets, evictee, pendingBatches,
                 engineClosed, view, boundVars>>

FinishClose(s) ==
  /\ pc[s] = "finalizing"
  /\ IF closed[s]
     THEN UNCHANGED <<closed, subscribers, leaseVars, ended>>
     ELSE /\ closed' = [closed EXCEPT ![s] = TRUE]
          /\ subscribers' = subscribers \ {s}
          /\ ReleaseExecution(QueryOf[s])
          /\ ended' = [ended EXCEPT ![s] = TRUE]
  /\ mutationSemaphore' = None
  /\ notificationSemaphore' = None
  /\ Goto(s, "done")
  /\ UNCHANGED <<storeVars, queue, cursor, targets, evictee, pendingBatches,
                 engineClosed, view, boundVars>>

-------------------------------------------------------------------------------
(* Reset and engine close. *)

BeginReset(a) ==
  /\ pc[a] = "idle"
  /\ ~engineClosed
  /\ resets < MaxResets
  /\ resets' = resets + 1
  /\ Goto(a, "resetting")
  /\ UNCHANGED <<lockVars, storeVars, subscribers, closed, streamVars, leaseVars,
                 targets, evictee, pendingBatches, engineClosed, view, calls>>

\* Close raises the flag first; closing twice is allowed and finds nobody.
BeginEngineClose(a) ==
  /\ pc[a] = "idle"
  /\ engineClosed' = TRUE
  /\ Goto(a, "stopping")
  /\ UNCHANGED <<lockVars, storeVars, subscribers, closed, streamVars, leaseVars,
                 targets, evictee, pendingBatches, view, boundVars>>

AdminTakesNotification(a) ==
  /\ pc[a] \in {"resetting", "stopping"}
  /\ notificationSemaphore = None
  /\ notificationSemaphore' = a
  /\ Goto(a, IF pc[a] = "resetting" THEN "resetTransition" ELSE "stopTransition")
  /\ UNCHANGED <<mutationSemaphore, storeVars, subscribers, closed, streamVars,
                 leaseVars, targets, evictee, pendingBatches, engineClosed, view,
                 boundVars>>

\* Every registered subscriber is closed and unregistered, the registry of
\* executions is cleared, and both permits are kept for what follows.
DrainSubscribers(a) ==
  /\ mutationSemaphore = None
  /\ mutationSemaphore' = a
  /\ targets' = [targets EXCEPT ![a] = subscribers]
  /\ closed' = [s \in Subscribers |-> closed[s] \/ s \in subscribers]
  /\ subscribers' = {}
  /\ ClearExecutions
  /\ Goto(a, "draining")

ResetStore(a) ==
  /\ pc[a] = "resetTransition"
  /\ DrainSubscribers(a)
  /\ rows' = Empty
  /\ version' = 0
  /\ log' = <<Empty>>
  /\ pendingBatches' = 0
  /\ UNCHANGED <<notificationSemaphore, streamVars, evictee, engineClosed, view,
                 boundVars>>

CloseStore(a) ==
  /\ pc[a] = "stopTransition"
  /\ DrainSubscribers(a)
  /\ UNCHANGED <<notificationSemaphore, storeVars, streamVars, evictee, pendingBatches,
                 engineClosed, view, boundVars>>

\* subscriber.closeWithStatus; its release finds a cleared registry.
CloseWithStatus(a, s) ==
  /\ pc[a] = "draining"
  /\ s \in targets[a]
  /\ targets' = [targets EXCEPT ![a] = @ \ {s}]
  /\ closed' = [closed EXCEPT ![s] = TRUE]
  /\ ReleaseExecution(QueryOf[s])
  /\ EndWithStatus(s)
  /\ UNCHANGED <<pc, lockVars, storeVars, subscribers, evictee, pendingBatches,
                 engineClosed, view, boundVars>>

EndTransition(a) ==
  /\ pc[a] = "draining"
  /\ targets[a] = {}
  /\ mutationSemaphore' = None
  /\ notificationSemaphore' = None
  /\ Goto(a, "idle")
  /\ UNCHANGED <<storeVars, subscribers, closed, streamVars, leaseVars, targets, evictee,
                 pendingBatches, engineClosed, view, boundVars>>

-------------------------------------------------------------------------------

MutatorStep(m) ==
  \/ EnterMutation(m)
  \/ WriteRows(m)
  \/ CommitRows(m)
  \/ ChangeNothing(m)
  \/ FailMutation(m)
  \/ EnterNotification(m)
  \/ \E s \in Subscribers : \/ SkipClosed(m, s)
                             \/ NotifyUnchanged(m, s)
                             \/ NotifyDelta(m, s)
                             \/ NotifyDropped(m, s)
  \/ EvictSubscriber(m)
  \/ SendBackpressure(m)
  \/ EndMutation(m)

SubscribeStep(s) ==
  \/ EnterSubscribe(s)
  \/ AdmitSubscriber(s)
  \/ RejectSubscribe(s)
  \/ RegisterSubscriber(s)
  \/ OfferSnapshot(s)

CloseStep(s) ==
  \/ CloseTakesNotification(s)
  \/ CloseTakesMutation(s)
  \/ FinishClose(s)

AdminStep(a) ==
  \/ AdminTakesNotification(a)
  \/ ResetStore(a)
  \/ CloseStore(a)
  \/ \E s \in Subscribers : CloseWithStatus(a, s)
  \/ EndTransition(a)

Next ==
  \/ \E m \in Mutators : BeginMutation(m) \/ InterruptMutation(m) \/ MutatorStep(m)
  \/ \E s \in Subscribers :
       \/ BeginSubscribe(s)
       \/ InterruptSubscribe(s)
       \/ SubscribeStep(s)
       \/ TakeEvent(s)
       \/ BeginClose(s)
       \/ InterruptClose(s)
       \/ CloseStep(s)
  \/ \E a \in Admins : BeginReset(a) \/ BeginEngineClose(a) \/ AdminStep(a)

Spec == Init /\ [][Next]_vars

\* The scheduler runs every runnable fiber, and a semaphore wakes its waiters in
\* turn, so a fiber that can take a permit again and again gets it.  A consumer
\* keeps reading, and the finalizer of a finished stream closes it.  Nobody is
\* obliged to call anything.
Fairness ==
  /\ \A m \in Mutators : SF_vars(MutatorStep(m))
  /\ \A s \in Subscribers :
       /\ SF_vars(SubscribeStep(s))
       /\ SF_vars(CloseStep(s))
       /\ WF_vars(TakeEvent(s))
       /\ WF_vars(BeginClose(s) /\ ended[s] /\ queue[s] = <<>>)
  /\ \A a \in Admins : SF_vars(AdminStep(a))

FairSpec == Spec /\ Fairness

-------------------------------------------------------------------------------
(* Safety. *)

HoldsMutation(f) ==
  \/ f \in Mutators /\ pc[f] \in {"mutating", "written"}
  \/ f \in Subscribers /\ pc[f] \in {"subscribing", "admitted", "registered",
                                    "finalizing"}
  \/ f \in Admins /\ pc[f] = "draining"

HoldsNotification(f) ==
  \/ f \in Mutators /\ pc[f] \in {"notifying", "evicting", "clearing"}
  \/ f \in Subscribers /\ pc[f] \in {"transition", "finalizing"}
  \/ f \in Admins /\ pc[f] \in {"resetTransition", "stopTransition", "draining"}

\* A fiber is inside a section exactly when it holds the section's permit, so
\* two critical sections of the mutation code, of the notification code, or of a
\* transition that needs both, never overlap, and no permit is leaked or lost.
PermitsMatchSections ==
  \A f \in Fibers : /\ HoldsMutation(f) <=> mutationSemaphore = f
                    /\ HoldsNotification(f) <=> notificationSemaphore = f

\* The leases of a query's shared execution are the registered subscriptions of
\* that query, and the change journal is retained once per live execution: no
\* close, eviction, reset or engine close releases twice or forgets to release.
LeaseCounts ==
  /\ \A q \in Queries :
       refs[q] = Cardinality({s \in subscribers : QueryOf[s] = q})
  /\ journalRefs = Cardinality({q \in Queries : refs[q] > 0})

\* A subscription is registered exactly while it is open: from its registration
\* under the mutation semaphore until something closes it.
RegisteredWhileOpen ==
  \A s \in Subscribers :
    s \in subscribers <=>
      /\ ~closed[s]
      /\ pc[s] \in {"registered", "open", "closing", "transition", "finalizing"}

\* A close of the engine that found the flag down, or another after it, is yet
\* to drain the store.
Stopping(a) == pc[a] \in {"stopping", "stopTransition"}

\* Once the engine is closed a subscription is registered only while some close
\* has yet to drain the store: what was admitted before the flag went up is
\* registered before that drain and closed by it, and nothing is registered after.
ClosedEngineDrains ==
  engineClosed /\ subscribers # {} => \E a \in Admins : Stopping(a)

\* A delivery in progress reaches a registered subscription, whose execution is
\* leased, or one that is already marked closed: capturing subscribers under one
\* semaphore and notifying under the other never resurrects a subscription.
TargetsAlive ==
  \A m \in Mutators : \A s \in targets[m] :
    closed[s] \/ (s \in subscribers /\ refs[QueryOf[s]] > 0)

\* Every client rebuilds its result without a gap: snapshot first, each delta
\* starting at the version and the result the client holds, whatever commits,
\* notifications, evictions and resets interleave.
NeverStale == \A s \in Subscribers : view[s].status # "stale"

\* What an open subscription's client shows under version v is what its query
\* shows of the rows that version v committed.
ResultOfVersion ==
  \A s \in Subscribers :
    view[s].status = "ready" /\ ~closed[s] =>
      /\ view[s].version < Len(log)
      /\ view[s].rows = View[QueryOf[s]][log[view[s].version + 1]]

\* A closed subscription's queue is ended, or the fiber that closed it is still
\* at it: no reader is left waiting on a queue that nobody will end.
ClosedIsEnded ==
  \A s \in Subscribers : closed[s] =>
    \/ ended[s]
    \/ \E m \in Mutators : pc[m] = "clearing" /\ evictee[m] = s
    \/ \E a \in Admins : pc[a] = "draining" /\ s \in targets[a]

\* A subscription that the engine ended, for backpressure, reset or engine close,
\* has told its client so or still holds the status as its last event: clearing
\* the queue of a slow reader never costs it the reason.
EndIsTold ==
  \A s \in Subscribers :
    ended[s] /\ pc[s] = "open" =>
      \/ view[s].status = "closed"
      \/ queue[s] # <<>> /\ queue[s][Len(queue[s])].type = "status"

\* The health ledger never reports more mutation batches than are in flight, and
\* reports each of them as long as no reset intervened.
PendingBatches ==
  LET inFlight == Cardinality({m \in Mutators : pc[m] # "idle"}) IN
  /\ pendingBatches <= inFlight
  /\ resets = 0 => pendingBatches = inFlight

\* Once a queue is ended it only drains: a terminal status is the last event.
NothingAfterEnd ==
  [][\A s \in Subscribers : ended[s] =>
       \/ queue'[s] = queue[s]
       \/ queue[s] # <<>> /\ queue'[s] = Tail(queue[s])]_vars

-------------------------------------------------------------------------------
(* What the safety properties rest on: the inductive invariant of the proofs. *)

\* Until it is registered, a subscription cannot have been closed.
FreshIsOpen ==
  \A s \in Subscribers :
    pc[s] \in {"new", "waiting", "subscribing", "admitted"} => ~closed[s]

\* Who was captured for a notification has been registered.
TargetsRegistered ==
  \A m \in Mutators : \A s \in targets[m] : closed[s] \/ s \in subscribers

\* The subscriber a mutator evicts is known, and closed from the eviction on.
EvicteeKnown ==
  \A m \in Mutators : pc[m] \in {"evicting", "clearing"} =>
    /\ evictee[m] \in Subscribers
    /\ closed[evictee[m]] \/ (pc[m] = "evicting" /\ evictee[m] \in subscribers)

\* A reset or a close leaves no subscription registered behind it.
DrainedIsClosed ==
  \A a \in Admins : pc[a] = "draining" =>
    /\ subscribers = {}
    /\ \A s \in targets[a] : closed[s]

\* A subscription admitted before the flag went up is ahead of the drain.
AdmittedBeforeDrain ==
  \A s \in Subscribers : engineClosed /\ pc[s] = "admitted" =>
    \E a \in Admins : Stopping(a)

IInv ==
  /\ TypeOK
  /\ PermitsMatchSections
  /\ RegisteredWhileOpen
  /\ LeaseCounts
  /\ FreshIsOpen
  /\ TargetsRegistered
  /\ EvicteeKnown
  /\ DrainedIsClosed
  /\ ClosedIsEnded
  /\ ClosedEngineDrains
  /\ AdmittedBeforeDrain

-------------------------------------------------------------------------------
(* Liveness, under FairSpec. *)

\* Every call returns: the two semaphores, taken in different orders by
\* mutations, subscriptions and transitions, never deadlock.
CallsReturn ==
  /\ \A m \in Mutators : pc[m] # "idle" ~> pc[m] = "idle"
  /\ \A s \in Subscribers :
       /\ pc[s] = "waiting" ~> pc[s] \in {"open", "rejected"}
       /\ pc[s] = "closing" ~> pc[s] = "done"
  /\ \A a \in Admins : pc[a] # "idle" ~> pc[a] = "idle"

\* A subscription that the engine closes, for backpressure, reset or engine
\* close, and one that is open in an engine that was closed, does not leave its
\* reader waiting: it learns so or is closing itself.
ClientLearnsClosure ==
  \A s \in Subscribers :
    (closed[s] \/ engineClosed) /\ pc[s] = "open"
      ~> view[s].status = "closed" \/ pc[s] # "open"

\* When mutations stop, every subscription that stays open shows the latest
\* result: no commit is left undelivered.
Converges ==
  \A s \in Subscribers :
    <>[](pc[s] = "open" /\ ~closed[s] => view[s].rows = Result(QueryOf[s]))

===============================================================================
