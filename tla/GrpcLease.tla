------------------------------ MODULE GrpcLease ------------------------------
(***************************************************************************)
(* The gRPC lease manager: subscribers of a route share one upstream feed, *)
(* started by the first of them and stopped after the last.                *)
(*                                                                         *)
(* One semaphore of one permit serialises acquiring and releasing.  It is  *)
(* held across the start of a feed and across the degradation of a failed  *)
(* one; every other section under it has no suspension and is one action.  *)
(* Registering a subscription, closing a scope and deleting the rows of a  *)
(* released lease happen outside it.                                       *)
(*                                                                         *)
(* A feed's rows are abstract keys.  Storage keys begin with the route, so *)
(* successive leases of a route use the same ones.                         *)
(***************************************************************************)
EXTENDS Naturals, Sequences, FiniteSets

CONSTANTS
  Subscribers,  \* fibers calling subscribe once
  Routes,       \* feed keys: a feed and a value of its routeBy fields
  RouteOf,      \* [Subscribers -> Routes]
  Keys,         \* public row keys of a feed
  None,         \* no lease, no holder of the semaphore
  MaxLeases     \* bound on the leases created

\* An entry of the health ledger.
LedgerEntries == [status : {"ready", "stopping", "degraded"}, subscribers : Nat]

ASSUME LeaseAssumption ==
  /\ IsFiniteSet(Subscribers)
  /\ Subscribers \intersect Nat = {}
  /\ None \notin Subscribers \union Nat \union LedgerEntries
  /\ RouteOf \in [Subscribers -> Routes]
  /\ MaxLeases \in Nat

VARIABLES
  pc,        \* where each subscriber stands
  leaseOf,   \* the lease each subscriber acquired
  lock,      \* holder of the manager's permit: a subscriber or a lease's feed
  leases,    \* the map from routes to current leases
  lease,     \* every ActiveLease created, in order
  stored,    \* keys in the topic store, per route
  ledger,    \* leased feeds of the health ledger, per route
  internal,  \* each subscriber's subscription in the runtime core
  queue,     \* each subscriber's status queue
  told,      \* the subscriber's stream delivered the terminal status
  closed,    \* the manager's closed flag
  closing,   \* leases the manager's close has yet to finish
  coreClosed \* the runtime core was closed

vars == <<pc, leaseOf, lock, leases, lease, stored, ledger, internal, queue,
          told, closed, closing, coreClosed>>
managerVars == <<closed, closing, coreClosed>>
streamVars  == <<internal, queue, told>>

Init ==
  /\ pc = [s \in Subscribers |-> "idle"]
  /\ leaseOf = [s \in Subscribers |-> None]
  /\ lock = None
  /\ leases = [r \in Routes |-> None]
  /\ lease = <<>>
  /\ stored = [r \in Routes |-> {}]
  /\ ledger = [r \in Routes |-> None]
  /\ internal = [s \in Subscribers |-> "none"]
  /\ queue = [s \in Subscribers |-> "empty"]
  /\ told = [s \in Subscribers |-> FALSE]
  /\ closed = FALSE
  /\ closing = {}
  /\ coreClosed = FALSE

Goto(s, label) == pc' = [pc EXCEPT ![s] = label]
Current(s) == leases[RouteOf[s]]
ActiveLeases == 1..Len(lease)
RouteOfLease(l) == lease[l].route
-------------------------------------------------------------------------------
(* The health ledger.  Every entry but that of a starting feed is updated   *)
(* only if it exists.                                                       *)

HealthStarting(r) ==
  ledger' = [ledger EXCEPT ![r] = [status |-> "ready", subscribers |-> 1]]

SubscriberAdded(h) ==
  IF h = None THEN None ELSE [h EXCEPT !.subscribers = @ + 1]

HealthAdded(r) == ledger' = [ledger EXCEPT ![r] = SubscriberAdded(@)]

SubscriberRemoved(h) ==
  IF h = None \/ h.subscribers = 0 THEN h ELSE [h EXCEPT !.subscribers = @ - 1]

WithStatus(h, status) == IF h = None THEN None ELSE [h EXCEPT !.status = status]

HealthStatus(r, status) == ledger' = [ledger EXCEPT ![r] = WithStatus(@, status)]

HealthRemoved(r) == ledger' = [ledger EXCEPT ![r] = None]
-------------------------------------------------------------------------------
(* Acquiring a lease. *)

Subscribe(s) ==
  /\ pc[s] = "idle"
  /\ Goto(s, "waiting")
  /\ UNCHANGED <<leaseOf, lock, leases, lease, stored, ledger, streamVars, managerVars>>

InterruptWait(s) ==
  /\ pc[s] = "waiting"
  /\ Goto(s, "refused")
  /\ UNCHANGED <<leaseOf, lock, leases, lease, stored, ledger, streamVars, managerVars>>

Joinable(s) == Current(s) # None /\ lease[Current(s)].accepting

\* The manager is closed, the lease takes no more subscribers, or there is none
\* and making the client or the request of a new one fails.
Refuse(s) ==
  /\ pc[s] = "waiting"
  /\ lock = None
  /\ closed \/ ~Joinable(s)
  /\ Goto(s, "refused")
  /\ UNCHANGED <<leaseOf, lock, leases, lease, stored, ledger, streamVars, managerVars>>

Join(s) ==
  /\ pc[s] = "waiting"
  /\ lock = None
  /\ ~closed
  /\ Joinable(s)
  /\ lease' = [lease EXCEPT ![Current(s)].subscribers = @ + 1,
                            ![Current(s)].statusQueues = @ \union {s}]
  /\ leaseOf' = [leaseOf EXCEPT ![s] = Current(s)]
  /\ HealthAdded(RouteOf[s])
  /\ Goto(s, "subscribing")
  /\ UNCHANGED <<lock, leases, stored, streamVars, managerVars>>

\* The permit is kept while the feed starts.
StartLease(s) ==
  /\ pc[s] = "waiting"
  /\ lock = None
  /\ ~closed
  /\ Current(s) = None
  /\ Len(lease) < MaxLeases
  /\ lease' = Append(lease, [route         |-> RouteOf[s],
                             subscribers   |-> 1,
                             accepting     |-> TRUE,
                             released      |-> FALSE,
                             scope         |-> "open",
                             feed          |-> "starting",
                             batch         |-> {},
                             keys          |-> {},
                             statusQueues  |-> {s},
                             subscriptions |-> {}])
  /\ leases' = [leases EXCEPT ![RouteOf[s]] = Len(lease) + 1]
  /\ leaseOf' = [leaseOf EXCEPT ![s] = Len(lease) + 1]
  /\ HealthStarting(RouteOf[s])
  /\ lock' = s
  /\ Goto(s, "starting")
  /\ UNCHANGED <<stored, streamVars, managerVars>>

ForkFeed(s) ==
  /\ pc[s] = "starting"
  /\ lease' = [lease EXCEPT ![leaseOf[s]].feed = "running"]
  /\ lock' = None
  /\ Goto(s, "subscribing")
  /\ UNCHANGED <<leaseOf, leases, stored, ledger, streamVars, managerVars>>

\* MUTANT of FailStart: the failed lease stays in the map.
FailStartMapped(s) ==
  /\ pc[s] = "starting"
  /\ lease' = [lease EXCEPT ![leaseOf[s]].feed = "ended",
                            ![leaseOf[s]].scope = "closed",
                            ![leaseOf[s]].released = TRUE]
  /\ queue' = [queue EXCEPT ![s] = "shutdown"]
  /\ HealthRemoved(RouteOf[s])
  /\ lock' = None
  /\ Goto(s, "refused")
  /\ UNCHANGED <<leaseOf, leases, stored, internal, told, managerVars>>

\* feed.acquire fails, or the starting fiber is interrupted.
FailStart(s) ==
  /\ pc[s] = "starting"
  /\ lease' = [lease EXCEPT ![leaseOf[s]].feed = "ended",
                            ![leaseOf[s]].scope = "closed",
                            ![leaseOf[s]].released = TRUE]
  /\ queue' = [queue EXCEPT ![s] = "shutdown"]
  /\ HealthRemoved(RouteOf[s])
  /\ leases' = [leases EXCEPT ![RouteOf[s]] = None]
  /\ lock' = None
  /\ Goto(s, "refused")
  /\ UNCHANGED <<leaseOf, stored, internal, told, managerVars>>
-------------------------------------------------------------------------------
(* Subscriptions of an acquired lease. *)

\* Nothing checks that the lease still accepts subscribers.
Register(s) ==
  /\ pc[s] = "subscribing"
  /\ ~coreClosed
  /\ internal' = [internal EXCEPT ![s] = "open"]
  /\ lease' = [lease EXCEPT ![leaseOf[s]].subscriptions = @ \union {s}]
  /\ Goto(s, "open")
  /\ UNCHANGED <<leaseOf, lock, leases, stored, ledger, queue, told, managerVars>>

\* The engine refuses the query, or the fiber is interrupted.
FailSubscribe(s) ==
  /\ pc[s] = "subscribing"
  /\ Goto(s, "abandoning")
  /\ UNCHANGED <<leaseOf, lock, leases, lease, stored, ledger, streamVars, managerVars>>

\* The runtime core ends a subscription, for backpressure for example.
CoreEnds(s) ==
  /\ internal[s] = "open"
  /\ internal' = [internal EXCEPT ![s] = "closed"]
  /\ UNCHANGED <<pc, leaseOf, lock, leases, lease, stored, ledger, queue, told,
                 managerVars>>

\* close of the leased subscription, up to the call of the internal close.
Detach(s) ==
  /\ lease' = [lease EXCEPT ![leaseOf[s]].statusQueues = @ \ {s},
                            ![leaseOf[s]].subscriptions = @ \ {s}]
  /\ queue' = [queue EXCEPT ![s] = "shutdown"]
  /\ Goto(s, "closing")
  /\ UNCHANGED <<leaseOf, lock, leases, stored, ledger, internal, managerVars>>

CloseStream(s) ==
  /\ pc[s] = "open"
  /\ Detach(s)
  /\ UNCHANGED told

\* Once the internal events end, the stream takes one status from its queue,
\* or none if that is shut down, and closes the subscription.
EndStream(s) ==
  /\ pc[s] = "open"
  /\ internal[s] = "closed"
  /\ queue[s] # "empty"
  /\ told' = [told EXCEPT ![s] = queue[s] = "offered"]
  /\ Detach(s)

CloseInternal(s) ==
  /\ pc[s] = "closing"
  /\ internal' = [internal EXCEPT ![s] = "closed"]
  /\ Goto(s, "releasing")
  /\ UNCHANGED <<leaseOf, lock, leases, lease, stored, ledger, queue, told, managerVars>>
-------------------------------------------------------------------------------
(* Releasing a lease.  The lease is looked up by its route. *)

Leaving(s) == lock = None /\ pc[s] \in {"releasing", "abandoning"}

\* A subscriber that never registered leaves its status queue under the permit.
WithoutQueue(s) ==
  IF pc[s] = "abandoning"
  THEN [lease EXCEPT ![leaseOf[s]].statusQueues = @ \ {s}]
  ELSE lease

LeaveClosed(s) ==
  /\ Leaving(s)
  /\ Current(s) = None
  /\ lease' = WithoutQueue(s)
  /\ queue' = [queue EXCEPT ![s] = "shutdown"]
  /\ Goto(s, "done")
  /\ UNCHANGED <<leaseOf, lock, leases, stored, ledger, internal, told, managerVars>>

\* MUTANT of Leave: the last release keeps the permit for its cleanup.
LeaveHolding(s) ==
  /\ Leaving(s)
  /\ Current(s) # None
  /\ LET remaining == lease[Current(s)].subscribers - 1
     IN /\ lease' = [WithoutQueue(s) EXCEPT ![Current(s)].subscribers = remaining,
                                            ![Current(s)].accepting = @ /\ remaining > 0]
        /\ lock' = IF remaining > 0 THEN None ELSE s
        /\ Goto(s, IF remaining > 0 THEN "done" ELSE "cleaning")
  /\ ledger' = [ledger EXCEPT ![RouteOf[s]] = SubscriberRemoved(@)]
  /\ queue' = [queue EXCEPT ![s] = "shutdown"]
  /\ UNCHANGED <<leaseOf, leases, stored, internal, told, managerVars>>

Leave(s) ==
  /\ Leaving(s)
  /\ Current(s) # None
  /\ LET current   == lease[Current(s)]
         remaining == current.subscribers - 1
         left      == SubscriberRemoved(ledger[RouteOf[s]])
     IN /\ lease' = [WithoutQueue(s) EXCEPT
                       ![Current(s)].subscribers = remaining,
                       ![Current(s)].accepting = @ /\ remaining > 0]
        /\ ledger' = [ledger EXCEPT ![RouteOf[s]] =
                        IF remaining = 0 /\ current.accepting
                        THEN WithStatus(left, "stopping") ELSE left]
        /\ Goto(s, IF remaining > 0 THEN "done" ELSE "cleaning")
  /\ queue' = [queue EXCEPT ![s] = "shutdown"]
  /\ UNCHANGED <<leaseOf, lock, leases, stored, internal, told, managerVars>>

\* Closing a scope interrupts the feed and runs the release of its resources;
\* a scope someone else is closing is not waited for.
CloseScope(l) ==
  lease' = [lease EXCEPT ![l].scope = IF @ = "open" THEN "closing" ELSE @,
                         ![l].released = TRUE]

BeginCleanup(s) ==
  /\ pc[s] = "cleaning"
  /\ CloseScope(leaseOf[s])
  /\ Goto(s, IF lease[leaseOf[s]].scope = "open" THEN "stopping" ELSE "removing")
  /\ UNCHANGED <<leaseOf, lock, leases, stored, ledger, streamVars, managerVars>>

\* The scope is closed when its feed fiber has ended.
ScopeClosed(s) ==
  /\ pc[s] = "stopping"
  /\ lease[leaseOf[s]].feed = "ended"
  /\ lease' = [lease EXCEPT ![leaseOf[s]].scope = "closed"]
  /\ Goto(s, "removing")
  /\ UNCHANGED <<leaseOf, lock, leases, stored, ledger, streamVars, managerVars>>

\* Rows are deleted one by one, for as long as the deletions succeed.
DeleteRows(r, l) == stored' = [stored EXCEPT ![r] = @ \ lease[l].keys]

DeleteSomeRows(r, l) ==
  \E kept \in SUBSET (stored[r] \intersect lease[l].keys) :
    stored' = [stored EXCEPT ![r] = (@ \ lease[l].keys) \union kept]

\* MUTANT of DeleteLeaseRows: the rows of the feed are kept.
KeepLeaseRows(s) ==
  /\ pc[s] = "removing"
  /\ Goto(s, "removed")
  /\ UNCHANGED <<leaseOf, lock, leases, lease, stored, ledger, streamVars, managerVars>>

\* All rows are deleted; the lease then leaves the map under the permit.
DeleteLeaseRows(s) ==
  /\ pc[s] = "removing"
  /\ DeleteRows(RouteOf[s], leaseOf[s])
  /\ Goto(s, "removed")
  /\ UNCHANGED <<leaseOf, lock, leases, lease, ledger, streamVars, managerVars>>

RemoveLease(s) ==
  /\ pc[s] = "removed"
  /\ lock = None
  /\ leases' = [leases EXCEPT ![RouteOf[s]] = None]
  /\ HealthRemoved(RouteOf[s])
  /\ Goto(s, "done")
  /\ UNCHANGED <<leaseOf, lock, lease, stored, streamVars, managerVars>>

\* A row cannot be deleted: the lease stays in the map, accepting nobody.
FailCleanup(s) ==
  /\ pc[s] = "removing"
  /\ DeleteSomeRows(RouteOf[s], leaseOf[s])
  /\ HealthStatus(RouteOf[s], "degraded")
  /\ Goto(s, "done")
  /\ UNCHANGED <<leaseOf, lock, leases, lease, streamVars, managerVars>>
-------------------------------------------------------------------------------
(* The feed fiber of a lease. *)

\* A batch is mapped; its keys are recorded before it is published.
BeginPublish(l) ==
  /\ lease[l].feed = "running"
  /\ lease[l].scope = "open"
  /\ \E b \in SUBSET Keys \ {{}} :
       lease' = [lease EXCEPT ![l].feed = "publishing",
                              ![l].batch = b,
                              ![l].keys = @ \union b]
  /\ UNCHANGED <<pc, leaseOf, lock, leases, stored, ledger, streamVars, managerVars>>

\* The write is not interruptible: an interrupt ends the fiber after it.
EndPublish(l) ==
  /\ lease[l].feed = "publishing"
  /\ stored' = [stored EXCEPT ![lease[l].route] = @ \union lease[l].batch]
  /\ lease' = [lease EXCEPT ![l].batch = {},
                            ![l].feed = IF lease[l].scope = "open"
                                        THEN "running" ELSE "ended"]
  /\ UNCHANGED <<pc, leaseOf, lock, leases, ledger, streamVars, managerVars>>

\* The batch cannot be published, or the fiber is interrupted before the write.
FailPublish(l) ==
  /\ lease[l].feed = "publishing"
  /\ lease' = [lease EXCEPT ![l].batch = {},
                            ![l].feed = IF lease[l].scope = "open"
                                        THEN "failed" ELSE "ended"]
  /\ IF lease[l].scope = "open"
     THEN HealthStatus(lease[l].route, "degraded")
     ELSE UNCHANGED ledger
  /\ UNCHANGED <<pc, leaseOf, lock, leases, stored, streamVars, managerVars>>

\* A message cannot be mapped: the ledger is told before the feed is degraded.
FailMapping(l) ==
  /\ lease[l].feed = "running"
  /\ lease[l].scope = "open"
  /\ lease' = [lease EXCEPT ![l].feed = "failed"]
  /\ HealthStatus(lease[l].route, "degraded")
  /\ UNCHANGED <<pc, leaseOf, lock, leases, stored, streamVars, managerVars>>

\* The upstream completes, fails or, while subscribers are accepted, is
\* interrupted from within.
UpstreamEnds(l) ==
  /\ lease[l].feed = "running"
  /\ lease[l].scope = "open"
  /\ lease' = [lease EXCEPT ![l].feed = "failed"]
  /\ UNCHANGED <<pc, leaseOf, lock, leases, stored, ledger, streamVars, managerVars>>

UpstreamInterrupted(l) ==
  /\ lease[l].feed = "running"
  /\ ~lease[l].accepting
  /\ lease' = [lease EXCEPT ![l].feed = "ended"]
  /\ UNCHANGED <<pc, leaseOf, lock, leases, stored, ledger, streamVars, managerVars>>

BeginDegrade(l) ==
  /\ lease[l].feed = "failed"
  /\ lease[l].scope = "open"
  /\ lock = None
  /\ lock' = l
  /\ lease' = [lease EXCEPT ![l].feed = "degrading",
                            ![l].accepting = FALSE,
                            ![l].released = TRUE]
  /\ UNCHANGED <<pc, leaseOf, leases, stored, ledger, streamVars, managerVars>>

\* Subscribers are told whether or not the rows could be deleted.
DegradeRows(l) ==
  /\ lease[l].feed = "degrading"
  /\ HealthStatus(lease[l].route, "degraded")
  /\ DeleteSomeRows(lease[l].route, l)
  /\ lease' = [lease EXCEPT ![l].feed = "degraded"]
  /\ UNCHANGED <<pc, leaseOf, lock, leases, streamVars, managerVars>>

DegradeCloses(l) ==
  /\ lease[l].feed = "degraded"
  /\ internal' = [s \in Subscribers |->
                    IF s \in lease[l].subscriptions THEN "closed" ELSE internal[s]]
  /\ lease' = [lease EXCEPT ![l].feed = "closed"]
  /\ UNCHANGED <<pc, leaseOf, lock, leases, stored, ledger, queue, told, managerVars>>

Offered(l) == [s \in Subscribers |->
                 IF s \in lease[l].statusQueues /\ queue[s] = "empty"
                 THEN "offered" ELSE queue[s]]

\* MUTANT of DegradeTells: the status is not offered.
DegradeSilently(l) ==
  /\ lease[l].feed = "closed"
  /\ lease' = [lease EXCEPT ![l].feed = "ended"]
  /\ lock' = None
  /\ UNCHANGED <<pc, leaseOf, leases, stored, ledger, streamVars, managerVars>>

DegradeTells(l) ==
  /\ lease[l].feed = "closed"
  /\ queue' = Offered(l)
  /\ lease' = [lease EXCEPT ![l].feed = "ended"]
  /\ lock' = None
  /\ UNCHANGED <<pc, leaseOf, leases, stored, ledger, internal, told, managerVars>>

\* The scope's close interrupts the feed wherever it waits, and the permit a
\* degradation held is given back.
InterruptFeed(l) ==
  /\ lease[l].scope = "closing"
  /\ lease[l].feed \in {"running", "failed", "degrading", "degraded", "closed"}
  /\ lease' = [lease EXCEPT ![l].feed = "ended"]
  /\ lock' = IF lock = l THEN None ELSE lock
  /\ UNCHANGED <<pc, leaseOf, leases, stored, ledger, streamVars, managerVars>>
-------------------------------------------------------------------------------
(* Closing the manager, and after it the runtime core. *)

CloseManager ==
  /\ ~closed
  /\ lock = None
  /\ closed' = TRUE
  /\ LET mapped == {leases[r] : r \in Routes} \ {None}
     IN /\ closing' = mapped
        /\ lease' = [l \in ActiveLeases |->
                       IF l \in mapped
                       THEN [lease[l] EXCEPT !.accepting = FALSE] ELSE lease[l]]
  /\ leases' = [r \in Routes |-> None]
  /\ UNCHANGED <<pc, leaseOf, lock, stored, ledger, streamVars, coreClosed>>

ManagerClosesScope(l) ==
  /\ l \in closing
  /\ lease[l].scope = "open"
  /\ CloseScope(l)
  /\ UNCHANGED <<pc, leaseOf, lock, leases, stored, ledger, streamVars, managerVars>>

\* The manager waits for the feed only if it was the first to close the scope.
OthersClose(l) == \E s \in Subscribers : leaseOf[s] = l /\ pc[s] = "stopping"

\* Whatever is still registered is closed and told to end; failing deletions
\* are ignored.
ManagerFinishes(l) ==
  /\ l \in closing
  /\ lease[l].scope # "open"
  /\ lease[l].feed = "ended" \/ OthersClose(l)
  /\ internal' = [s \in Subscribers |->
                    IF s \in lease[l].subscriptions THEN "closed" ELSE internal[s]]
  /\ queue' = [s \in Subscribers |->
                 IF s \in lease[l].statusQueues THEN "shutdown" ELSE queue[s]]
  /\ lease' = [lease EXCEPT ![l].subscriptions = {},
                            ![l].statusQueues = {},
                            ![l].scope = IF OthersClose(l) THEN @ ELSE "closed"]
  /\ DeleteSomeRows(lease[l].route, l)
  /\ HealthRemoved(lease[l].route)
  /\ closing' = closing \ {l}
  /\ UNCHANGED <<pc, leaseOf, lock, leases, told, closed, coreClosed>>

\* The runtime closes its core after the manager.
CloseCore ==
  /\ closed
  /\ closing = {}
  /\ ~coreClosed
  /\ coreClosed' = TRUE
  /\ internal' = [s \in Subscribers |->
                    IF internal[s] = "open" THEN "closed" ELSE internal[s]]
  /\ UNCHANGED <<pc, leaseOf, lock, leases, lease, stored, ledger, queue, told,
                 closed, closing>>
-------------------------------------------------------------------------------
\* What a subscriber's fiber does once it runs, for better or worse.
SubscriberStep(s) ==
  \/ Refuse(s) \/ Join(s) \/ StartLease(s) \/ ForkFeed(s) \/ FailStart(s)
  \/ Register(s) \/ FailSubscribe(s) \/ EndStream(s) \/ CloseInternal(s)
  \/ LeaveClosed(s) \/ Leave(s) \/ BeginCleanup(s) \/ ScopeClosed(s)
  \/ DeleteLeaseRows(s) \/ RemoveLease(s) \/ FailCleanup(s)

\* What a feed's fiber does without waiting for its upstream.
FeedStep(l) ==
  \/ EndPublish(l) \/ FailPublish(l) \/ BeginDegrade(l) \/ DegradeRows(l)
  \/ DegradeCloses(l) \/ DegradeTells(l) \/ InterruptFeed(l)

FeedInput(l) ==
  BeginPublish(l) \/ FailMapping(l) \/ UpstreamEnds(l) \/ UpstreamInterrupted(l)

ManagerStep(l) == ManagerClosesScope(l) \/ ManagerFinishes(l)

Next ==
  \/ \E s \in Subscribers :
       \/ Subscribe(s) \/ InterruptWait(s) \/ CloseStream(s) \/ CoreEnds(s)
       \/ SubscriberStep(s)
  \/ \E l \in ActiveLeases : FeedStep(l) \/ FeedInput(l) \/ ManagerStep(l)
  \/ CloseManager
  \/ CloseCore

Spec == Init /\ [][Next]_vars

\* A fiber that can run eventually does; users, upstreams and whoever closes
\* the manager need not do anything.
FairSpec ==
  /\ Spec
  /\ \A s \in Subscribers : WF_vars(SubscriberStep(s))
  /\ \A l \in 1..MaxLeases : WF_vars(l \in ActiveLeases /\ FeedStep(l))
  /\ \A l \in 1..MaxLeases : WF_vars(l \in ActiveLeases /\ ManagerStep(l))
-------------------------------------------------------------------------------
Holding == {"starting", "subscribing", "abandoning", "open", "closing", "releasing"}
HoldersOf(l) == {s \in Subscribers : leaseOf[s] = l /\ pc[s] \in Holding}

\* While the manager is open, a mapped lease counts exactly the subscribers that
\* hold it, and so does the health ledger, which has an entry for mapped leases
\* only: acquiring, failing to start, failing to subscribe, closing, and the
\* last release each take their count back once.
CountsMatchHolders ==
  ~closed =>
    \A r \in Routes :
      /\ leases[r] = None <=> ledger[r] = None
      /\ leases[r] # None =>
           /\ lease[leases[r]].subscribers = Cardinality(HoldersOf(leases[r]))
           /\ ledger[r].subscribers = lease[leases[r]].subscribers

\* Every lease is cleaned up, once.  One that left the map has stopped its feed,
\* released its resources and deleted its rows, so that the next lease of the route
\* starts from nothing: whatever rows a route has were recorded by its lease.  One
\* without holders is being cleaned up by exactly one of its subscribers, or its
\* cleanup has failed and the ledger says so (grpc-lease-manager.ts
\* releaseLease, cleanupReleasedLease).
LeasesAreCleaned ==
  ~closed =>
    /\ \A l \in ActiveLeases :
         leases[lease[l].route] # l => lease[l].feed = "ended" /\ lease[l].released
    /\ \A r \in Routes :
         LET cleaners == {s \in Subscribers :
               /\ RouteOf[s] = r
               /\ pc[s] \in {"cleaning", "stopping", "removing", "removed"}}
         IN /\ stored[r] \subseteq IF leases[r] = None THEN {} ELSE lease[leases[r]].keys
            /\ cleaners # {} => leases[r] # None /\ HoldersOf(leases[r]) = {}
            /\ leases[r] # None /\ HoldersOf(leases[r]) = {} =>
                 \/ Cardinality(cleaners) = 1
                 \/ cleaners = {} /\ ledger[r].status = "degraded"

\* A subscription that was registered when its feed failed ends, with the
\* terminal status unless it was closed meanwhile.
FailureEndsSubscriptions ==
  \A s \in Subscribers :
    (pc[s] = "open" /\ internal[s] = "open" /\ lease[leaseOf[s]].feed = "failed")
      ~> pc[s] # "open"

\* Whoever waits for the permit, closes a subscription or cleans up returns:
\* closing a scope waits for a feed that may itself wait for the permit.
CallsReturn ==
  \A s \in Subscribers :
    pc[s] \notin {"idle", "open", "done", "refused"} ~>
      pc[s] \in {"open", "done", "refused"}

\* The test "keeps leased gRPC subscribers informed when upstream cleanup delete
\* fails" says subscribers are informed of their upstream's end.  One that
\* registers its subscription while or after its feed is degraded never is.
EverySubscriberInformed ==
  \A s \in Subscribers :
    (/\ pc[s] = "open"
     /\ leases[RouteOf[s]] = leaseOf[s]
     /\ lease[leaseOf[s]].feed = "ended") ~> pc[s] # "open"
===============================================================================
