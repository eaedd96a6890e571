---------------------------- MODULE GrpcLeaseProofs ----------------------------
(***************************************************************************)
(* Proofs about the gRPC lease manager, for any subscribers, routes, rows  *)
(* and number of leases.                                                   *)
(***************************************************************************)
EXTENDS GrpcLease, FiniteSetTheorems, TLAPS

Cleaning == {"cleaning", "stopping", "removing", "removed"}
SubscriberStates == {"idle", "waiting", "refused", "done"} \union Holding \union Cleaning
FeedStates == {"starting", "running", "publishing", "failed", "degrading", "degraded",
               "closed", "ended"}
LeaseRecords ==
  [route : Routes, subscribers : Nat, accepting : BOOLEAN, released : BOOLEAN,
   scope : {"open", "closing", "closed"}, feed : FeedStates,
   batch : SUBSET Keys, keys : SUBSET Keys,
   statusQueues : SUBSET Subscribers, subscriptions : SUBSET Subscribers]

CleanersOf(r) == {s \in Subscribers : RouteOf[s] = r /\ pc[s] \in Cleaning}

LeaseTypeOK ==
  /\ pc \in [Subscribers -> SubscriberStates]
  /\ leaseOf \in [Subscribers -> Nat \union {None}]
  /\ lock \in {None} \union Subscribers \union Nat
  /\ leases \in [Routes -> Nat \union {None}]
  /\ lease \in Seq(LeaseRecords)
  /\ stored \in [Routes -> SUBSET Keys]
  /\ ledger \in [Routes -> LedgerEntries \union {None}]
  /\ internal \in [Subscribers -> {"none", "open", "closed"}]
  /\ queue \in [Subscribers -> {"empty", "offered", "shutdown"}]
  /\ told \in [Subscribers -> BOOLEAN]
  /\ closed \in BOOLEAN
  /\ closing \in SUBSET ActiveLeases
  /\ coreClosed \in BOOLEAN

\* The map, the subscribers and the leases agree about who has which lease.
MapAgrees ==
  /\ \A r \in Routes :
       leases[r] # None => leases[r] \in ActiveLeases /\ lease[leases[r]].route = r
  /\ \A s \in Subscribers :
       pc[s] \in Holding \union Cleaning =>
         /\ leaseOf[s] \in ActiveLeases
         /\ lease[leaseOf[s]].route = RouteOf[s]
         /\ ~closed => leases[RouteOf[s]] = leaseOf[s]
  /\ closed => \A r \in Routes : leases[r] = None
  /\ ~closed => closing = {}

\* A starting subscriber holds the permit and has the lease, and its route, to
\* itself; a feed that degrades holds the permit.
PermitHeld ==
  /\ \A s \in Subscribers :
       pc[s] = "starting" =>
         /\ lock = s
         /\ lease[leaseOf[s]].feed = "starting"
         /\ lease[leaseOf[s]].subscribers = 1
         /\ lease[leaseOf[s]].keys = {}
  /\ \A l \in ActiveLeases :
       lease[l].feed \in {"degrading", "degraded", "closed"} => lock = l

\* A route's lease and ledger count the holders, of whom there are some for as
\* long as the lease accepts more.
Counted(r) ==
  /\ leases[r] = None <=> ledger[r] = None
  /\ leases[r] # None =>
       /\ lease[leases[r]].subscribers = Cardinality(HoldersOf(leases[r]))
       /\ ledger[r].subscribers = lease[leases[r]].subscribers
       /\ lease[leases[r]].accepting => lease[leases[r]].subscribers > 0

CountsHolders == ~closed => \A r \in Routes : Counted(r)

\* One subscriber cleans a route, after the last holder has left.
OneCleans ==
  ~closed =>
    \A s \in Subscribers :
      pc[s] \in Cleaning =>
        /\ lease[leaseOf[s]].subscribers = 0
        /\ \A t \in Subscribers : pc[t] \in Cleaning /\ RouteOf[t] = RouteOf[s] => t = s

\* How far the cleanup of a lease has come: its scope is open until someone cleans
\* it, its feed has ended when the rows are deleted, and a route is cleaned or its
\* cleanup has failed.
ScopesOpen ==
  \A l \in ActiveLeases :
    leases[lease[l].route] = l /\ lease[l].subscribers > 0 => lease[l].scope = "open"
Stage(s) ==
  /\ pc[s] = "cleaning" => lease[leaseOf[s]].scope = "open"
  /\ pc[s] \in {"stopping", "removing", "removed"} => lease[leaseOf[s]].released
  /\ pc[s] \in {"removing", "removed"} => lease[leaseOf[s]].feed = "ended"
  /\ pc[s] = "removed" => stored[RouteOf[s]] = {}
Remembered(r) ==
  leases[r] # None /\ lease[leases[r]].subscribers = 0 =>
    CleanersOf(r) # {} \/ ledger[r].status = "degraded"
CleanupStages ==
  ~closed =>
    ScopesOpen /\ (\A s \in Subscribers : Stage(s)) /\ (\A r \in Routes : Remembered(r))

\* A lease that is not mapped is over, and a route's rows are its lease's.
RowsAreOwned ==
  /\ \A l \in ActiveLeases : lease[l].batch \subseteq lease[l].keys
  /\ ~closed =>
       /\ \A l \in ActiveLeases :
            leases[lease[l].route] # l => lease[l].feed = "ended" /\ lease[l].released
       /\ \A r \in Routes :
            stored[r] \subseteq IF leases[r] = None THEN {} ELSE lease[leases[r]].keys

LeaseInv ==
  /\ LeaseTypeOK
  /\ MapAgrees
  /\ PermitHeld
  /\ CountsHolders
  /\ OneCleans
  /\ CleanupStages
  /\ RowsAreOwned
-------------------------------------------------------------------------------
(* What a step does to the list of leases. *)

\* All leases but l stay as they are, and l becomes rec.
Becomes(l, rec) ==
  /\ l \in ActiveLeases
  /\ rec \in LeaseRecords
  /\ lease' \in Seq(LeaseRecords)
  /\ ActiveLeases' = ActiveLeases
  /\ \A k \in ActiveLeases : lease'[k] = IF k = l THEN rec ELSE lease[k]

\* A lease that is given another record becomes it, and no other does.
LEMMA Updated ==
  ASSUME LeaseTypeOK, NEW l \in ActiveLeases, NEW rec \in LeaseRecords,
         lease' = [lease EXCEPT ![l] = rec]
  PROVE  Becomes(l, rec)
<1>1. lease \in Seq(LeaseRecords)
  BY DEF LeaseTypeOK
<1>2. Len(lease') = Len(lease)
  BY <1>1
<1> QED
  BY <1>1, <1>2 DEF ActiveLeases, Becomes

\* A lease of the list has a record.
LEMMA LeaseHolds ==
  ASSUME LeaseTypeOK, NEW l \in ActiveLeases
  PROVE  lease[l] \in LeaseRecords
<1>1. lease \in Seq(LeaseRecords)
  BY DEF LeaseTypeOK
<1> QED
  BY <1>1 DEF ActiveLeases

\* The lease of a busy subscriber is one of the list.
LEMMA OwnLease ==
  ASSUME LeaseTypeOK, MapAgrees, NEW s \in Subscribers, pc[s] \in Holding \union Cleaning
  PROVE  leaseOf[s] \in ActiveLeases /\ lease[leaseOf[s]] \in LeaseRecords
BY LeaseHolds DEF MapAgrees


\* Whoever leaves a mapped lease leaves the one it holds, and is counted there.
LEMMA LeaveOwn ==
  ASSUME LeaseTypeOK, MapAgrees, CountsHolders, NEW s \in Subscribers, Leave(s)
  PROVE  /\ ~closed
         /\ Current(s) = leaseOf[s]
         /\ lease[leaseOf[s]].subscribers \in Nat \ {0}
         /\ lease[leaseOf[s]].subscribers = Cardinality(HoldersOf(leaseOf[s]))
<1>1. pc[s] \in Holding /\ RouteOf[s] \in Routes /\ leases[RouteOf[s]] # None
  BY LeaseAssumption DEF Leave, Leaving, Holding, Current
<1>2. ~closed
  BY <1>1 DEF MapAgrees, LeaseTypeOK
<1>3. leases[RouteOf[s]] = leaseOf[s] /\ leaseOf[s] \in ActiveLeases
  BY <1>1, <1>2 DEF MapAgrees
<1>4. lease[leaseOf[s]].subscribers = Cardinality(HoldersOf(leaseOf[s]))
  BY <1>1, <1>2, <1>3 DEF CountsHolders, Counted
<1>5. s \in HoldersOf(leaseOf[s])
  BY <1>1 DEF HoldersOf
<1>6. IsFiniteSet(HoldersOf(leaseOf[s]))
  BY LeaseAssumption, FS_Subset DEF HoldersOf
<1>7. Cardinality(HoldersOf(leaseOf[s])) \in Nat \ {0}
  BY <1>5, <1>6, FS_CardinalityType, FS_EmptySet
<1> QED
  BY <1>2, <1>3, <1>4, <1>7 DEF Current

\* A subscriber that joins is counted and can be told by its lease.
LEMMA JoinLease ==
  ASSUME LeaseTypeOK, MapAgrees, NEW s \in Subscribers, Join(s)
  PROVE  Becomes(Current(s), [lease[Current(s)] EXCEPT
      !.subscribers = @ + 1, !.statusQueues = @ \union {s}])
<1> DEFINE rec == [lease[Current(s)] EXCEPT
      !.subscribers = @ + 1, !.statusQueues = @ \union {s}]
<1>1. Current(s) \in ActiveLeases /\ lease[Current(s)] \in LeaseRecords
  BY LeaseAssumption, LeaseHolds DEF Join, Joinable, Current, MapAgrees
<1>2. rec \in LeaseRecords
  <2>1. lease[Current(s)].subscribers + 1 \in Nat
    BY <1>1 DEF LeaseRecords
  <2>2. lease[Current(s)].statusQueues \union {s} \in SUBSET Subscribers
    BY <1>1 DEF LeaseRecords
  <2> QED
    BY <1>1, <2>1, <2>2 DEF LeaseRecords
<1>3. lease' = [lease EXCEPT ![Current(s)] = rec]
  BY DEF Join
<1> HIDE DEF rec
<1>4. Becomes(Current(s), rec)
  BY <1>1, <1>2, <1>3, Updated
<1> QED
  BY <1>4 DEF rec

\* A start that forks the feed sets the lease going.
LEMMA ForkFeedLease ==
  ASSUME LeaseTypeOK, MapAgrees, NEW s \in Subscribers, ForkFeed(s)
  PROVE  Becomes(leaseOf[s], [lease[leaseOf[s]] EXCEPT
      !.feed = "running"])
<1> DEFINE rec == [lease[leaseOf[s]] EXCEPT
      !.feed = "running"]
<1>1. leaseOf[s] \in ActiveLeases /\ lease[leaseOf[s]] \in LeaseRecords
  BY OwnLease DEF ForkFeed, Holding, Cleaning
<1>2. rec \in LeaseRecords
  BY <1>1 DEF LeaseRecords, FeedStates
<1>3. lease' = [lease EXCEPT ![leaseOf[s]] = rec]
  BY DEF ForkFeed
<1> HIDE DEF rec
<1>4. Becomes(leaseOf[s], rec)
  BY <1>1, <1>2, <1>3, Updated
<1> QED
  BY <1>4 DEF rec

\* A start that fails closes the scope, and there is no feed.
LEMMA FailStartLease ==
  ASSUME LeaseTypeOK, MapAgrees, NEW s \in Subscribers, FailStart(s)
  PROVE  Becomes(leaseOf[s], [lease[leaseOf[s]] EXCEPT
      !.feed = "ended", !.scope = "closed", !.released = TRUE])
<1> DEFINE rec == [lease[leaseOf[s]] EXCEPT
      !.feed = "ended", !.scope = "closed", !.released = TRUE]
<1>1. leaseOf[s] \in ActiveLeases /\ lease[leaseOf[s]] \in LeaseRecords
  BY OwnLease DEF FailStart, Holding, Cleaning
<1>2. rec \in LeaseRecords
  BY <1>1 DEF LeaseRecords, FeedStates
<1>3. lease' = [lease EXCEPT ![leaseOf[s]] = rec]
  BY DEF FailStart
<1> HIDE DEF rec
<1>4. Becomes(leaseOf[s], rec)
  BY <1>1, <1>2, <1>3, Updated
<1> QED
  BY <1>4 DEF rec

\* A subscriber that registers is one of the subscriptions its lease ends.
LEMMA RegisterLease ==
  ASSUME LeaseTypeOK, MapAgrees, NEW s \in Subscribers, Register(s)
  PROVE  Becomes(leaseOf[s], [lease[leaseOf[s]] EXCEPT
      !.subscriptions = @ \union {s}])
<1> DEFINE rec == [lease[leaseOf[s]] EXCEPT
      !.subscriptions = @ \union {s}]
<1>1. leaseOf[s] \in ActiveLeases /\ lease[leaseOf[s]] \in LeaseRecords
  BY OwnLease DEF Register, Holding, Cleaning
<1>2. rec \in LeaseRecords
  BY <1>1 DEF LeaseRecords, FeedStates
<1>3. lease' = [lease EXCEPT ![leaseOf[s]] = rec]
  BY DEF Register
<1> HIDE DEF rec
<1>4. Becomes(leaseOf[s], rec)
  BY <1>1, <1>2, <1>3, Updated
<1> QED
  BY <1>4 DEF rec

\* A stream that detaches leaves the subscriptions.
LEMMA DetachLease ==
  ASSUME LeaseTypeOK, MapAgrees, NEW s \in Subscribers, pc[s] \in Holding, Detach(s)
  PROVE  Becomes(leaseOf[s], [lease[leaseOf[s]] EXCEPT
      !.statusQueues = @ \ {s}, !.subscriptions = @ \ {s}])
<1> DEFINE rec == [lease[leaseOf[s]] EXCEPT
      !.statusQueues = @ \ {s}, !.subscriptions = @ \ {s}]
<1>1. leaseOf[s] \in ActiveLeases /\ lease[leaseOf[s]] \in LeaseRecords
  BY OwnLease DEF Detach, Holding, Cleaning
<1>2. rec \in LeaseRecords
  BY <1>1 DEF LeaseRecords, FeedStates
<1>3. lease' = [lease EXCEPT ![leaseOf[s]] = rec]
  BY DEF Detach
<1> HIDE DEF rec
<1>4. Becomes(leaseOf[s], rec)
  BY <1>1, <1>2, <1>3, Updated
<1> QED
  BY <1>4 DEF rec

\* A subscriber that leaves after the close is no longer counted.
LEMMA LeaveClosedLease ==
  ASSUME LeaseTypeOK, MapAgrees, NEW s \in Subscribers, LeaveClosed(s)
  PROVE  Becomes(leaseOf[s], [lease[leaseOf[s]] EXCEPT
      !.statusQueues = IF pc[s] = "abandoning" THEN @ \ {s} ELSE @])
<1> DEFINE rec == [lease[leaseOf[s]] EXCEPT
      !.statusQueues = IF pc[s] = "abandoning" THEN @ \ {s} ELSE @]
<1>1. leaseOf[s] \in ActiveLeases /\ lease[leaseOf[s]] \in LeaseRecords
  BY OwnLease DEF LeaveClosed, Leaving, Holding, Cleaning
<1>2. rec \in LeaseRecords
  BY <1>1 DEF LeaseRecords, FeedStates
<1>3. lease' = [lease EXCEPT ![leaseOf[s]] = rec]
  <2>1. CASE pc[s] = "abandoning"
    BY <1>1, <2>1 DEF LeaveClosed, WithoutQueue
  <2>2. CASE pc[s] # "abandoning"
    <3>1. rec = lease[leaseOf[s]]
      BY <1>1, <2>2 DEF LeaseRecords
    <3>2. lease' = lease /\ lease \in Seq(LeaseRecords)
      BY <2>2 DEF LeaveClosed, WithoutQueue, LeaseTypeOK
    <3> QED
      BY <1>1, <3>1, <3>2 DEF ActiveLeases
  <2> QED
    BY <2>1, <2>2
<1> HIDE DEF rec
<1>4. Becomes(leaseOf[s], rec)
  BY <1>1, <1>2, <1>3, Updated
<1> QED
  BY <1>4 DEF rec

\* A subscriber that leaves is no longer counted, and the last refuses others.
LEMMA LeaveLease ==
  ASSUME LeaseTypeOK, MapAgrees, CountsHolders, NEW s \in Subscribers, Leave(s)
  PROVE  Becomes(leaseOf[s], [lease[leaseOf[s]] EXCEPT
      !.statusQueues = IF pc[s] = "abandoning" THEN @ \ {s} ELSE @,
      !.subscribers = lease[leaseOf[s]].subscribers - 1,
      !.accepting = @ /\ lease[leaseOf[s]].subscribers - 1 > 0])
<1> DEFINE rec == [lease[leaseOf[s]] EXCEPT
      !.statusQueues = IF pc[s] = "abandoning" THEN @ \ {s} ELSE @,
      !.subscribers = lease[leaseOf[s]].subscribers - 1,
      !.accepting = @ /\ lease[leaseOf[s]].subscribers - 1 > 0]
<1>1. leaseOf[s] \in ActiveLeases /\ lease[leaseOf[s]] \in LeaseRecords
  BY OwnLease DEF Leave, Leaving, Holding, Cleaning
<1>2. Current(s) = leaseOf[s] /\ lease[leaseOf[s]].subscribers \in Nat \ {0}
  BY LeaveOwn
<1>3. rec \in LeaseRecords
  <2>1. lease[leaseOf[s]].subscribers - 1 \in Nat
    BY <1>1, <1>2 DEF LeaseRecords
  <2>2. lease[leaseOf[s]].statusQueues \ {s} \in SUBSET Subscribers
    BY <1>1 DEF LeaseRecords
  <2> QED
    BY <1>1, <2>1, <2>2 DEF LeaseRecords
<1>4. lease' = [lease EXCEPT ![leaseOf[s]] = rec]
  BY <1>1, <1>2 DEF Leave, WithoutQueue, LeaseTypeOK, LeaseRecords
<1> HIDE DEF rec
<1>5. Becomes(leaseOf[s], rec)
  BY <1>1, <1>3, <1>4, Updated
<1> QED
  BY <1>5 DEF rec

\* A cleanup that begins closes the scope if it is open.
LEMMA BeginCleanupLease ==
  ASSUME LeaseTypeOK, MapAgrees, NEW s \in Subscribers, BeginCleanup(s)
  PROVE  Becomes(leaseOf[s], [lease[leaseOf[s]] EXCEPT
      !.scope = IF @ = "open" THEN "closing" ELSE @, !.released = TRUE])
<1> DEFINE rec == [lease[leaseOf[s]] EXCEPT
      !.scope = IF @ = "open" THEN "closing" ELSE @, !.released = TRUE]
<1>1. leaseOf[s] \in ActiveLeases /\ lease[leaseOf[s]] \in LeaseRecords
  BY OwnLease DEF BeginCleanup, Holding, Cleaning
<1>2. rec \in LeaseRecords
  BY <1>1 DEF LeaseRecords, FeedStates
<1>3. lease' = [lease EXCEPT ![leaseOf[s]] = rec]
  BY DEF BeginCleanup, CloseScope
<1> HIDE DEF rec
<1>4. Becomes(leaseOf[s], rec)
  BY <1>1, <1>2, <1>3, Updated
<1> QED
  BY <1>4 DEF rec

\* A cleanup that has closed the scope leaves it closed.
LEMMA ScopeClosedLease ==
  ASSUME LeaseTypeOK, MapAgrees, NEW s \in Subscribers, ScopeClosed(s)
  PROVE  Becomes(leaseOf[s], [lease[leaseOf[s]] EXCEPT
      !.scope = "closed"])
<1> DEFINE rec == [lease[leaseOf[s]] EXCEPT
      !.scope = "closed"]
<1>1. leaseOf[s] \in ActiveLeases /\ lease[leaseOf[s]] \in LeaseRecords
  BY OwnLease DEF ScopeClosed, Holding, Cleaning
<1>2. rec \in LeaseRecords
  BY <1>1 DEF LeaseRecords, FeedStates
<1>3. lease' = [lease EXCEPT ![leaseOf[s]] = rec]
  BY DEF ScopeClosed
<1> HIDE DEF rec
<1>4. Becomes(leaseOf[s], rec)
  BY <1>1, <1>2, <1>3, Updated
<1> QED
  BY <1>4 DEF rec

\* A publication that ends frees the feed.
LEMMA EndPublishLease ==
  ASSUME LeaseTypeOK, NEW l \in ActiveLeases, EndPublish(l)
  PROVE  Becomes(l, [lease[l] EXCEPT
      !.batch = {}, !.feed = IF lease[l].scope = "open" THEN "running" ELSE "ended"])
<1> DEFINE rec == [lease[l] EXCEPT
      !.batch = {}, !.feed = IF lease[l].scope = "open" THEN "running" ELSE "ended"]
<1>1. l \in ActiveLeases /\ lease[l] \in LeaseRecords
  BY LeaseHolds
<1>2. rec \in LeaseRecords
  BY <1>1 DEF LeaseRecords, FeedStates
<1>3. lease' = [lease EXCEPT ![l] = rec]
  BY DEF EndPublish
<1> HIDE DEF rec
<1>4. Becomes(l, rec)
  BY <1>1, <1>2, <1>3, Updated
<1> QED
  BY <1>4 DEF rec

\* A publication that fails makes the feed fail, unless its scope is closing.
LEMMA FailPublishLease ==
  ASSUME LeaseTypeOK, NEW l \in ActiveLeases, FailPublish(l)
  PROVE  Becomes(l, [lease[l] EXCEPT
      !.batch = {}, !.feed = IF lease[l].scope = "open" THEN "failed" ELSE "ended"])
<1> DEFINE rec == [lease[l] EXCEPT
      !.batch = {}, !.feed = IF lease[l].scope = "open" THEN "failed" ELSE "ended"]
<1>1. l \in ActiveLeases /\ lease[l] \in LeaseRecords
  BY LeaseHolds
<1>2. rec \in LeaseRecords
  BY <1>1 DEF LeaseRecords, FeedStates
<1>3. lease' = [lease EXCEPT ![l] = rec]
  BY DEF FailPublish
<1> HIDE DEF rec
<1>4. Becomes(l, rec)
  BY <1>1, <1>2, <1>3, Updated
<1> QED
  BY <1>4 DEF rec

\* A mapping that fails makes the feed fail.
LEMMA FailMappingLease ==
  ASSUME LeaseTypeOK, NEW l \in ActiveLeases, FailMapping(l)
  PROVE  Becomes(l, [lease[l] EXCEPT
      !.feed = "failed"])
<1> DEFINE rec == [lease[l] EXCEPT
      !.feed = "failed"]
<1>1. l \in ActiveLeases /\ lease[l] \in LeaseRecords
  BY LeaseHolds
<1>2. rec \in LeaseRecords
  BY <1>1 DEF LeaseRecords, FeedStates
<1>3. lease' = [lease EXCEPT ![l] = rec]
  BY DEF FailMapping
<1> HIDE DEF rec
<1>4. Becomes(l, rec)
  BY <1>1, <1>2, <1>3, Updated
<1> QED
  BY <1>4 DEF rec

\* An upstream that ends is a failure of the feed.
LEMMA UpstreamEndsLease ==
  ASSUME LeaseTypeOK, NEW l \in ActiveLeases, UpstreamEnds(l)
  PROVE  Becomes(l, [lease[l] EXCEPT
      !.feed = "failed"])
<1> DEFINE rec == [lease[l] EXCEPT
      !.feed = "failed"]
<1>1. l \in ActiveLeases /\ lease[l] \in LeaseRecords
  BY LeaseHolds
<1>2. rec \in LeaseRecords
  BY <1>1 DEF LeaseRecords, FeedStates
<1>3. lease' = [lease EXCEPT ![l] = rec]
  BY DEF UpstreamEnds
<1> HIDE DEF rec
<1>4. Becomes(l, rec)
  BY <1>1, <1>2, <1>3, Updated
<1> QED
  BY <1>4 DEF rec

\* An upstream that is interrupted ends the feed.
LEMMA UpstreamInterruptedLease ==
  ASSUME LeaseTypeOK, NEW l \in ActiveLeases, UpstreamInterrupted(l)
  PROVE  Becomes(l, [lease[l] EXCEPT
      !.feed = "ended"])
<1> DEFINE rec == [lease[l] EXCEPT
      !.feed = "ended"]
<1>1. l \in ActiveLeases /\ lease[l] \in LeaseRecords
  BY LeaseHolds
<1>2. rec \in LeaseRecords
  BY <1>1 DEF LeaseRecords, FeedStates
<1>3. lease' = [lease EXCEPT ![l] = rec]
  BY DEF UpstreamInterrupted
<1> HIDE DEF rec
<1>4. Becomes(l, rec)
  BY <1>1, <1>2, <1>3, Updated
<1> QED
  BY <1>4 DEF rec

\* A degradation that begins refuses others.
LEMMA BeginDegradeLease ==
  ASSUME LeaseTypeOK, NEW l \in ActiveLeases, BeginDegrade(l)
  PROVE  Becomes(l, [lease[l] EXCEPT
      !.feed = "degrading", !.accepting = FALSE, !.released = TRUE])
<1> DEFINE rec == [lease[l] EXCEPT
      !.feed = "degrading", !.accepting = FALSE, !.released = TRUE]
<1>1. l \in ActiveLeases /\ lease[l] \in LeaseRecords
  BY LeaseHolds
<1>2. rec \in LeaseRecords
  BY <1>1 DEF LeaseRecords, FeedStates
<1>3. lease' = [lease EXCEPT ![l] = rec]
  BY DEF BeginDegrade
<1> HIDE DEF rec
<1>4. Becomes(l, rec)
  BY <1>1, <1>2, <1>3, Updated
<1> QED
  BY <1>4 DEF rec

\* A degradation that deletes the rows goes on to the scope.
LEMMA DegradeRowsLease ==
  ASSUME LeaseTypeOK, NEW l \in ActiveLeases, DegradeRows(l)
  PROVE  Becomes(l, [lease[l] EXCEPT
      !.feed = "degraded"])
<1> DEFINE rec == [lease[l] EXCEPT
      !.feed = "degraded"]
<1>1. l \in ActiveLeases /\ lease[l] \in LeaseRecords
  BY LeaseHolds
<1>2. rec \in LeaseRecords
  BY <1>1 DEF LeaseRecords, FeedStates
<1>3. lease' = [lease EXCEPT ![l] = rec]
  BY DEF DegradeRows
<1> HIDE DEF rec
<1>4. Becomes(l, rec)
  BY <1>1, <1>2, <1>3, Updated
<1> QED
  BY <1>4 DEF rec

\* A degradation that closes the scope goes on to the subscribers.
LEMMA DegradeClosesLease ==
  ASSUME LeaseTypeOK, NEW l \in ActiveLeases, DegradeCloses(l)
  PROVE  Becomes(l, [lease[l] EXCEPT
      !.feed = "closed"])
<1> DEFINE rec == [lease[l] EXCEPT
      !.feed = "closed"]
<1>1. l \in ActiveLeases /\ lease[l] \in LeaseRecords
  BY LeaseHolds
<1>2. rec \in LeaseRecords
  BY <1>1 DEF LeaseRecords, FeedStates
<1>3. lease' = [lease EXCEPT ![l] = rec]
  BY DEF DegradeCloses
<1> HIDE DEF rec
<1>4. Becomes(l, rec)
  BY <1>1, <1>2, <1>3, Updated
<1> QED
  BY <1>4 DEF rec

\* A degradation that tells the subscribers ends the feed.
LEMMA DegradeTellsLease ==
  ASSUME LeaseTypeOK, NEW l \in ActiveLeases, DegradeTells(l)
  PROVE  Becomes(l, [lease[l] EXCEPT
      !.feed = "ended"])
<1> DEFINE rec == [lease[l] EXCEPT
      !.feed = "ended"]
<1>1. l \in ActiveLeases /\ lease[l] \in LeaseRecords
  BY LeaseHolds
<1>2. rec \in LeaseRecords
  BY <1>1 DEF LeaseRecords, FeedStates
<1>3. lease' = [lease EXCEPT ![l] = rec]
  BY DEF DegradeTells
<1> HIDE DEF rec
<1>4. Becomes(l, rec)
  BY <1>1, <1>2, <1>3, Updated
<1> QED
  BY <1>4 DEF rec

\* A feed that is interrupted ends.
LEMMA InterruptFeedLease ==
  ASSUME LeaseTypeOK, NEW l \in ActiveLeases, InterruptFeed(l)
  PROVE  Becomes(l, [lease[l] EXCEPT
      !.feed = "ended"])
<1> DEFINE rec == [lease[l] EXCEPT
      !.feed = "ended"]
<1>1. l \in ActiveLeases /\ lease[l] \in LeaseRecords
  BY LeaseHolds
<1>2. rec \in LeaseRecords
  BY <1>1 DEF LeaseRecords, FeedStates
<1>3. lease' = [lease EXCEPT ![l] = rec]
  BY DEF InterruptFeed
<1> HIDE DEF rec
<1>4. Becomes(l, rec)
  BY <1>1, <1>2, <1>3, Updated
<1> QED
  BY <1>4 DEF rec

\* A manager that closes closes the scope of each lease.
LEMMA ManagerClosesScopeLease ==
  ASSUME LeaseTypeOK, NEW l \in ActiveLeases, ManagerClosesScope(l)
  PROVE  Becomes(l, [lease[l] EXCEPT
      !.scope = IF @ = "open" THEN "closing" ELSE @, !.released = TRUE])
<1> DEFINE rec == [lease[l] EXCEPT
      !.scope = IF @ = "open" THEN "closing" ELSE @, !.released = TRUE]
<1>1. l \in ActiveLeases /\ lease[l] \in LeaseRecords
  BY LeaseHolds
<1>2. rec \in LeaseRecords
  BY <1>1 DEF LeaseRecords, FeedStates
<1>3. lease' = [lease EXCEPT ![l] = rec]
  BY DEF ManagerClosesScope, CloseScope
<1> HIDE DEF rec
<1>4. Becomes(l, rec)
  BY <1>1, <1>2, <1>3, Updated
<1> QED
  BY <1>4 DEF rec

\* A manager that has closed leaves nobody to be told.
LEMMA ManagerFinishesLease ==
  ASSUME LeaseTypeOK, NEW l \in ActiveLeases, ManagerFinishes(l)
  PROVE  Becomes(l, [lease[l] EXCEPT
      !.subscriptions = {}, !.statusQueues = {},
      !.scope = IF OthersClose(l) THEN @ ELSE "closed"])
<1> DEFINE rec == [lease[l] EXCEPT
      !.subscriptions = {}, !.statusQueues = {},
      !.scope = IF OthersClose(l) THEN @ ELSE "closed"]
<1>1. l \in ActiveLeases /\ lease[l] \in LeaseRecords
  BY LeaseHolds
<1>2. rec \in LeaseRecords
  BY <1>1 DEF LeaseRecords, FeedStates
<1>3. lease' = [lease EXCEPT ![l] = rec]
  BY DEF ManagerFinishes
<1> HIDE DEF rec
<1>4. Becomes(l, rec)
  BY <1>1, <1>2, <1>3, Updated
<1> QED
  BY <1>4 DEF rec

\* A new lease is the last of the list.
LEMMA StartLeaseLease ==
  ASSUME LeaseTypeOK, NEW s \in Subscribers, StartLease(s)
  PROVE  /\ lease' \in Seq(LeaseRecords)
         /\ Len(lease) \in Nat
         /\ ActiveLeases' = ActiveLeases \union {Len(lease) + 1}
         /\ Len(lease) + 1 \notin ActiveLeases
         /\ \A k \in ActiveLeases : lease'[k] = lease[k]
         /\ lease'[Len(lease) + 1] =
              [route |-> RouteOf[s], subscribers |-> 1, accepting |-> TRUE,
               released |-> FALSE, scope |-> "open", feed |-> "starting", batch |-> {},
               keys |-> {}, statusQueues |-> {s}, subscriptions |-> {}]
<1> DEFINE new == [route |-> RouteOf[s], subscribers |-> 1, accepting |-> TRUE,
               released |-> FALSE, scope |-> "open", feed |-> "starting", batch |-> {},
               keys |-> {}, statusQueues |-> {s}, subscriptions |-> {}]
<1>1. new \in LeaseRecords
  BY LeaseAssumption DEF LeaseRecords, FeedStates
<1>2. lease \in Seq(LeaseRecords) /\ lease' = Append(lease, new)
  BY DEF LeaseTypeOK, StartLease
<1> HIDE DEF new
<1>3. /\ lease' \in Seq(LeaseRecords) /\ Len(lease') = Len(lease) + 1
      /\ \A k \in 1..Len(lease) : lease'[k] = lease[k]
      /\ lease'[Len(lease) + 1] = new
  BY <1>1, <1>2
<1> QED
  BY <1>2, <1>3 DEF ActiveLeases, new

\* Closing the manager makes its leases accept nobody.
LEMMA CloseManagerLease ==
  ASSUME LeaseTypeOK, CloseManager
  PROVE  /\ lease' \in Seq(LeaseRecords) /\ ActiveLeases' = ActiveLeases
         /\ \A k \in ActiveLeases :
              \/ lease'[k] = lease[k]
              \/ lease'[k] = [lease[k] EXCEPT !.accepting = FALSE]
<1>1. \A k \in ActiveLeases :
        /\ lease'[k] \in LeaseRecords
        /\ \/ lease'[k] = lease[k]
           \/ lease'[k] = [lease[k] EXCEPT !.accepting = FALSE]
  BY LeaseHolds DEF CloseManager, LeaseRecords
<1>2. lease' = [k \in 1..Len(lease) |-> lease'[k]] /\ Len(lease) \in Nat
  BY DEF CloseManager, ActiveLeases, LeaseTypeOK
<1>3. lease' \in Seq(LeaseRecords) /\ Len(lease') = Len(lease)
  BY <1>1, <1>2 DEF ActiveLeases
<1> QED
  BY <1>1, <1>3 DEF ActiveLeases


\* A batch's keys are recorded with it.
LEMMA BeginPublishLease ==
  ASSUME LeaseTypeOK, NEW l \in ActiveLeases, BeginPublish(l)
  PROVE  \E b \in SUBSET Keys :
           Becomes(l, [lease[l] EXCEPT !.feed = "publishing", !.batch = b, !.keys = @ \union b])
<1>1. PICK b \in SUBSET Keys :
        lease' = [lease EXCEPT ![l].feed = "publishing", ![l].batch = b, ![l].keys = @ \union b]
  BY DEF BeginPublish
<1> DEFINE rec == [lease[l] EXCEPT !.feed = "publishing", !.batch = b, !.keys = @ \union b]
<1>2. lease[l] \in LeaseRecords
  BY LeaseHolds
<1>3. rec \in LeaseRecords
  BY <1>2 DEF LeaseRecords, FeedStates
<1>4. lease' = [lease EXCEPT ![l] = rec]
  BY <1>1
<1> HIDE DEF rec
<1>5. Becomes(l, rec)
  BY <1>3, <1>4, Updated
<1> QED
  BY <1>5 DEF rec

\* What happens to an entry of the ledger makes another.
LEMMA Entries ==
  ASSUME NEW h \in LedgerEntries \union {None}
  PROVE  /\ SubscriberRemoved(h) \in LedgerEntries \union {None}
         /\ \A status \in {"ready", "stopping", "degraded"} :
              WithStatus(h, status) \in LedgerEntries \union {None}
         /\ SubscriberAdded(h) \in LedgerEntries \union {None}
<1>1. h # None => /\ h \in LedgerEntries /\ h.subscribers \in Nat
  BY DEF LedgerEntries
<1>2. SubscriberAdded(h) \in LedgerEntries \union {None}
  <2>1. h # None => h.subscribers + 1 \in Nat
    BY <1>1
  <2> QED
    BY <1>1, <2>1 DEF SubscriberAdded, LedgerEntries
<1>3. SubscriberRemoved(h) \in LedgerEntries \union {None}
  <2>1. h # None /\ h.subscribers # 0 => h.subscribers - 1 \in Nat
    BY <1>1
  <2> QED
    BY <1>1, <2>1 DEF SubscriberRemoved, LedgerEntries
<1>4. \A status \in {"ready", "stopping", "degraded"} :
        WithStatus(h, status) \in LedgerEntries \union {None}
  BY <1>1 DEF WithStatus, LedgerEntries
<1> QED
  BY <1>2, <1>3, <1>4


\* Telling the ledger and deleting rows touch one route.
LEMMA LedgerTold ==
  ASSUME LeaseTypeOK, NEW r \in Routes
  PROVE  /\ HealthAdded(r) => ledger' \in [Routes -> LedgerEntries \union {None}]
         /\ HealthStatus(r, "degraded") => ledger' \in [Routes -> LedgerEntries \union {None}]
<1>1. ledger \in [Routes -> LedgerEntries \union {None}] /\ ledger[r] \in LedgerEntries \union {None}
  BY DEF LeaseTypeOK
<1>2. ASSUME HealthAdded(r) PROVE ledger' \in [Routes -> LedgerEntries \union {None}]
  BY <1>1, <1>2, Entries DEF HealthAdded
<1>3. ASSUME HealthStatus(r, "degraded")
      PROVE  ledger' \in [Routes -> LedgerEntries \union {None}]
  BY <1>1, <1>3, Entries DEF HealthStatus
<1> QED
  BY <1>2, <1>3

\* Deleting the rows of a lease adds none.
LEMMA RowsDeleted ==
  ASSUME LeaseTypeOK, NEW r \in Routes, NEW l, DeleteSomeRows(r, l)
  PROVE  /\ stored' \in [Routes -> SUBSET Keys]
         /\ \A q \in Routes : stored'[q] \subseteq stored[q]
<1>1. stored \in [Routes -> SUBSET Keys]
  BY DEF LeaseTypeOK
<1>2. PICK kept \in SUBSET (stored[r] \intersect lease[l].keys) :
        stored' = [stored EXCEPT ![r] = (@ \ lease[l].keys) \union kept]
  BY DEF DeleteSomeRows
<1> DEFINE left == (stored[r] \ lease[l].keys) \union kept
<1>3. left \subseteq stored[r] /\ stored' = [stored EXCEPT ![r] = left]
  BY <1>2
<1> HIDE DEF left
<1> QED
  BY <1>1, <1>3

\* The variables keep their types.
LEMMA LeaseTypes ==
  ASSUME LeaseTypeOK, MapAgrees, CountsHolders, [Next]_vars
  PROVE  LeaseTypeOK'
<1> USE LeaseAssumption DEF LeaseTypeOK, SubscriberStates, Holding, Cleaning
<1>1. ASSUME NEW s \in Subscribers, Subscribe(s) PROVE LeaseTypeOK'
  <2>1. lease' = lease /\ ActiveLeases' = ActiveLeases
    BY <1>1 DEF Subscribe, ActiveLeases
  <2> QED
    BY <1>1, <2>1 DEF Subscribe, Goto, streamVars, managerVars, LedgerEntries
<1>2. ASSUME NEW s \in Subscribers, InterruptWait(s) PROVE LeaseTypeOK'
  <2>1. lease' = lease /\ ActiveLeases' = ActiveLeases
    BY <1>2 DEF InterruptWait, ActiveLeases
  <2> QED
    BY <1>2, <2>1 DEF InterruptWait, Goto, streamVars, managerVars, LedgerEntries
<1>3. ASSUME NEW s \in Subscribers, CloseStream(s) PROVE LeaseTypeOK'
  <2>1. lease' \in Seq(LeaseRecords) /\ ActiveLeases' = ActiveLeases
    BY <1>3, DetachLease DEF Becomes, CloseStream, Holding
  <2> QED
    BY <1>3, <2>1 DEF CloseStream, Detach, Goto, managerVars
<1>4. ASSUME NEW s \in Subscribers, CoreEnds(s) PROVE LeaseTypeOK'
  <2>1. lease' = lease /\ ActiveLeases' = ActiveLeases
    BY <1>4 DEF CoreEnds, ActiveLeases
  <2> QED
    BY <1>4, <2>1 DEF CoreEnds, managerVars, LedgerEntries
<1>5. ASSUME NEW s \in Subscribers, Refuse(s) PROVE LeaseTypeOK'
  <2>1. lease' = lease /\ ActiveLeases' = ActiveLeases
    BY <1>5 DEF Refuse, ActiveLeases
  <2> QED
    BY <1>5, <2>1 DEF Refuse, Joinable, Current, Goto, streamVars, managerVars, LedgerEntries
<1>6. ASSUME NEW s \in Subscribers, Join(s) PROVE LeaseTypeOK'
  <2>1. lease' \in Seq(LeaseRecords) /\ ActiveLeases' = ActiveLeases
    BY <1>6, JoinLease DEF Becomes
  <2>2. RouteOf[s] \in Routes
    BY LeaseAssumption
  <2>3. ledger' \in [Routes -> LedgerEntries \union {None}]
    BY <1>6, <2>2, LedgerTold DEF Join
  <2> QED
    BY <1>6, <2>1, <2>3 DEF Join, Current, Goto, streamVars, managerVars
<1>7. ASSUME NEW s \in Subscribers, StartLease(s) PROVE LeaseTypeOK'
  <2>1. /\ lease' \in Seq(LeaseRecords) /\ ActiveLeases \subseteq ActiveLeases'
        /\ Len(lease) \in Nat
    BY <1>7, StartLeaseLease
  <2>2. RouteOf[s] \in Routes
    BY LeaseAssumption
  <2> QED
    BY <1>7, <2>1, <2>2 DEF StartLease, HealthStarting, Current, Goto, streamVars, managerVars, LedgerEntries
<1>8. ASSUME NEW s \in Subscribers, ForkFeed(s) PROVE LeaseTypeOK'
  <2>1. lease' \in Seq(LeaseRecords) /\ ActiveLeases' = ActiveLeases
    BY <1>8, ForkFeedLease DEF Becomes
  <2> QED
    BY <1>8, <2>1 DEF ForkFeed, Goto, streamVars, managerVars, LedgerEntries
<1>9. ASSUME NEW s \in Subscribers, FailStart(s) PROVE LeaseTypeOK'
  <2>1. lease' \in Seq(LeaseRecords) /\ ActiveLeases' = ActiveLeases
    BY <1>9, FailStartLease DEF Becomes
  <2> QED
    BY <1>9, <2>1 DEF FailStart, HealthRemoved, Goto, managerVars, LedgerEntries
<1>10. ASSUME NEW s \in Subscribers, Register(s) PROVE LeaseTypeOK'
  <2>1. lease' \in Seq(LeaseRecords) /\ ActiveLeases' = ActiveLeases
    BY <1>10, RegisterLease DEF Becomes
  <2> QED
    BY <1>10, <2>1 DEF Register, Goto, managerVars, LedgerEntries
<1>11. ASSUME NEW s \in Subscribers, FailSubscribe(s) PROVE LeaseTypeOK'
  <2>1. lease' = lease /\ ActiveLeases' = ActiveLeases
    BY <1>11 DEF FailSubscribe, ActiveLeases
  <2> QED
    BY <1>11, <2>1 DEF FailSubscribe, Goto, streamVars, managerVars, LedgerEntries
<1>12. ASSUME NEW s \in Subscribers, EndStream(s) PROVE LeaseTypeOK'
  <2>1. lease' \in Seq(LeaseRecords) /\ ActiveLeases' = ActiveLeases
    BY <1>12, DetachLease DEF Becomes, EndStream, Holding
  <2> QED
    BY <1>12, <2>1 DEF EndStream, Detach, Goto, managerVars
<1>13. ASSUME NEW s \in Subscribers, CloseInternal(s) PROVE LeaseTypeOK'
  <2>1. lease' = lease /\ ActiveLeases' = ActiveLeases
    BY <1>13 DEF CloseInternal, ActiveLeases
  <2> QED
    BY <1>13, <2>1 DEF CloseInternal, Goto, managerVars, LedgerEntries
<1>14. ASSUME NEW s \in Subscribers, LeaveClosed(s) PROVE LeaseTypeOK'
  <2>1. lease' \in Seq(LeaseRecords) /\ ActiveLeases' = ActiveLeases
    BY <1>14, LeaveClosedLease DEF Becomes
  <2> QED
    BY <1>14, <2>1 DEF LeaveClosed, Leaving, WithoutQueue, Current, Goto, managerVars, LedgerEntries
<1>15. ASSUME NEW s \in Subscribers, Leave(s) PROVE LeaseTypeOK'
  <2>1. lease' \in Seq(LeaseRecords) /\ ActiveLeases' = ActiveLeases
    BY <1>15, LeaveLease DEF Becomes
  <2>2. RouteOf[s] \in Routes
    BY LeaseAssumption
  <2>3. ledger' \in [Routes -> LedgerEntries \union {None}]
    BY <1>15, Entries DEF Leave
  <2> QED
    BY <1>15, <2>1, <2>3 DEF Leave, Leaving, Current, Goto, managerVars
<1>16. ASSUME NEW s \in Subscribers, BeginCleanup(s) PROVE LeaseTypeOK'
  <2>1. lease' \in Seq(LeaseRecords) /\ ActiveLeases' = ActiveLeases
    BY <1>16, BeginCleanupLease DEF Becomes
  <2> QED
    BY <1>16, <2>1 DEF BeginCleanup, CloseScope, Goto, streamVars, managerVars, LedgerEntries
<1>17. ASSUME NEW s \in Subscribers, ScopeClosed(s) PROVE LeaseTypeOK'
  <2>1. lease' \in Seq(LeaseRecords) /\ ActiveLeases' = ActiveLeases
    BY <1>17, ScopeClosedLease DEF Becomes
  <2> QED
    BY <1>17, <2>1 DEF ScopeClosed, Goto, streamVars, managerVars, LedgerEntries
<1>18. ASSUME NEW s \in Subscribers, DeleteLeaseRows(s) PROVE LeaseTypeOK'
  <2>1. lease' = lease /\ ActiveLeases' = ActiveLeases
    BY <1>18 DEF DeleteLeaseRows, ActiveLeases
  <2> QED
    BY <1>18, <2>1 DEF DeleteLeaseRows, DeleteRows, Goto, streamVars, managerVars, LedgerEntries
<1>19. ASSUME NEW s \in Subscribers, RemoveLease(s) PROVE LeaseTypeOK'
  <2>1. lease' = lease /\ ActiveLeases' = ActiveLeases
    BY <1>19 DEF RemoveLease, ActiveLeases
  <2> QED
    BY <1>19, <2>1 DEF RemoveLease, HealthRemoved, Goto, streamVars, managerVars, LedgerEntries
<1>20. ASSUME NEW s \in Subscribers, FailCleanup(s) PROVE LeaseTypeOK'
  <2>1. lease' \in Seq(LeaseRecords) /\ ActiveLeases' = ActiveLeases
    BY <1>20 DEF FailCleanup, ActiveLeases
  <2>2. RouteOf[s] \in Routes
    BY LeaseAssumption
  <2>3. ledger' \in [Routes -> LedgerEntries \union {None}]
    BY <1>20, <2>2, LedgerTold DEF FailCleanup
  <2>4. stored' \in [Routes -> SUBSET Keys]
    BY <1>20, <2>2, RowsDeleted DEF FailCleanup
  <2> QED
    BY <1>20, <2>1, <2>3, <2>4 DEF FailCleanup, Goto, streamVars, managerVars
<1>21. ASSUME NEW l \in ActiveLeases, EndPublish(l) PROVE LeaseTypeOK'
  <2>1. lease' \in Seq(LeaseRecords) /\ ActiveLeases' = ActiveLeases
    BY <1>21, EndPublishLease DEF Becomes
  <2>2. lease[l].batch \in SUBSET Keys
    BY LeaseHolds DEF LeaseRecords
  <2>3. stored' \in [Routes -> SUBSET Keys]
    BY <1>21, <2>2 DEF EndPublish
  <2> QED
    BY <1>21, <2>1, <2>3 DEF EndPublish, streamVars, managerVars
<1>22. ASSUME NEW l \in ActiveLeases, FailPublish(l) PROVE LeaseTypeOK'
  <2>1. lease' \in Seq(LeaseRecords) /\ ActiveLeases' = ActiveLeases
    BY <1>22, FailPublishLease DEF Becomes
  <2>2. lease[l].route \in Routes
    BY LeaseHolds DEF LeaseRecords
  <2>3. ledger' \in [Routes -> LedgerEntries \union {None}]
    BY <1>22, <2>2, LedgerTold DEF FailPublish
  <2> QED
    BY <1>22, <2>1, <2>3 DEF FailPublish, streamVars, managerVars
<1>23. ASSUME NEW l \in ActiveLeases, BeginDegrade(l) PROVE LeaseTypeOK'
  <2>1. lease' \in Seq(LeaseRecords) /\ ActiveLeases' = ActiveLeases
    BY <1>23, BeginDegradeLease DEF Becomes
  <2> QED
    BY <1>23, <2>1 DEF BeginDegrade, streamVars, managerVars, LedgerEntries
<1>24. ASSUME NEW l \in ActiveLeases, DegradeRows(l) PROVE LeaseTypeOK'
  <2>1. lease' \in Seq(LeaseRecords) /\ ActiveLeases' = ActiveLeases
    BY <1>24, DegradeRowsLease DEF Becomes
  <2>2. lease[l].route \in Routes
    BY LeaseHolds DEF LeaseRecords
  <2>3. ledger' \in [Routes -> LedgerEntries \union {None}]
    BY <1>24, <2>2, LedgerTold DEF DegradeRows
  <2>4. stored' \in [Routes -> SUBSET Keys]
    BY <1>24, <2>2, RowsDeleted DEF DegradeRows
  <2> QED
    BY <1>24, <2>1, <2>3, <2>4 DEF DegradeRows, streamVars, managerVars
<1>25. ASSUME NEW l \in ActiveLeases, DegradeCloses(l) PROVE LeaseTypeOK'
  <2>1. lease' \in Seq(LeaseRecords) /\ ActiveLeases' = ActiveLeases
    BY <1>25, DegradeClosesLease DEF Becomes
  <2> QED
    BY <1>25, <2>1 DEF DegradeCloses, managerVars, LedgerEntries
<1>26. ASSUME NEW l \in ActiveLeases, DegradeTells(l) PROVE LeaseTypeOK'
  <2>1. lease' \in Seq(LeaseRecords) /\ ActiveLeases' = ActiveLeases
    BY <1>26, DegradeTellsLease DEF Becomes
  <2> QED
    BY <1>26, <2>1 DEF DegradeTells, Offered, managerVars, LedgerEntries
<1>27. ASSUME NEW l \in ActiveLeases, InterruptFeed(l) PROVE LeaseTypeOK'
  <2>1. lease' \in Seq(LeaseRecords) /\ ActiveLeases' = ActiveLeases
    BY <1>27, InterruptFeedLease DEF Becomes
  <2> QED
    BY <1>27, <2>1 DEF InterruptFeed, streamVars, managerVars, LedgerEntries
<1>28. ASSUME NEW l \in ActiveLeases, BeginPublish(l) PROVE LeaseTypeOK'
  <2>1. lease' \in Seq(LeaseRecords) /\ ActiveLeases' = ActiveLeases
    BY <1>28, BeginPublishLease DEF Becomes
  <2> QED
    BY <1>28, <2>1 DEF BeginPublish, streamVars, managerVars
<1>29. ASSUME NEW l \in ActiveLeases, FailMapping(l) PROVE LeaseTypeOK'
  <2>1. lease' \in Seq(LeaseRecords) /\ ActiveLeases' = ActiveLeases
    BY <1>29, FailMappingLease DEF Becomes
  <2>2. lease[l].route \in Routes
    BY LeaseHolds DEF LeaseRecords
  <2>3. ledger' \in [Routes -> LedgerEntries \union {None}]
    BY <1>29, <2>2, LedgerTold DEF FailMapping
  <2> QED
    BY <1>29, <2>1, <2>3 DEF FailMapping, streamVars, managerVars
<1>30. ASSUME NEW l \in ActiveLeases, UpstreamEnds(l) PROVE LeaseTypeOK'
  <2>1. lease' \in Seq(LeaseRecords) /\ ActiveLeases' = ActiveLeases
    BY <1>30, UpstreamEndsLease DEF Becomes
  <2> QED
    BY <1>30, <2>1 DEF UpstreamEnds, streamVars, managerVars, LedgerEntries
<1>31. ASSUME NEW l \in ActiveLeases, UpstreamInterrupted(l) PROVE LeaseTypeOK'
  <2>1. lease' \in Seq(LeaseRecords) /\ ActiveLeases' = ActiveLeases
    BY <1>31, UpstreamInterruptedLease DEF Becomes
  <2> QED
    BY <1>31, <2>1 DEF UpstreamInterrupted, streamVars, managerVars, LedgerEntries
<1>32. ASSUME NEW l \in ActiveLeases, ManagerClosesScope(l) PROVE LeaseTypeOK'
  <2>1. lease' \in Seq(LeaseRecords) /\ ActiveLeases' = ActiveLeases
    BY <1>32, ManagerClosesScopeLease DEF Becomes
  <2> QED
    BY <1>32, <2>1 DEF ManagerClosesScope, CloseScope, streamVars, managerVars, LedgerEntries
<1>33. ASSUME NEW l \in ActiveLeases, ManagerFinishes(l) PROVE LeaseTypeOK'
  <2>1. lease' \in Seq(LeaseRecords) /\ ActiveLeases' = ActiveLeases
    BY <1>33, ManagerFinishesLease DEF Becomes
  <2>2. stored' \in [Routes -> SUBSET Keys]
    <3>1. lease[l].route \in Routes
      BY LeaseHolds DEF LeaseRecords
    <3> QED
      BY <1>33, <3>1, RowsDeleted DEF ManagerFinishes
  <2>3. internal' \in [Subscribers -> {"none", "open", "closed"}]
    BY <1>33 DEF ManagerFinishes
  <2>4. queue' \in [Subscribers -> {"empty", "offered", "shutdown"}]
    BY <1>33 DEF ManagerFinishes
  <2>5. ledger' \in [Routes -> LedgerEntries \union {None}]
    BY <1>33 DEF ManagerFinishes, HealthRemoved
  <2> QED
    BY <1>33, <2>1, <2>2, <2>3, <2>4, <2>5 DEF ManagerFinishes
<1>34. ASSUME CloseManager PROVE LeaseTypeOK'
  <2>1. lease' \in Seq(LeaseRecords) /\ ActiveLeases' = ActiveLeases
    BY <1>34, CloseManagerLease
  <2>2. closing' \in SUBSET ActiveLeases
    BY <1>34 DEF CloseManager, MapAgrees
  <2> QED
    BY <1>34, <2>1, <2>2 DEF CloseManager, streamVars
<1>35. ASSUME CloseCore PROVE LeaseTypeOK'
  <2>1. lease' = lease /\ ActiveLeases' = ActiveLeases
    BY <1>35 DEF CloseCore, ActiveLeases
  <2> QED
    BY <1>35, <2>1 DEF CloseCore, LedgerEntries
<1>36. ASSUME UNCHANGED vars PROVE LeaseTypeOK'
  BY <1>36 DEF vars, streamVars, managerVars, ActiveLeases
<1> QED
  BY <1>1, <1>2, <1>3, <1>4, <1>5, <1>6, <1>7, <1>8, <1>9, <1>10, <1>11, <1>12,
     <1>13, <1>14, <1>15, <1>16, <1>17, <1>18, <1>19, <1>20, <1>21, <1>22, <1>23,
     <1>24, <1>25, <1>26, <1>27, <1>28, <1>29, <1>30, <1>31, <1>32, <1>33, <1>34,
     <1>35, <1>36 DEF Next, SubscriberStep, FeedStep,
     FeedInput, ManagerStep

\* The fields of the leases a step leaves alone.
SameCounts == \A k \in ActiveLeases :
  lease'[k].subscribers = lease[k].subscribers /\ lease'[k].accepting = lease[k].accepting
SameScopes == \A k \in ActiveLeases :
  lease'[k].scope = lease[k].scope /\ lease'[k].released = lease[k].released
SameFeeds == \A k \in ActiveLeases : lease'[k].feed = lease[k].feed
SameRows == \A k \in ActiveLeases :
  lease'[k].keys = lease[k].keys /\ lease'[k].batch = lease[k].batch

\* Leases keep their routes; what is released, ended or recorded stays so.
Forward ==
  /\ ActiveLeases \subseteq ActiveLeases'
  /\ \A k \in ActiveLeases :
       /\ lease'[k].route = lease[k].route
       /\ lease[k].released => lease'[k].released
       /\ lease[k].feed = "ended" => lease'[k].feed = "ended"
       /\ lease[k].keys \subseteq lease'[k].keys

SameLeases == ActiveLeases' = ActiveLeases /\ Forward

\* The fields of the leases that Join leaves alone, and those it changes.
LEMMA JoinFields ==
  ASSUME LeaseTypeOK, MapAgrees, NEW s \in Subscribers, Join(s)
  PROVE  /\ SameLeases
         /\ SameScopes /\ SameFeeds /\ SameRows
         /\ \A k \in ActiveLeases :
              lease'[k].subscribers = IF k = Current(s) THEN lease[k].subscribers + 1 ELSE lease[k].subscribers
         /\ \A k \in ActiveLeases : lease'[k].accepting = lease[k].accepting
<1> DEFINE rec == [lease[Current(s)] EXCEPT
      !.subscribers = @ + 1, !.statusQueues = @ \union {s}]
<1>1. Becomes(Current(s), rec)
  BY JoinLease
<1>2. Current(s) \in ActiveLeases /\ lease[Current(s)] \in LeaseRecords
  BY LeaseAssumption, LeaseHolds DEF Join, Joinable, Current, MapAgrees
<1>3. /\ rec.route = lease[Current(s)].route
      /\ rec.subscribers = lease[Current(s)].subscribers + 1
      /\ rec.accepting = lease[Current(s)].accepting
      /\ rec.released = lease[Current(s)].released
      /\ rec.scope = lease[Current(s)].scope
      /\ rec.feed = lease[Current(s)].feed
      /\ rec.batch = lease[Current(s)].batch
      /\ rec.keys = lease[Current(s)].keys
  BY <1>2 DEF LeaseRecords
<1> HIDE DEF rec
<1>4. SameLeases
  BY <1>1, <1>2, <1>3 DEF Becomes, SameLeases, Forward
<1>5. SameScopes
  BY <1>1, <1>2, <1>3 DEF Becomes, SameScopes
<1>6. SameFeeds
  BY <1>1, <1>2, <1>3 DEF Becomes, SameFeeds
<1>7. SameRows
  BY <1>1, <1>2, <1>3 DEF Becomes, SameRows
<1>8. \A k \in ActiveLeases :
        lease'[k].subscribers = IF k = Current(s) THEN lease[k].subscribers + 1 ELSE lease[k].subscribers
  BY <1>1, <1>2, <1>3 DEF Becomes
<1>9. \A k \in ActiveLeases : lease'[k].accepting = lease[k].accepting
  BY <1>1, <1>2, <1>3 DEF Becomes
<1> QED
  BY <1>4, <1>5, <1>6, <1>7, <1>8, <1>9

\* The fields of the leases that ForkFeed leaves alone, and those it changes.
LEMMA ForkFeedFields ==
  ASSUME LeaseTypeOK, MapAgrees, PermitHeld, NEW s \in Subscribers, ForkFeed(s)
  PROVE  /\ SameLeases
         /\ SameCounts /\ SameScopes /\ SameRows
         /\ \A k \in ActiveLeases :
              lease'[k].feed = IF k = leaseOf[s] THEN "running" ELSE lease[k].feed
<1> DEFINE rec == [lease[leaseOf[s]] EXCEPT
      !.feed = "running"]
<1>1. Becomes(leaseOf[s], rec)
  BY ForkFeedLease
<1>2. leaseOf[s] \in ActiveLeases /\ lease[leaseOf[s]] \in LeaseRecords /\ lease[leaseOf[s]].feed = "starting"
  BY OwnLease DEF ForkFeed, Holding, Cleaning, PermitHeld
<1>3. /\ rec.route = lease[leaseOf[s]].route
      /\ rec.subscribers = lease[leaseOf[s]].subscribers
      /\ rec.accepting = lease[leaseOf[s]].accepting
      /\ rec.released = lease[leaseOf[s]].released
      /\ rec.scope = lease[leaseOf[s]].scope
      /\ rec.feed = "running"
      /\ rec.batch = lease[leaseOf[s]].batch
      /\ rec.keys = lease[leaseOf[s]].keys
  BY <1>2 DEF LeaseRecords
<1> HIDE DEF rec
<1>4. SameLeases
  BY <1>1, <1>2, <1>3 DEF Becomes, SameLeases, Forward
<1>5. SameCounts
  BY <1>1, <1>2, <1>3 DEF Becomes, SameCounts
<1>6. SameScopes
  BY <1>1, <1>2, <1>3 DEF Becomes, SameScopes
<1>7. SameRows
  BY <1>1, <1>2, <1>3 DEF Becomes, SameRows
<1>8. \A k \in ActiveLeases :
        lease'[k].feed = IF k = leaseOf[s] THEN "running" ELSE lease[k].feed
  BY <1>1, <1>2, <1>3 DEF Becomes
<1> QED
  BY <1>4, <1>5, <1>6, <1>7, <1>8

\* The fields of the leases that FailStart leaves alone, and those it changes.
LEMMA FailStartFields ==
  ASSUME LeaseTypeOK, MapAgrees, NEW s \in Subscribers, FailStart(s)
  PROVE  /\ SameLeases
         /\ SameCounts /\ SameRows
         /\ \A k \in ActiveLeases :
              lease'[k].feed = IF k = leaseOf[s] THEN "ended" ELSE lease[k].feed
         /\ \A k \in ActiveLeases :
              lease'[k].released = IF k = leaseOf[s] THEN TRUE ELSE lease[k].released
         /\ \A k \in ActiveLeases :
              lease'[k].scope = IF k = leaseOf[s] THEN "closed" ELSE lease[k].scope
<1> DEFINE rec == [lease[leaseOf[s]] EXCEPT
      !.feed = "ended", !.scope = "closed", !.released = TRUE]
<1>1. Becomes(leaseOf[s], rec)
  BY FailStartLease
<1>2. leaseOf[s] \in ActiveLeases /\ lease[leaseOf[s]] \in LeaseRecords
  BY OwnLease DEF FailStart, Holding, Cleaning
<1>3. /\ rec.route = lease[leaseOf[s]].route
      /\ rec.subscribers = lease[leaseOf[s]].subscribers
      /\ rec.accepting = lease[leaseOf[s]].accepting
      /\ rec.released = TRUE
      /\ rec.scope = "closed"
      /\ rec.feed = "ended"
      /\ rec.batch = lease[leaseOf[s]].batch
      /\ rec.keys = lease[leaseOf[s]].keys
  BY <1>2 DEF LeaseRecords
<1> HIDE DEF rec
<1>4. SameLeases
  BY <1>1, <1>2, <1>3 DEF Becomes, SameLeases, Forward
<1>5. SameCounts
  BY <1>1, <1>2, <1>3 DEF Becomes, SameCounts
<1>6. SameRows
  BY <1>1, <1>2, <1>3 DEF Becomes, SameRows
<1>7. \A k \in ActiveLeases :
        lease'[k].feed = IF k = leaseOf[s] THEN "ended" ELSE lease[k].feed
  BY <1>1, <1>2, <1>3 DEF Becomes
<1>8. \A k \in ActiveLeases :
        lease'[k].released = IF k = leaseOf[s] THEN TRUE ELSE lease[k].released
  BY <1>1, <1>2, <1>3 DEF Becomes
<1>9. \A k \in ActiveLeases :
        lease'[k].scope = IF k = leaseOf[s] THEN "closed" ELSE lease[k].scope
  BY <1>1, <1>2, <1>3 DEF Becomes
<1> QED
  BY <1>4, <1>5, <1>6, <1>7, <1>8, <1>9

\* The fields of the leases that Register leaves alone, and those it changes.
LEMMA RegisterFields ==
  ASSUME LeaseTypeOK, MapAgrees, NEW s \in Subscribers, Register(s)
  PROVE  /\ SameLeases
         /\ SameCounts /\ SameScopes /\ SameFeeds /\ SameRows
<1> DEFINE rec == [lease[leaseOf[s]] EXCEPT
      !.subscriptions = @ \union {s}]
<1>1. Becomes(leaseOf[s], rec)
  BY RegisterLease
<1>2. leaseOf[s] \in ActiveLeases /\ lease[leaseOf[s]] \in LeaseRecords
  BY OwnLease DEF Register, Holding, Cleaning
<1>3. /\ rec.route = lease[leaseOf[s]].route
      /\ rec.subscribers = lease[leaseOf[s]].subscribers
      /\ rec.accepting = lease[leaseOf[s]].accepting
      /\ rec.released = lease[leaseOf[s]].released
      /\ rec.scope = lease[leaseOf[s]].scope
      /\ rec.feed = lease[leaseOf[s]].feed
      /\ rec.batch = lease[leaseOf[s]].batch
      /\ rec.keys = lease[leaseOf[s]].keys
  BY <1>2 DEF LeaseRecords
<1> HIDE DEF rec
<1>4. SameLeases
  BY <1>1, <1>2, <1>3 DEF Becomes, SameLeases, Forward
<1>5. SameCounts
  BY <1>1, <1>2, <1>3 DEF Becomes, SameCounts
<1>6. SameScopes
  BY <1>1, <1>2, <1>3 DEF Becomes, SameScopes
<1>7. SameFeeds
  BY <1>1, <1>2, <1>3 DEF Becomes, SameFeeds
<1>8. SameRows
  BY <1>1, <1>2, <1>3 DEF Becomes, SameRows
<1> QED
  BY <1>4, <1>5, <1>6, <1>7, <1>8

\* The fields of the leases that CloseStream leaves alone, and those it
\* changes.
LEMMA CloseStreamFields ==
  ASSUME LeaseTypeOK, MapAgrees, NEW s \in Subscribers, CloseStream(s)
  PROVE  /\ SameLeases
         /\ SameCounts /\ SameScopes /\ SameFeeds /\ SameRows
<1> DEFINE rec == [lease[leaseOf[s]] EXCEPT
      !.statusQueues = @ \ {s}, !.subscriptions = @ \ {s}]
<1>1. Becomes(leaseOf[s], rec)
  BY DetachLease DEF CloseStream, Holding
<1>2. leaseOf[s] \in ActiveLeases /\ lease[leaseOf[s]] \in LeaseRecords
  BY OwnLease DEF CloseStream, Holding, Cleaning
<1>3. /\ rec.route = lease[leaseOf[s]].route
      /\ rec.subscribers = lease[leaseOf[s]].subscribers
      /\ rec.accepting = lease[leaseOf[s]].accepting
      /\ rec.released = lease[leaseOf[s]].released
      /\ rec.scope = lease[leaseOf[s]].scope
      /\ rec.feed = lease[leaseOf[s]].feed
      /\ rec.batch = lease[leaseOf[s]].batch
      /\ rec.keys = lease[leaseOf[s]].keys
  BY <1>2 DEF LeaseRecords
<1> HIDE DEF rec
<1>4. SameLeases
  BY <1>1, <1>2, <1>3 DEF Becomes, SameLeases, Forward
<1>5. SameCounts
  BY <1>1, <1>2, <1>3 DEF Becomes, SameCounts
<1>6. SameScopes
  BY <1>1, <1>2, <1>3 DEF Becomes, SameScopes
<1>7. SameFeeds
  BY <1>1, <1>2, <1>3 DEF Becomes, SameFeeds
<1>8. SameRows
  BY <1>1, <1>2, <1>3 DEF Becomes, SameRows
<1> QED
  BY <1>4, <1>5, <1>6, <1>7, <1>8

\* The fields of the leases that EndStream leaves alone, and those it changes.
LEMMA EndStreamFields ==
  ASSUME LeaseTypeOK, MapAgrees, NEW s \in Subscribers, EndStream(s)
  PROVE  /\ SameLeases
         /\ SameCounts /\ SameScopes /\ SameFeeds /\ SameRows
<1> DEFINE rec == [lease[leaseOf[s]] EXCEPT
      !.statusQueues = @ \ {s}, !.subscriptions = @ \ {s}]
<1>1. Becomes(leaseOf[s], rec)
  BY DetachLease DEF EndStream, Holding
<1>2. leaseOf[s] \in ActiveLeases /\ lease[leaseOf[s]] \in LeaseRecords
  BY OwnLease DEF EndStream, Holding, Cleaning
<1>3. /\ rec.route = lease[leaseOf[s]].route
      /\ rec.subscribers = lease[leaseOf[s]].subscribers
      /\ rec.accepting = lease[leaseOf[s]].accepting
      /\ rec.released = lease[leaseOf[s]].released
      /\ rec.scope = lease[leaseOf[s]].scope
      /\ rec.feed = lease[leaseOf[s]].feed
      /\ rec.batch = lease[leaseOf[s]].batch
      /\ rec.keys = lease[leaseOf[s]].keys
  BY <1>2 DEF LeaseRecords
<1> HIDE DEF rec
<1>4. SameLeases
  BY <1>1, <1>2, <1>3 DEF Becomes, SameLeases, Forward
<1>5. SameCounts
  BY <1>1, <1>2, <1>3 DEF Becomes, SameCounts
<1>6. SameScopes
  BY <1>1, <1>2, <1>3 DEF Becomes, SameScopes
<1>7. SameFeeds
  BY <1>1, <1>2, <1>3 DEF Becomes, SameFeeds
<1>8. SameRows
  BY <1>1, <1>2, <1>3 DEF Becomes, SameRows
<1> QED
  BY <1>4, <1>5, <1>6, <1>7, <1>8

\* The fields of the leases that LeaveClosed leaves alone, and those it
\* changes.
LEMMA LeaveClosedFields ==
  ASSUME LeaseTypeOK, MapAgrees, NEW s \in Subscribers, LeaveClosed(s)
  PROVE  /\ SameLeases
         /\ SameCounts /\ SameScopes /\ SameFeeds /\ SameRows
<1> DEFINE rec == [lease[leaseOf[s]] EXCEPT
      !.statusQueues = IF pc[s] = "abandoning" THEN @ \ {s} ELSE @]
<1>1. Becomes(leaseOf[s], rec)
  BY LeaveClosedLease
<1>2. leaseOf[s] \in ActiveLeases /\ lease[leaseOf[s]] \in LeaseRecords
  BY OwnLease DEF LeaveClosed, Leaving, Holding, Cleaning
<1>3. /\ rec.route = lease[leaseOf[s]].route
      /\ rec.subscribers = lease[leaseOf[s]].subscribers
      /\ rec.accepting = lease[leaseOf[s]].accepting
      /\ rec.released = lease[leaseOf[s]].released
      /\ rec.scope = lease[leaseOf[s]].scope
      /\ rec.feed = lease[leaseOf[s]].feed
      /\ rec.batch = lease[leaseOf[s]].batch
      /\ rec.keys = lease[leaseOf[s]].keys
  BY <1>2 DEF LeaseRecords
<1> HIDE DEF rec
<1>4. SameLeases
  BY <1>1, <1>2, <1>3 DEF Becomes, SameLeases, Forward
<1>5. SameCounts
  BY <1>1, <1>2, <1>3 DEF Becomes, SameCounts
<1>6. SameScopes
  BY <1>1, <1>2, <1>3 DEF Becomes, SameScopes
<1>7. SameFeeds
  BY <1>1, <1>2, <1>3 DEF Becomes, SameFeeds
<1>8. SameRows
  BY <1>1, <1>2, <1>3 DEF Becomes, SameRows
<1> QED
  BY <1>4, <1>5, <1>6, <1>7, <1>8

\* The fields of the leases that Leave leaves alone, and those it changes.
LEMMA LeaveFields ==
  ASSUME LeaseTypeOK, MapAgrees, CountsHolders, NEW s \in Subscribers, Leave(s)
  PROVE  /\ SameLeases
         /\ SameScopes /\ SameFeeds /\ SameRows
         /\ \A k \in ActiveLeases :
              lease'[k].subscribers = IF k = leaseOf[s] THEN lease[k].subscribers - 1 ELSE lease[k].subscribers
         /\ \A k \in ActiveLeases :
              lease'[k].accepting = IF k = leaseOf[s] THEN (lease[k].accepting /\ lease[k].subscribers > 1) ELSE lease[k].accepting
<1> DEFINE rec == [lease[leaseOf[s]] EXCEPT
      !.statusQueues = IF pc[s] = "abandoning" THEN @ \ {s} ELSE @,
      !.subscribers = lease[leaseOf[s]].subscribers - 1,
      !.accepting = @ /\ lease[leaseOf[s]].subscribers - 1 > 0]
<1>1. Becomes(leaseOf[s], rec)
  BY LeaveLease
<1>2. leaseOf[s] \in ActiveLeases /\ lease[leaseOf[s]] \in LeaseRecords /\ lease[leaseOf[s]].subscribers \in Nat
  BY OwnLease, LeaveOwn DEF Leave, Leaving, Holding, Cleaning
<1>3. /\ rec.route = lease[leaseOf[s]].route
      /\ rec.subscribers = lease[leaseOf[s]].subscribers - 1
      /\ rec.accepting = (lease[leaseOf[s]].accepting /\ lease[leaseOf[s]].subscribers - 1 > 0)
      /\ rec.released = lease[leaseOf[s]].released
      /\ rec.scope = lease[leaseOf[s]].scope
      /\ rec.feed = lease[leaseOf[s]].feed
      /\ rec.batch = lease[leaseOf[s]].batch
      /\ rec.keys = lease[leaseOf[s]].keys
  BY <1>2 DEF LeaseRecords
<1> HIDE DEF rec
<1>4. SameLeases
  BY <1>1, <1>2, <1>3 DEF Becomes, SameLeases, Forward
<1>5. SameScopes
  BY <1>1, <1>2, <1>3 DEF Becomes, SameScopes
<1>6. SameFeeds
  BY <1>1, <1>2, <1>3 DEF Becomes, SameFeeds
<1>7. SameRows
  BY <1>1, <1>2, <1>3 DEF Becomes, SameRows
<1>8. \A k \in ActiveLeases :
        lease'[k].subscribers = IF k = leaseOf[s] THEN lease[k].subscribers - 1 ELSE lease[k].subscribers
  BY <1>1, <1>2, <1>3 DEF Becomes
<1>9. lease[leaseOf[s]].subscribers - 1 > 0 <=> lease[leaseOf[s]].subscribers > 1
  BY <1>2
<1>10. \A k \in ActiveLeases :
        lease'[k].accepting = IF k = leaseOf[s] THEN (lease[k].accepting /\ lease[k].subscribers > 1) ELSE lease[k].accepting
  BY <1>1, <1>2, <1>3, <1>9 DEF Becomes
<1> QED
  BY <1>4, <1>5, <1>6, <1>7, <1>8, <1>10

\* The fields of the leases that BeginCleanup leaves alone, and those it
\* changes.
LEMMA BeginCleanupFields ==
  ASSUME LeaseTypeOK, MapAgrees, NEW s \in Subscribers, BeginCleanup(s)
  PROVE  /\ SameLeases
         /\ SameCounts /\ SameFeeds /\ SameRows
         /\ \A k \in ActiveLeases :
              lease'[k].scope = IF k = leaseOf[s] THEN (IF lease[k].scope = "open" THEN "closing" ELSE lease[k].scope) ELSE lease[k].scope
         /\ \A k \in ActiveLeases :
              lease'[k].released = IF k = leaseOf[s] THEN TRUE ELSE lease[k].released
<1> DEFINE rec == [lease[leaseOf[s]] EXCEPT
      !.scope = IF @ = "open" THEN "closing" ELSE @, !.released = TRUE]
<1>1. Becomes(leaseOf[s], rec)
  BY BeginCleanupLease
<1>2. leaseOf[s] \in ActiveLeases /\ lease[leaseOf[s]] \in LeaseRecords
  BY OwnLease DEF BeginCleanup, Holding, Cleaning
<1>3. /\ rec.route = lease[leaseOf[s]].route
      /\ rec.subscribers = lease[leaseOf[s]].subscribers
      /\ rec.accepting = lease[leaseOf[s]].accepting
      /\ rec.released = TRUE
      /\ rec.scope = (IF lease[leaseOf[s]].scope = "open" THEN "closing" ELSE lease[leaseOf[s]].scope)
      /\ rec.feed = lease[leaseOf[s]].feed
      /\ rec.batch = lease[leaseOf[s]].batch
      /\ rec.keys = lease[leaseOf[s]].keys
  BY <1>2 DEF LeaseRecords
<1> HIDE DEF rec
<1>4. SameLeases
  BY <1>1, <1>2, <1>3 DEF Becomes, SameLeases, Forward
<1>5. SameCounts
  BY <1>1, <1>2, <1>3 DEF Becomes, SameCounts
<1>6. SameFeeds
  BY <1>1, <1>2, <1>3 DEF Becomes, SameFeeds
<1>7. SameRows
  BY <1>1, <1>2, <1>3 DEF Becomes, SameRows
<1>8. \A k \in ActiveLeases :
        lease'[k].scope = IF k = leaseOf[s] THEN (IF lease[k].scope = "open" THEN "closing" ELSE lease[k].scope) ELSE lease[k].scope
  BY <1>1, <1>2, <1>3 DEF Becomes
<1>9. \A k \in ActiveLeases :
        lease'[k].released = IF k = leaseOf[s] THEN TRUE ELSE lease[k].released
  BY <1>1, <1>2, <1>3 DEF Becomes
<1> QED
  BY <1>4, <1>5, <1>6, <1>7, <1>8, <1>9

\* The fields of the leases that ScopeClosed leaves alone, and those it
\* changes.
LEMMA ScopeClosedFields ==
  ASSUME LeaseTypeOK, MapAgrees, NEW s \in Subscribers, ScopeClosed(s)
  PROVE  /\ SameLeases
         /\ SameCounts /\ SameFeeds /\ SameRows
         /\ \A k \in ActiveLeases :
              lease'[k].scope = IF k = leaseOf[s] THEN "closed" ELSE lease[k].scope
         /\ \A k \in ActiveLeases : lease'[k].released = lease[k].released
<1> DEFINE rec == [lease[leaseOf[s]] EXCEPT
      !.scope = "closed"]
<1>1. Becomes(leaseOf[s], rec)
  BY ScopeClosedLease
<1>2. leaseOf[s] \in ActiveLeases /\ lease[leaseOf[s]] \in LeaseRecords
  BY OwnLease DEF ScopeClosed, Holding, Cleaning
<1>3. /\ rec.route = lease[leaseOf[s]].route
      /\ rec.subscribers = lease[leaseOf[s]].subscribers
      /\ rec.accepting = lease[leaseOf[s]].accepting
      /\ rec.released = lease[leaseOf[s]].released
      /\ rec.scope = "closed"
      /\ rec.feed = lease[leaseOf[s]].feed
      /\ rec.batch = lease[leaseOf[s]].batch
      /\ rec.keys = lease[leaseOf[s]].keys
  BY <1>2 DEF LeaseRecords
<1> HIDE DEF rec
<1>4. SameLeases
  BY <1>1, <1>2, <1>3 DEF Becomes, SameLeases, Forward
<1>5. SameCounts
  BY <1>1, <1>2, <1>3 DEF Becomes, SameCounts
<1>6. SameFeeds
  BY <1>1, <1>2, <1>3 DEF Becomes, SameFeeds
<1>7. SameRows
  BY <1>1, <1>2, <1>3 DEF Becomes, SameRows
<1>8. \A k \in ActiveLeases :
        lease'[k].scope = IF k = leaseOf[s] THEN "closed" ELSE lease[k].scope
  BY <1>1, <1>2, <1>3 DEF Becomes
<1>9. \A k \in ActiveLeases : lease'[k].released = lease[k].released
  BY <1>1, <1>2, <1>3 DEF Becomes
<1> QED
  BY <1>4, <1>5, <1>6, <1>7, <1>8, <1>9

\* The fields of the leases that EndPublish leaves alone, and those it changes.
LEMMA EndPublishFields ==
  ASSUME LeaseTypeOK, NEW l \in ActiveLeases, EndPublish(l)
  PROVE  /\ SameLeases
         /\ SameCounts /\ SameScopes
         /\ \A k \in ActiveLeases :
              lease'[k].feed = IF k = l THEN (IF lease[k].scope = "open" THEN "running" ELSE "ended") ELSE lease[k].feed
         /\ \A k \in ActiveLeases :
              lease'[k].batch = IF k = l THEN {} ELSE lease[k].batch
         /\ \A k \in ActiveLeases : lease'[k].keys = lease[k].keys
<1> DEFINE rec == [lease[l] EXCEPT
      !.batch = {}, !.feed = IF lease[l].scope = "open" THEN "running" ELSE "ended"]
<1>1. Becomes(l, rec)
  BY EndPublishLease
<1>2. l \in ActiveLeases /\ lease[l] \in LeaseRecords /\ lease[l].feed # "ended"
  BY LeaseHolds DEF EndPublish
<1>3. /\ rec.route = lease[l].route
      /\ rec.subscribers = lease[l].subscribers
      /\ rec.accepting = lease[l].accepting
      /\ rec.released = lease[l].released
      /\ rec.scope = lease[l].scope
      /\ rec.feed = (IF lease[l].scope = "open" THEN "running" ELSE "ended")
      /\ rec.batch = {}
      /\ rec.keys = lease[l].keys
  BY <1>2 DEF LeaseRecords
<1> HIDE DEF rec
<1>4. SameLeases
  BY <1>1, <1>2, <1>3 DEF Becomes, SameLeases, Forward
<1>5. SameCounts
  BY <1>1, <1>2, <1>3 DEF Becomes, SameCounts
<1>6. SameScopes
  BY <1>1, <1>2, <1>3 DEF Becomes, SameScopes
<1>7. \A k \in ActiveLeases :
        lease'[k].feed = IF k = l THEN (IF lease[k].scope = "open" THEN "running" ELSE "ended") ELSE lease[k].feed
  BY <1>1, <1>2, <1>3 DEF Becomes
<1>8. \A k \in ActiveLeases :
        lease'[k].batch = IF k = l THEN {} ELSE lease[k].batch
  BY <1>1, <1>2, <1>3 DEF Becomes
<1>9. \A k \in ActiveLeases : lease'[k].keys = lease[k].keys
  BY <1>1, <1>2, <1>3 DEF Becomes
<1> QED
  BY <1>4, <1>5, <1>6, <1>7, <1>8, <1>9

\* The fields of the leases that FailPublish leaves alone, and those it
\* changes.
LEMMA FailPublishFields ==
  ASSUME LeaseTypeOK, NEW l \in ActiveLeases, FailPublish(l)
  PROVE  /\ SameLeases
         /\ SameCounts /\ SameScopes
         /\ \A k \in ActiveLeases :
              lease'[k].feed = IF k = l THEN (IF lease[k].scope = "open" THEN "failed" ELSE "ended") ELSE lease[k].feed
         /\ \A k \in ActiveLeases :
              lease'[k].batch = IF k = l THEN {} ELSE lease[k].batch
         /\ \A k \in ActiveLeases : lease'[k].keys = lease[k].keys
<1> DEFINE rec == [lease[l] EXCEPT
      !.batch = {}, !.feed = IF lease[l].scope = "open" THEN "failed" ELSE "ended"]
<1>1. Becomes(l, rec)
  BY FailPublishLease
<1>2. l \in ActiveLeases /\ lease[l] \in LeaseRecords /\ lease[l].feed # "ended"
  BY LeaseHolds DEF FailPublish
<1>3. /\ rec.route = lease[l].route
      /\ rec.subscribers = lease[l].subscribers
      /\ rec.accepting = lease[l].accepting
      /\ rec.released = lease[l].released
      /\ rec.scope = lease[l].scope
      /\ rec.feed = (IF lease[l].scope = "open" THEN "failed" ELSE "ended")
      /\ rec.batch = {}
      /\ rec.keys = lease[l].keys
  BY <1>2 DEF LeaseRecords
<1> HIDE DEF rec
<1>4. SameLeases
  BY <1>1, <1>2, <1>3 DEF Becomes, SameLeases, Forward
<1>5. SameCounts
  BY <1>1, <1>2, <1>3 DEF Becomes, SameCounts
<1>6. SameScopes
  BY <1>1, <1>2, <1>3 DEF Becomes, SameScopes
<1>7. \A k \in ActiveLeases :
        lease'[k].feed = IF k = l THEN (IF lease[k].scope = "open" THEN "failed" ELSE "ended") ELSE lease[k].feed
  BY <1>1, <1>2, <1>3 DEF Becomes
<1>8. \A k \in ActiveLeases :
        lease'[k].batch = IF k = l THEN {} ELSE lease[k].batch
  BY <1>1, <1>2, <1>3 DEF Becomes
<1>9. \A k \in ActiveLeases : lease'[k].keys = lease[k].keys
  BY <1>1, <1>2, <1>3 DEF Becomes
<1> QED
  BY <1>4, <1>5, <1>6, <1>7, <1>8, <1>9

\* The fields of the leases that FailMapping leaves alone, and those it
\* changes.
LEMMA FailMappingFields ==
  ASSUME LeaseTypeOK, NEW l \in ActiveLeases, FailMapping(l)
  PROVE  /\ SameLeases
         /\ SameCounts /\ SameScopes /\ SameRows
         /\ \A k \in ActiveLeases :
              lease'[k].feed = IF k = l THEN "failed" ELSE lease[k].feed
<1> DEFINE rec == [lease[l] EXCEPT
      !.feed = "failed"]
<1>1. Becomes(l, rec)
  BY FailMappingLease
<1>2. l \in ActiveLeases /\ lease[l] \in LeaseRecords /\ lease[l].feed # "ended"
  BY LeaseHolds DEF FailMapping
<1>3. /\ rec.route = lease[l].route
      /\ rec.subscribers = lease[l].subscribers
      /\ rec.accepting = lease[l].accepting
      /\ rec.released = lease[l].released
      /\ rec.scope = lease[l].scope
      /\ rec.feed = "failed"
      /\ rec.batch = lease[l].batch
      /\ rec.keys = lease[l].keys
  BY <1>2 DEF LeaseRecords
<1> HIDE DEF rec
<1>4. SameLeases
  BY <1>1, <1>2, <1>3 DEF Becomes, SameLeases, Forward
<1>5. SameCounts
  BY <1>1, <1>2, <1>3 DEF Becomes, SameCounts
<1>6. SameScopes
  BY <1>1, <1>2, <1>3 DEF Becomes, SameScopes
<1>7. SameRows
  BY <1>1, <1>2, <1>3 DEF Becomes, SameRows
<1>8. \A k \in ActiveLeases :
        lease'[k].feed = IF k = l THEN "failed" ELSE lease[k].feed
  BY <1>1, <1>2, <1>3 DEF Becomes
<1> QED
  BY <1>4, <1>5, <1>6, <1>7, <1>8

\* The fields of the leases that UpstreamEnds leaves alone, and those it
\* changes.
LEMMA UpstreamEndsFields ==
  ASSUME LeaseTypeOK, NEW l \in ActiveLeases, UpstreamEnds(l)
  PROVE  /\ SameLeases
         /\ SameCounts /\ SameScopes /\ SameRows
         /\ \A k \in ActiveLeases :
              lease'[k].feed = IF k = l THEN "failed" ELSE lease[k].feed
<1> DEFINE rec == [lease[l] EXCEPT
      !.feed = "failed"]
<1>1. Becomes(l, rec)
  BY UpstreamEndsLease
<1>2. l \in ActiveLeases /\ lease[l] \in LeaseRecords /\ lease[l].feed # "ended"
  BY LeaseHolds DEF UpstreamEnds
<1>3. /\ rec.route = lease[l].route
      /\ rec.subscribers = lease[l].subscribers
      /\ rec.accepting = lease[l].accepting
      /\ rec.released = lease[l].released
      /\ rec.scope = lease[l].scope
      /\ rec.feed = "failed"
      /\ rec.batch = lease[l].batch
      /\ rec.keys = lease[l].keys
  BY <1>2 DEF LeaseRecords
<1> HIDE DEF rec
<1>4. SameLeases
  BY <1>1, <1>2, <1>3 DEF Becomes, SameLeases, Forward
<1>5. SameCounts
  BY <1>1, <1>2, <1>3 DEF Becomes, SameCounts
<1>6. SameScopes
  BY <1>1, <1>2, <1>3 DEF Becomes, SameScopes
<1>7. SameRows
  BY <1>1, <1>2, <1>3 DEF Becomes, SameRows
<1>8. \A k \in ActiveLeases :
        lease'[k].feed = IF k = l THEN "failed" ELSE lease[k].feed
  BY <1>1, <1>2, <1>3 DEF Becomes
<1> QED
  BY <1>4, <1>5, <1>6, <1>7, <1>8

\* The fields of the leases that UpstreamInterrupted leaves alone, and those
\* it changes.
LEMMA UpstreamInterruptedFields ==
  ASSUME LeaseTypeOK, NEW l \in ActiveLeases, UpstreamInterrupted(l)
  PROVE  /\ SameLeases
         /\ SameCounts /\ SameScopes /\ SameRows
         /\ \A k \in ActiveLeases :
              lease'[k].feed = IF k = l THEN "ended" ELSE lease[k].feed
<1> DEFINE rec == [lease[l] EXCEPT
      !.feed = "ended"]
<1>1. Becomes(l, rec)
  BY UpstreamInterruptedLease
<1>2. l \in ActiveLeases /\ lease[l] \in LeaseRecords
  BY LeaseHolds
<1>3. /\ rec.route = lease[l].route
      /\ rec.subscribers = lease[l].subscribers
      /\ rec.accepting = lease[l].accepting
      /\ rec.released = lease[l].released
      /\ rec.scope = lease[l].scope
      /\ rec.feed = "ended"
      /\ rec.batch = lease[l].batch
      /\ rec.keys = lease[l].keys
  BY <1>2 DEF LeaseRecords
<1> HIDE DEF rec
<1>4. SameLeases
  BY <1>1, <1>2, <1>3 DEF Becomes, SameLeases, Forward
<1>5. SameCounts
  BY <1>1, <1>2, <1>3 DEF Becomes, SameCounts
<1>6. SameScopes
  BY <1>1, <1>2, <1>3 DEF Becomes, SameScopes
<1>7. SameRows
  BY <1>1, <1>2, <1>3 DEF Becomes, SameRows
<1>8. \A k \in ActiveLeases :
        lease'[k].feed = IF k = l THEN "ended" ELSE lease[k].feed
  BY <1>1, <1>2, <1>3 DEF Becomes
<1> QED
  BY <1>4, <1>5, <1>6, <1>7, <1>8

\* The fields of the leases that BeginDegrade leaves alone, and those it
\* changes.
LEMMA BeginDegradeFields ==
  ASSUME LeaseTypeOK, NEW l \in ActiveLeases, BeginDegrade(l)
  PROVE  /\ SameLeases
         /\ SameRows
         /\ \A k \in ActiveLeases :
              lease'[k].feed = IF k = l THEN "degrading" ELSE lease[k].feed
         /\ \A k \in ActiveLeases :
              lease'[k].accepting = IF k = l THEN FALSE ELSE lease[k].accepting
         /\ \A k \in ActiveLeases :
              lease'[k].released = IF k = l THEN TRUE ELSE lease[k].released
         /\ \A k \in ActiveLeases :
              lease'[k].subscribers = lease[k].subscribers /\ lease'[k].scope = lease[k].scope
<1> DEFINE rec == [lease[l] EXCEPT
      !.feed = "degrading", !.accepting = FALSE, !.released = TRUE]
<1>1. Becomes(l, rec)
  BY BeginDegradeLease
<1>2. l \in ActiveLeases /\ lease[l] \in LeaseRecords /\ lease[l].feed # "ended"
  BY LeaseHolds DEF BeginDegrade
<1>3. /\ rec.route = lease[l].route
      /\ rec.subscribers = lease[l].subscribers
      /\ rec.accepting = FALSE
      /\ rec.released = TRUE
      /\ rec.scope = lease[l].scope
      /\ rec.feed = "degrading"
      /\ rec.batch = lease[l].batch
      /\ rec.keys = lease[l].keys
  BY <1>2 DEF LeaseRecords
<1> HIDE DEF rec
<1>4. SameLeases
  BY <1>1, <1>2, <1>3 DEF Becomes, SameLeases, Forward
<1>5. SameRows
  BY <1>1, <1>2, <1>3 DEF Becomes, SameRows
<1>6. \A k \in ActiveLeases :
        lease'[k].feed = IF k = l THEN "degrading" ELSE lease[k].feed
  BY <1>1, <1>2, <1>3 DEF Becomes
<1>7. \A k \in ActiveLeases :
        lease'[k].accepting = IF k = l THEN FALSE ELSE lease[k].accepting
  BY <1>1, <1>2, <1>3 DEF Becomes
<1>8. \A k \in ActiveLeases :
        lease'[k].released = IF k = l THEN TRUE ELSE lease[k].released
  BY <1>1, <1>2, <1>3 DEF Becomes
<1>9. \A k \in ActiveLeases :
        lease'[k].subscribers = lease[k].subscribers /\ lease'[k].scope = lease[k].scope
  BY <1>1, <1>2, <1>3 DEF Becomes
<1> QED
  BY <1>4, <1>5, <1>6, <1>7, <1>8, <1>9

\* The fields of the leases that DegradeRows leaves alone, and those it
\* changes.
LEMMA DegradeRowsFields ==
  ASSUME LeaseTypeOK, NEW l \in ActiveLeases, DegradeRows(l)
  PROVE  /\ SameLeases
         /\ SameCounts /\ SameScopes /\ SameRows
         /\ \A k \in ActiveLeases :
              lease'[k].feed = IF k = l THEN "degraded" ELSE lease[k].feed
<1> DEFINE rec == [lease[l] EXCEPT
      !.feed = "degraded"]
<1>1. Becomes(l, rec)
  BY DegradeRowsLease
<1>2. l \in ActiveLeases /\ lease[l] \in LeaseRecords /\ lease[l].feed # "ended"
  BY LeaseHolds DEF DegradeRows
<1>3. /\ rec.route = lease[l].route
      /\ rec.subscribers = lease[l].subscribers
      /\ rec.accepting = lease[l].accepting
      /\ rec.released = lease[l].released
      /\ rec.scope = lease[l].scope
      /\ rec.feed = "degraded"
      /\ rec.batch = lease[l].batch
      /\ rec.keys = lease[l].keys
  BY <1>2 DEF LeaseRecords
<1> HIDE DEF rec
<1>4. SameLeases
  BY <1>1, <1>2, <1>3 DEF Becomes, SameLeases, Forward
<1>5. SameCounts
  BY <1>1, <1>2, <1>3 DEF Becomes, SameCounts
<1>6. SameScopes
  BY <1>1, <1>2, <1>3 DEF Becomes, SameScopes
<1>7. SameRows
  BY <1>1, <1>2, <1>3 DEF Becomes, SameRows
<1>8. \A k \in ActiveLeases :
        lease'[k].feed = IF k = l THEN "degraded" ELSE lease[k].feed
  BY <1>1, <1>2, <1>3 DEF Becomes
<1> QED
  BY <1>4, <1>5, <1>6, <1>7, <1>8

\* The fields of the leases that DegradeCloses leaves alone, and those it
\* changes.
LEMMA DegradeClosesFields ==
  ASSUME LeaseTypeOK, NEW l \in ActiveLeases, DegradeCloses(l)
  PROVE  /\ SameLeases
         /\ SameCounts /\ SameScopes /\ SameRows
         /\ \A k \in ActiveLeases :
              lease'[k].feed = IF k = l THEN "closed" ELSE lease[k].feed
<1> DEFINE rec == [lease[l] EXCEPT
      !.feed = "closed"]
<1>1. Becomes(l, rec)
  BY DegradeClosesLease
<1>2. l \in ActiveLeases /\ lease[l] \in LeaseRecords /\ lease[l].feed # "ended"
  BY LeaseHolds DEF DegradeCloses
<1>3. /\ rec.route = lease[l].route
      /\ rec.subscribers = lease[l].subscribers
      /\ rec.accepting = lease[l].accepting
      /\ rec.released = lease[l].released
      /\ rec.scope = lease[l].scope
      /\ rec.feed = "closed"
      /\ rec.batch = lease[l].batch
      /\ rec.keys = lease[l].keys
  BY <1>2 DEF LeaseRecords
<1> HIDE DEF rec
<1>4. SameLeases
  BY <1>1, <1>2, <1>3 DEF Becomes, SameLeases, Forward
<1>5. SameCounts
  BY <1>1, <1>2, <1>3 DEF Becomes, SameCounts
<1>6. SameScopes
  BY <1>1, <1>2, <1>3 DEF Becomes, SameScopes
<1>7. SameRows
  BY <1>1, <1>2, <1>3 DEF Becomes, SameRows
<1>8. \A k \in ActiveLeases :
        lease'[k].feed = IF k = l THEN "closed" ELSE lease[k].feed
  BY <1>1, <1>2, <1>3 DEF Becomes
<1> QED
  BY <1>4, <1>5, <1>6, <1>7, <1>8

\* The fields of the leases that DegradeTells leaves alone, and those it
\* changes.
LEMMA DegradeTellsFields ==
  ASSUME LeaseTypeOK, NEW l \in ActiveLeases, DegradeTells(l)
  PROVE  /\ SameLeases
         /\ SameCounts /\ SameScopes /\ SameRows
         /\ \A k \in ActiveLeases :
              lease'[k].feed = IF k = l THEN "ended" ELSE lease[k].feed
<1> DEFINE rec == [lease[l] EXCEPT
      !.feed = "ended"]
<1>1. Becomes(l, rec)
  BY DegradeTellsLease
<1>2. l \in ActiveLeases /\ lease[l] \in LeaseRecords
  BY LeaseHolds
<1>3. /\ rec.route = lease[l].route
      /\ rec.subscribers = lease[l].subscribers
      /\ rec.accepting = lease[l].accepting
      /\ rec.released = lease[l].released
      /\ rec.scope = lease[l].scope
      /\ rec.feed = "ended"
      /\ rec.batch = lease[l].batch
      /\ rec.keys = lease[l].keys
  BY <1>2 DEF LeaseRecords
<1> HIDE DEF rec
<1>4. SameLeases
  BY <1>1, <1>2, <1>3 DEF Becomes, SameLeases, Forward
<1>5. SameCounts
  BY <1>1, <1>2, <1>3 DEF Becomes, SameCounts
<1>6. SameScopes
  BY <1>1, <1>2, <1>3 DEF Becomes, SameScopes
<1>7. SameRows
  BY <1>1, <1>2, <1>3 DEF Becomes, SameRows
<1>8. \A k \in ActiveLeases :
        lease'[k].feed = IF k = l THEN "ended" ELSE lease[k].feed
  BY <1>1, <1>2, <1>3 DEF Becomes
<1> QED
  BY <1>4, <1>5, <1>6, <1>7, <1>8

\* The fields of the leases that InterruptFeed leaves alone, and those it
\* changes.
LEMMA InterruptFeedFields ==
  ASSUME LeaseTypeOK, NEW l \in ActiveLeases, InterruptFeed(l)
  PROVE  /\ SameLeases
         /\ SameCounts /\ SameScopes /\ SameRows
         /\ \A k \in ActiveLeases :
              lease'[k].feed = IF k = l THEN "ended" ELSE lease[k].feed
<1> DEFINE rec == [lease[l] EXCEPT
      !.feed = "ended"]
<1>1. Becomes(l, rec)
  BY InterruptFeedLease
<1>2. l \in ActiveLeases /\ lease[l] \in LeaseRecords
  BY LeaseHolds
<1>3. /\ rec.route = lease[l].route
      /\ rec.subscribers = lease[l].subscribers
      /\ rec.accepting = lease[l].accepting
      /\ rec.released = lease[l].released
      /\ rec.scope = lease[l].scope
      /\ rec.feed = "ended"
      /\ rec.batch = lease[l].batch
      /\ rec.keys = lease[l].keys
  BY <1>2 DEF LeaseRecords
<1> HIDE DEF rec
<1>4. SameLeases
  BY <1>1, <1>2, <1>3 DEF Becomes, SameLeases, Forward
<1>5. SameCounts
  BY <1>1, <1>2, <1>3 DEF Becomes, SameCounts
<1>6. SameScopes
  BY <1>1, <1>2, <1>3 DEF Becomes, SameScopes
<1>7. SameRows
  BY <1>1, <1>2, <1>3 DEF Becomes, SameRows
<1>8. \A k \in ActiveLeases :
        lease'[k].feed = IF k = l THEN "ended" ELSE lease[k].feed
  BY <1>1, <1>2, <1>3 DEF Becomes
<1> QED
  BY <1>4, <1>5, <1>6, <1>7, <1>8

\* The fields of the leases that BeginPublish leaves alone, and those it
\* changes.
LEMMA BeginPublishFields ==
  ASSUME LeaseTypeOK, NEW l \in ActiveLeases, BeginPublish(l)
  PROVE  /\ SameLeases
         /\ SameCounts /\ SameScopes
         /\ \A k \in ActiveLeases :
              lease'[k].feed = IF k = l THEN "publishing" ELSE lease[k].feed
         /\ \A k \in ActiveLeases : lease[k].batch \subseteq lease[k].keys =>
              lease'[k].batch \subseteq lease'[k].keys
         /\ \A k \in ActiveLeases : k # l => lease'[k].keys = lease[k].keys
<1>1. PICK b \in SUBSET Keys :
        Becomes(l, [lease[l] EXCEPT !.feed = "publishing", !.batch = b, !.keys = @ \union b])
  BY BeginPublishLease
<1> DEFINE rec == [lease[l] EXCEPT !.feed = "publishing", !.batch = b, !.keys = @ \union b]
<1>2. lease[l] \in LeaseRecords /\ lease[l].feed # "ended"
  BY LeaseHolds DEF BeginPublish
<1>3. /\ rec.route = lease[l].route
      /\ rec.subscribers = lease[l].subscribers
      /\ rec.accepting = lease[l].accepting
      /\ rec.released = lease[l].released
      /\ rec.scope = lease[l].scope
      /\ rec.feed = "publishing"
      /\ rec.batch = b
      /\ rec.keys = lease[l].keys \union b
  BY <1>2 DEF LeaseRecords
<1>4. Becomes(l, rec)
  BY <1>1
<1> HIDE DEF rec
<1>5. SameLeases
  BY <1>2, <1>3, <1>4 DEF Becomes, SameLeases, Forward
<1>6. SameCounts /\ SameScopes
  BY <1>3, <1>4 DEF Becomes, SameCounts, SameScopes
<1>7. \A k \in ActiveLeases :
        lease'[k].feed = IF k = l THEN "publishing" ELSE lease[k].feed
  BY <1>3, <1>4 DEF Becomes
<1>8. \A k \in ActiveLeases : lease[k].batch \subseteq lease[k].keys =>
        lease'[k].batch \subseteq lease'[k].keys
  BY <1>3, <1>4 DEF Becomes
<1>9. \A k \in ActiveLeases : k # l => lease'[k].keys = lease[k].keys
  BY <1>4 DEF Becomes
<1> QED
  BY <1>5, <1>6, <1>7, <1>8, <1>9

\* The fields of the leases that ManagerClosesScope leaves alone, and those it
\* changes.
LEMMA ManagerClosesScopeFields ==
  ASSUME LeaseTypeOK, NEW l \in ActiveLeases, ManagerClosesScope(l)
  PROVE  /\ SameLeases
         /\ SameCounts /\ SameFeeds /\ SameRows
<1> DEFINE rec == [lease[l] EXCEPT
      !.scope = IF @ = "open" THEN "closing" ELSE @, !.released = TRUE]
<1>1. Becomes(l, rec)
  BY ManagerClosesScopeLease
<1>2. l \in ActiveLeases /\ lease[l] \in LeaseRecords
  BY LeaseHolds
<1>3. /\ rec.route = lease[l].route
      /\ rec.subscribers = lease[l].subscribers
      /\ rec.accepting = lease[l].accepting
      /\ rec.released = TRUE
      /\ rec.scope = (IF lease[l].scope = "open" THEN "closing" ELSE lease[l].scope)
      /\ rec.feed = lease[l].feed
      /\ rec.batch = lease[l].batch
      /\ rec.keys = lease[l].keys
  BY <1>2 DEF LeaseRecords
<1> HIDE DEF rec
<1>4. SameLeases
  BY <1>1, <1>2, <1>3 DEF Becomes, SameLeases, Forward
<1>5. SameCounts
  BY <1>1, <1>2, <1>3 DEF Becomes, SameCounts
<1>6. SameFeeds
  BY <1>1, <1>2, <1>3 DEF Becomes, SameFeeds
<1>7. SameRows
  BY <1>1, <1>2, <1>3 DEF Becomes, SameRows
<1> QED
  BY <1>4, <1>5, <1>6, <1>7

\* The fields of the leases that ManagerFinishes leaves alone, and those it
\* changes.
LEMMA ManagerFinishesFields ==
  ASSUME LeaseTypeOK, NEW l \in ActiveLeases, ManagerFinishes(l)
  PROVE  /\ SameLeases
         /\ SameCounts /\ SameFeeds /\ SameRows
<1> DEFINE rec == [lease[l] EXCEPT
      !.subscriptions = {}, !.statusQueues = {},
      !.scope = IF OthersClose(l) THEN @ ELSE "closed"]
<1>1. Becomes(l, rec)
  BY ManagerFinishesLease
<1>2. l \in ActiveLeases /\ lease[l] \in LeaseRecords
  BY LeaseHolds
<1>3. /\ rec.route = lease[l].route
      /\ rec.subscribers = lease[l].subscribers
      /\ rec.accepting = lease[l].accepting
      /\ rec.released = lease[l].released
      /\ rec.scope = (IF OthersClose(l) THEN lease[l].scope ELSE "closed")
      /\ rec.feed = lease[l].feed
      /\ rec.batch = lease[l].batch
      /\ rec.keys = lease[l].keys
  BY <1>2 DEF LeaseRecords
<1> HIDE DEF rec
<1>4. SameLeases
  BY <1>1, <1>2, <1>3 DEF Becomes, SameLeases, Forward
<1>5. SameCounts
  BY <1>1, <1>2, <1>3 DEF Becomes, SameCounts
<1>6. SameFeeds
  BY <1>1, <1>2, <1>3 DEF Becomes, SameFeeds
<1>7. SameRows
  BY <1>1, <1>2, <1>3 DEF Becomes, SameRows
<1> QED
  BY <1>4, <1>5, <1>6, <1>7

-------------------------------------------------------------------------------
(* Who holds what. *)

\* Leases that do not change keep all of their fields.
LEMMA Kept ==
  ASSUME lease' = lease
  PROVE  SameLeases /\ SameCounts /\ SameScopes /\ SameFeeds /\ SameRows
BY DEF SameLeases, Forward, SameCounts, SameScopes, SameFeeds, SameRows, ActiveLeases

\* Successive leases of a route use its rows, one at a time.
LEMMA Shares ==
  ASSUME LeaseTypeOK, MapAgrees, CountsHolders, ~closed,
         NEW s \in Subscribers, pc[s] \in Holding \union Cleaning
  PROVE  /\ RouteOf[s] \in Routes
         /\ leases[RouteOf[s]] = leaseOf[s]
         /\ leaseOf[s] # None
         /\ leaseOf[s] \in ActiveLeases
         /\ lease[leaseOf[s]].route = RouteOf[s]
         /\ IsFiniteSet(HoldersOf(leaseOf[s]))
         /\ lease[leaseOf[s]].subscribers = Cardinality(HoldersOf(leaseOf[s]))
<1>1. /\ RouteOf[s] \in Routes /\ leases[RouteOf[s]] = leaseOf[s]
      /\ leaseOf[s] \in ActiveLeases /\ lease[leaseOf[s]].route = RouteOf[s]
  BY LeaseAssumption DEF MapAgrees
<1>2. leaseOf[s] # None
  BY <1>1, LeaseAssumption DEF ActiveLeases
<1>3. lease[leaseOf[s]].subscribers = Cardinality(HoldersOf(leaseOf[s]))
  BY <1>1, <1>2 DEF CountsHolders, Counted
<1>4. IsFiniteSet(HoldersOf(leaseOf[s]))
  BY LeaseAssumption, FS_Subset DEF HoldersOf
<1> QED
  BY <1>1, <1>2, <1>3, <1>4

\* A starting subscriber is the only one of its route's lease, and a lease that is
\* cleaned has no holder.
LEMMA Alone ==
  ASSUME LeaseTypeOK, MapAgrees, PermitHeld, CountsHolders, OneCleans, ~closed,
         NEW s \in Subscribers, NEW t \in Subscribers,
         pc[t] \in Holding \union Cleaning, RouteOf[t] = RouteOf[s]
  PROVE  /\ pc[s] = "starting" => t = s
         /\ pc[s] \in Cleaning => t = s
<1>1. leaseOf[t] = leases[RouteOf[s]]
  BY Shares
<1>2. ASSUME pc[s] = "starting" PROVE t = s
  <2>1. pc[s] \in Holding
    BY <1>2 DEF Holding
  <2>2. /\ leaseOf[s] = leaseOf[t] /\ IsFiniteSet(HoldersOf(leaseOf[s]))
        /\ Cardinality(HoldersOf(leaseOf[s])) = 1
    BY <1>1, <1>2, <2>1, Shares DEF PermitHeld
  <2>3. PICK h : HoldersOf(leaseOf[s]) = {h}
    BY <2>2, FS_Singleton
  <2>4. lease[leaseOf[t]].subscribers = 1
    BY <1>2, <2>2 DEF PermitHeld
  <2>5. pc[t] \in Holding
    BY <2>4 DEF OneCleans
  <2>6. s \in HoldersOf(leaseOf[s]) /\ t \in HoldersOf(leaseOf[s])
    BY <2>1, <2>2, <2>5 DEF HoldersOf
  <2> QED
    BY <2>3, <2>6
<1>3. ASSUME pc[s] \in Cleaning PROVE t = s
  <2>1. /\ leaseOf[s] = leaseOf[t] /\ IsFiniteSet(HoldersOf(leaseOf[s]))
        /\ Cardinality(HoldersOf(leaseOf[s])) = 0
    BY <1>1, <1>3, Shares DEF OneCleans
  <2>2. HoldersOf(leaseOf[s]) = {}
    BY <2>1, FS_EmptySet
  <2>3. pc[t] \in Cleaning
    BY <2>1, <2>2 DEF HoldersOf
  <2> QED
    BY <1>3, <2>3 DEF OneCleans
<1> QED
  BY <1>2, <1>3

\* A new lease, field by field.
LEMMA StartLeaseFields ==
  ASSUME LeaseTypeOK, NEW s \in Subscribers, StartLease(s)
  PROVE  LET n == Len(lease) + 1
         IN /\ n \notin ActiveLeases
            /\ ActiveLeases' = ActiveLeases \union {n}
            /\ \A k \in ActiveLeases : lease'[k] = lease[k]
            /\ lease'[n].route = RouteOf[s]
            /\ lease'[n].subscribers = 1
            /\ lease'[n].scope = "open"
            /\ lease'[n].feed = "starting"
            /\ lease'[n].keys = {}
            /\ lease'[n].batch = {}
<1> DEFINE n == Len(lease) + 1
           new == [route |-> RouteOf[s], subscribers |-> 1, accepting |-> TRUE,
                   released |-> FALSE, scope |-> "open", feed |-> "starting",
                   batch |-> {}, keys |-> {}, statusQueues |-> {s},
                   subscriptions |-> {}]
<1>1. /\ new.route = RouteOf[s] /\ new.subscribers = 1 /\ new.scope = "open"
      /\ new.feed = "starting" /\ new.keys = {} /\ new.batch = {}
  OBVIOUS
<1>2. lease'[n] = new
  BY StartLeaseLease
<1> HIDE DEF new
<1>3. /\ n \notin ActiveLeases /\ ActiveLeases' = ActiveLeases \union {n}
      /\ \A k \in ActiveLeases : lease'[k] = lease[k]
  BY StartLeaseLease
<1> QED
  BY <1>1, <1>2, <1>3

\* Nobody releases into a map without its lease unless the manager is closed.
LEMMA LeaveClosedIsClosed ==
  ASSUME LeaseTypeOK, MapAgrees, CountsHolders, NEW s \in Subscribers, LeaveClosed(s)
  PROVE  closed
<1>1. pc[s] \in Holding \union Cleaning /\ leases[RouteOf[s]] = None
  BY DEF LeaveClosed, Leaving, Current, Holding
<1> QED
  BY <1>1, Shares

\* The manager's own steps come after it was closed.
LEMMA ManagerIsClosed ==
  ASSUME MapAgrees, NEW l \in ActiveLeases, ManagerStep(l)
  PROVE  closed /\ closed' /\ leases' = leases /\ leaseOf' = leaseOf /\ pc' = pc
BY DEF ManagerStep, ManagerClosesScope, ManagerFinishes, managerVars, MapAgrees

\* The leases of two routes are two.
LEMMA Apart ==
  ASSUME MapAgrees, NEW q \in Routes, NEW r \in Routes,
         leases[q] # None, leases[q] = leases[r]
  PROVE  q = r
BY DEF MapAgrees


-------------------------------------------------------------------------------
(* The map, the subscribers and the leases agree. *)

\* None is not a lease of the list.
LEMMA NoneIsNoLease ==
  ASSUME LeaseTypeOK
  PROVE  None \notin ActiveLeases
<1>1. Len(lease) \in Nat
  BY DEF LeaseTypeOK
<1> QED
  BY <1>1, LeaseAssumption DEF ActiveLeases

\* The map and the subscribers go on agreeing while neither changes and nobody
\* comes to hold a lease.
LEMMA MapKept ==
  ASSUME MapAgrees, Forward, leases' = leases, leaseOf' = leaseOf, closed' = closed,
         closing' \subseteq closing,
         \A t \in Subscribers :
           pc'[t] \in Holding \union Cleaning => pc[t] \in Holding \union Cleaning
  PROVE  MapAgrees'
<1>1. \A r \in Routes :
        leases'[r] # None => leases'[r] \in ActiveLeases' /\ lease'[leases'[r]].route = r
  BY DEF MapAgrees, Forward
<1>2. \A s \in Subscribers :
        pc'[s] \in Holding \union Cleaning =>
          /\ leaseOf'[s] \in ActiveLeases'
          /\ lease'[leaseOf'[s]].route = RouteOf[s]
          /\ ~closed' => leases'[RouteOf[s]] = leaseOf'[s]
  BY DEF MapAgrees, Forward
<1>3. /\ closed' => \A r \in Routes : leases'[r] = None
      /\ ~closed' => closing' = {}
  BY DEF MapAgrees
<1> QED
  BY <1>1, <1>2, <1>3 DEF MapAgrees, Holding, Cleaning

\* A route whose lease goes takes no other subscriber with it.
LEMMA Unmapped ==
  ASSUME LeaseTypeOK, MapAgrees, Forward, leaseOf' = leaseOf, closed' = closed,
         closing' = closing, NEW r \in Routes, leases' = [leases EXCEPT ![r] = None],
         \A t \in Subscribers :
           pc'[t] \in Holding \union Cleaning =>
             pc[t] \in Holding \union Cleaning /\ (closed \/ RouteOf[t] # r)
  PROVE  MapAgrees'
<1>0. leases \in [Routes -> Nat \union {None}]
  BY DEF LeaseTypeOK
<1>1. \A q \in Routes : leases'[q] = IF q = r THEN None ELSE leases[q]
  BY <1>0
<1>2. \A q \in Routes :
        leases'[q] # None => leases'[q] \in ActiveLeases' /\ lease'[leases'[q]].route = q
  BY <1>1 DEF MapAgrees, Forward
<1>3. \A s \in Subscribers :
        pc'[s] \in Holding \union Cleaning =>
          /\ leaseOf'[s] \in ActiveLeases'
          /\ lease'[leaseOf'[s]].route = RouteOf[s]
          /\ ~closed' => leases'[RouteOf[s]] = leaseOf'[s]
  BY <1>1, LeaseAssumption DEF MapAgrees, Forward
<1>4. /\ closed' => \A q \in Routes : leases'[q] = None
      /\ ~closed' => closing' = {}
  BY <1>1 DEF MapAgrees
<1> QED
  BY <1>2, <1>3, <1>4 DEF MapAgrees, Holding, Cleaning

\* No step parts them.
LEMMA MapAgreesStep ==
  ASSUME LeaseTypeOK, MapAgrees, PermitHeld, CountsHolders, OneCleans, CleanupStages,
         RowsAreOwned,
         [Next]_vars
  PROVE  MapAgrees'
<1>0. pc \in [Subscribers -> SubscriberStates]
  BY DEF LeaseTypeOK
<1>1. ASSUME NEW s \in Subscribers, Subscribe(s) PROVE MapAgrees'
  <2>1. Forward
    BY <1>1, Kept DEF Subscribe, SameLeases
  <2>2. /\ leases' = leases /\ leaseOf' = leaseOf /\ closed' = closed
        /\ closing' \subseteq closing
    BY <1>1 DEF Subscribe, streamVars, managerVars
  <2>3. \A t \in Subscribers :
          pc'[t] \in Holding \union Cleaning => pc[t] \in Holding \union Cleaning
    BY <1>1, <1>0 DEF Subscribe, Goto, Holding, Cleaning
  <2> QED
    BY <2>1, <2>2, <2>3, MapKept
<1>2. ASSUME NEW s \in Subscribers, InterruptWait(s) PROVE MapAgrees'
  <2>1. Forward
    BY <1>2, Kept DEF InterruptWait, SameLeases
  <2>2. /\ leases' = leases /\ leaseOf' = leaseOf /\ closed' = closed
        /\ closing' \subseteq closing
    BY <1>2 DEF InterruptWait, streamVars, managerVars
  <2>3. \A t \in Subscribers :
          pc'[t] \in Holding \union Cleaning => pc[t] \in Holding \union Cleaning
    BY <1>2, <1>0 DEF InterruptWait, Goto, Holding, Cleaning
  <2> QED
    BY <2>1, <2>2, <2>3, MapKept
<1>3. ASSUME NEW s \in Subscribers, CloseStream(s) PROVE MapAgrees'
  <2>1. Forward
    BY <1>3, CloseStreamFields DEF SameLeases
  <2>2. /\ leases' = leases /\ leaseOf' = leaseOf /\ closed' = closed
        /\ closing' \subseteq closing
    BY <1>3 DEF CloseStream, Detach, managerVars
  <2>3. \A t \in Subscribers :
          pc'[t] \in Holding \union Cleaning => pc[t] \in Holding \union Cleaning
    BY <1>3, <1>0 DEF CloseStream, Detach, Goto, Holding, Cleaning
  <2> QED
    BY <2>1, <2>2, <2>3, MapKept
<1>4. ASSUME NEW s \in Subscribers, CoreEnds(s) PROVE MapAgrees'
  <2>1. Forward
    BY <1>4, Kept DEF CoreEnds, SameLeases
  <2> QED
    BY <1>4, <2>1, MapKept DEF CoreEnds, managerVars
<1>5. ASSUME NEW s \in Subscribers, Refuse(s) PROVE MapAgrees'
  <2>1. Forward
    BY <1>5, Kept DEF Refuse, SameLeases
  <2>2. /\ leases' = leases /\ leaseOf' = leaseOf /\ closed' = closed
        /\ closing' \subseteq closing
    BY <1>5 DEF Refuse, streamVars, managerVars
  <2>3. \A t \in Subscribers :
          pc'[t] \in Holding \union Cleaning => pc[t] \in Holding \union Cleaning
    BY <1>5, <1>0 DEF Refuse, Goto, Holding, Cleaning
  <2> QED
    BY <2>1, <2>2, <2>3, MapKept
<1>6. ASSUME NEW s \in Subscribers, Join(s) PROVE MapAgrees'
  <2>1. Forward
    BY <1>6, JoinFields DEF SameLeases
  <2>2. /\ leases[RouteOf[s]] # None /\ RouteOf[s] \in Routes
        /\ Current(s) = leases[RouteOf[s]]
    BY <1>6, LeaseAssumption DEF Join, Joinable, Current
  <2>3. /\ leases' = leases /\ closed' = closed /\ closing' = closing /\ ~closed
        /\ leaseOf' = [leaseOf EXCEPT ![s] = leases[RouteOf[s]]]
    BY <1>6, <2>2 DEF Join, managerVars
  <2>4. leaseOf \in [Subscribers -> Nat \union {None}]
    BY DEF LeaseTypeOK
  <2>5. \A t \in Subscribers \ {s} :
          pc'[t] \in Holding \union Cleaning => pc[t] \in Holding \union Cleaning
    BY <1>6, <1>0 DEF Join, Goto
  <2>6. \A r \in Routes :
          leases'[r] # None => leases'[r] \in ActiveLeases' /\ lease'[leases'[r]].route = r
    BY <2>1, <2>3 DEF MapAgrees, Forward
  <2>7. \A t \in Subscribers :
          pc'[t] \in Holding \union Cleaning =>
            /\ leaseOf'[t] \in ActiveLeases'
            /\ lease'[leaseOf'[t]].route = RouteOf[t]
            /\ ~closed' => leases'[RouteOf[t]] = leaseOf'[t]
    <3>1. leaseOf'[s] = leases[RouteOf[s]]
      BY <2>3, <2>4
    <3>2. \A t \in Subscribers \ {s} : leaseOf'[t] = leaseOf[t]
      BY <2>3, <2>4
    <3> QED
      BY <2>1, <2>2, <2>3, <2>5, <3>1, <3>2 DEF MapAgrees, Forward
  <2> QED
    BY <2>3, <2>6, <2>7 DEF MapAgrees, Holding, Cleaning
<1>7. ASSUME NEW s \in Subscribers, StartLease(s) PROVE MapAgrees'
  <2>1. /\ leases' = [leases EXCEPT ![RouteOf[s]] = Len(lease) + 1]
        /\ leaseOf' = [leaseOf EXCEPT ![s] = Len(lease) + 1]
        /\ ~closed /\ closed' = closed /\ closing' = closing
        /\ leases[RouteOf[s]] = None /\ RouteOf[s] \in Routes
    BY <1>7, LeaseAssumption DEF StartLease, Current, managerVars
  <2>2. /\ ActiveLeases' = ActiveLeases \union {Len(lease) + 1}
        /\ \A k \in ActiveLeases : lease'[k] = lease[k]
        /\ lease'[Len(lease) + 1].route = RouteOf[s]
    BY <1>7, StartLeaseFields
  <2>3. /\ \A t \in Subscribers :
             leaseOf'[t] = IF t = s THEN Len(lease) + 1 ELSE leaseOf[t]
        /\ \A r \in Routes :
             leases'[r] = IF r = RouteOf[s] THEN Len(lease) + 1 ELSE leases[r]
    BY <2>1 DEF LeaseTypeOK
  <2>4. \A t \in Subscribers \ {s} :
          pc'[t] \in Holding \union Cleaning =>
            pc[t] \in Holding \union Cleaning
    BY <1>7, <1>0 DEF StartLease, Goto
  <2>5. \A t \in Subscribers \ {s} :
          pc'[t] \in Holding \union Cleaning => RouteOf[t] # RouteOf[s]
    BY <2>1, <2>4, NoneIsNoLease DEF MapAgrees
  <2>6. \A r \in Routes :
          leases'[r] # None => leases'[r] \in ActiveLeases' /\ lease'[leases'[r]].route = r
    BY <2>2, <2>3 DEF MapAgrees
  <2>7. \A t \in Subscribers :
          pc'[t] \in Holding \union Cleaning =>
            /\ leaseOf'[t] \in ActiveLeases'
            /\ lease'[leaseOf'[t]].route = RouteOf[t]
            /\ ~closed' => leases'[RouteOf[t]] = leaseOf'[t]
    <3> TAKE t \in Subscribers
    <3>1. CASE t = s
      BY <2>1, <2>2, <2>3, <3>1
    <3>2. CASE t # s
      <4>1. leaseOf'[t] = leaseOf[t] /\ RouteOf[t] \in Routes
        BY <2>3, <3>2, LeaseAssumption
      <4> QED
        BY <2>1, <2>2, <2>3, <2>4, <2>5, <3>2, <4>1 DEF MapAgrees
    <3> QED
      BY <3>1, <3>2
  <2> QED
    BY <2>1, <2>6, <2>7 DEF MapAgrees, Holding, Cleaning
<1>8. ASSUME NEW s \in Subscribers, ForkFeed(s) PROVE MapAgrees'
  <2>1. Forward
    BY <1>8, ForkFeedFields DEF SameLeases
  <2>2. /\ leases' = leases /\ leaseOf' = leaseOf /\ closed' = closed
        /\ closing' \subseteq closing
    BY <1>8 DEF ForkFeed, streamVars, managerVars
  <2>3. \A t \in Subscribers :
          pc'[t] \in Holding \union Cleaning => pc[t] \in Holding \union Cleaning
    BY <1>8, <1>0 DEF ForkFeed, Goto, Holding, Cleaning
  <2> QED
    BY <2>1, <2>2, <2>3, MapKept
<1>9. ASSUME NEW s \in Subscribers, FailStart(s) PROVE MapAgrees'
  <2>1. /\ leases' = [leases EXCEPT ![RouteOf[s]] = None] /\ RouteOf[s] \in Routes
        /\ leaseOf' = leaseOf /\ closed' = closed /\ closing' = closing
    BY <1>9, LeaseAssumption DEF FailStart, managerVars
  <2>2. Forward
    BY <1>9, FailStartFields DEF SameLeases
  <2>3. pc[s] = "starting" /\ pc' = [pc EXCEPT ![s] = "refused"]
    BY <1>9 DEF FailStart, Goto
  <2>4. \A t \in Subscribers :
          pc'[t] \in Holding \union Cleaning =>
            pc[t] \in Holding \union Cleaning /\ t # s
    BY <1>0, <2>3 DEF Holding, Cleaning
  <2>5. \A t \in Subscribers :
          pc'[t] \in Holding \union Cleaning => closed \/ RouteOf[t] # RouteOf[s]
    BY <2>3, <2>4, Alone
  <2> QED
    BY <2>1, <2>2, <2>4, <2>5, Unmapped
<1>10. ASSUME NEW s \in Subscribers, Register(s) PROVE MapAgrees'
  <2>1. Forward
    BY <1>10, RegisterFields DEF SameLeases
  <2>2. /\ leases' = leases /\ leaseOf' = leaseOf /\ closed' = closed
        /\ closing' \subseteq closing
    BY <1>10 DEF Register, managerVars
  <2>3. \A t \in Subscribers :
          pc'[t] \in Holding \union Cleaning => pc[t] \in Holding \union Cleaning
    BY <1>10, <1>0 DEF Register, Goto, Holding, Cleaning
  <2> QED
    BY <2>1, <2>2, <2>3, MapKept
<1>11. ASSUME NEW s \in Subscribers, FailSubscribe(s) PROVE MapAgrees'
  <2>1. Forward
    BY <1>11, Kept DEF FailSubscribe, SameLeases
  <2>2. /\ leases' = leases /\ leaseOf' = leaseOf /\ closed' = closed
        /\ closing' \subseteq closing
    BY <1>11 DEF FailSubscribe, streamVars, managerVars
  <2>3. \A t \in Subscribers :
          pc'[t] \in Holding \union Cleaning => pc[t] \in Holding \union Cleaning
    BY <1>11, <1>0 DEF FailSubscribe, Goto, Holding, Cleaning
  <2> QED
    BY <2>1, <2>2, <2>3, MapKept
<1>12. ASSUME NEW s \in Subscribers, EndStream(s) PROVE MapAgrees'
  <2>1. Forward
    BY <1>12, EndStreamFields DEF SameLeases
  <2>2. /\ leases' = leases /\ leaseOf' = leaseOf /\ closed' = closed
        /\ closing' \subseteq closing
    BY <1>12 DEF EndStream, Detach, managerVars
  <2>3. \A t \in Subscribers :
          pc'[t] \in Holding \union Cleaning => pc[t] \in Holding \union Cleaning
    BY <1>12, <1>0 DEF EndStream, Detach, Goto, Holding, Cleaning
  <2> QED
    BY <2>1, <2>2, <2>3, MapKept
<1>13. ASSUME NEW s \in Subscribers, CloseInternal(s) PROVE MapAgrees'
  <2>1. Forward
    BY <1>13, Kept DEF CloseInternal, SameLeases
  <2>2. /\ leases' = leases /\ leaseOf' = leaseOf /\ closed' = closed
        /\ closing' \subseteq closing
    BY <1>13 DEF CloseInternal, managerVars
  <2>3. \A t \in Subscribers :
          pc'[t] \in Holding \union Cleaning => pc[t] \in Holding \union Cleaning
    BY <1>13, <1>0 DEF CloseInternal, Goto, Holding, Cleaning
  <2> QED
    BY <2>1, <2>2, <2>3, MapKept
<1>14. ASSUME NEW s \in Subscribers, LeaveClosed(s) PROVE MapAgrees'
  <2>1. Forward
    BY <1>14, LeaveClosedFields DEF SameLeases
  <2>2. /\ leases' = leases /\ leaseOf' = leaseOf /\ closed' = closed
        /\ closing' \subseteq closing
    BY <1>14 DEF LeaveClosed, Leaving, managerVars
  <2>3. \A t \in Subscribers :
          pc'[t] \in Holding \union Cleaning => pc[t] \in Holding \union Cleaning
    BY <1>14, <1>0 DEF LeaveClosed, Leaving, Goto, Holding, Cleaning
  <2> QED
    BY <2>1, <2>2, <2>3, MapKept
<1>15. ASSUME NEW s \in Subscribers, Leave(s) PROVE MapAgrees'
  <2>1. Forward
    BY <1>15, LeaveFields DEF SameLeases
  <2>2. /\ leases' = leases /\ leaseOf' = leaseOf /\ closed' = closed
        /\ closing' \subseteq closing
    BY <1>15 DEF Leave, Leaving, managerVars
  <2>3. \A t \in Subscribers :
          pc'[t] \in Holding \union Cleaning => pc[t] \in Holding \union Cleaning
    BY <1>15, <1>0 DEF Leave, Leaving, Goto, Holding, Cleaning
  <2> QED
    BY <2>1, <2>2, <2>3, MapKept
<1>16. ASSUME NEW s \in Subscribers, BeginCleanup(s) PROVE MapAgrees'
  <2>1. Forward
    BY <1>16, BeginCleanupFields DEF SameLeases
  <2>2. /\ leases' = leases /\ leaseOf' = leaseOf /\ closed' = closed
        /\ closing' \subseteq closing
    BY <1>16 DEF BeginCleanup, CloseScope, streamVars, managerVars
  <2>3. \A t \in Subscribers :
          pc'[t] \in Holding \union Cleaning => pc[t] \in Holding \union Cleaning
    BY <1>16, <1>0 DEF BeginCleanup, Goto, Holding, Cleaning
  <2> QED
    BY <2>1, <2>2, <2>3, MapKept
<1>17. ASSUME NEW s \in Subscribers, ScopeClosed(s) PROVE MapAgrees'
  <2>1. Forward
    BY <1>17, ScopeClosedFields DEF SameLeases
  <2>2. /\ leases' = leases /\ leaseOf' = leaseOf /\ closed' = closed
        /\ closing' \subseteq closing
    BY <1>17 DEF ScopeClosed, streamVars, managerVars
  <2>3. \A t \in Subscribers :
          pc'[t] \in Holding \union Cleaning => pc[t] \in Holding \union Cleaning
    BY <1>17, <1>0 DEF ScopeClosed, Goto, Holding, Cleaning
  <2> QED
    BY <2>1, <2>2, <2>3, MapKept
<1>18. ASSUME NEW s \in Subscribers, DeleteLeaseRows(s) PROVE MapAgrees'
  <2>1. Forward
    BY <1>18, Kept DEF DeleteLeaseRows, SameLeases
  <2>2. /\ leases' = leases /\ leaseOf' = leaseOf /\ closed' = closed
        /\ closing' \subseteq closing
    BY <1>18 DEF DeleteLeaseRows, streamVars, managerVars
  <2>3. \A t \in Subscribers :
          pc'[t] \in Holding \union Cleaning => pc[t] \in Holding \union Cleaning
    BY <1>18, <1>0 DEF DeleteLeaseRows, Goto, Holding, Cleaning
  <2> QED
    BY <2>1, <2>2, <2>3, MapKept
<1>19. ASSUME NEW s \in Subscribers, RemoveLease(s) PROVE MapAgrees'
  <2>1. /\ leases' = [leases EXCEPT ![RouteOf[s]] = None] /\ RouteOf[s] \in Routes
        /\ leaseOf' = leaseOf /\ closed' = closed /\ closing' = closing
    BY <1>19, LeaseAssumption DEF RemoveLease, managerVars
  <2>2. Forward
    BY <1>19, Kept DEF RemoveLease, SameLeases
  <2>3. pc[s] = "removed" /\ pc' = [pc EXCEPT ![s] = "done"]
    BY <1>19 DEF RemoveLease, Goto
  <2>4. \A t \in Subscribers :
          pc'[t] \in Holding \union Cleaning =>
            pc[t] \in Holding \union Cleaning /\ t # s
    BY <1>0, <2>3 DEF Holding, Cleaning
  <2>5. \A t \in Subscribers :
          pc'[t] \in Holding \union Cleaning => closed \/ RouteOf[t] # RouteOf[s]
    BY <2>3, <2>4, Alone DEF Cleaning
  <2> QED
    BY <2>1, <2>2, <2>4, <2>5, Unmapped
<1>20. ASSUME NEW s \in Subscribers, FailCleanup(s) PROVE MapAgrees'
  <2>1. Forward
    BY <1>20, Kept DEF FailCleanup, SameLeases
  <2>2. /\ leases' = leases /\ leaseOf' = leaseOf /\ closed' = closed
        /\ closing' \subseteq closing
    BY <1>20 DEF FailCleanup, streamVars, managerVars
  <2>3. \A t \in Subscribers :
          pc'[t] \in Holding \union Cleaning => pc[t] \in Holding \union Cleaning
    BY <1>20, <1>0 DEF FailCleanup, Goto, Holding, Cleaning
  <2> QED
    BY <2>1, <2>2, <2>3, MapKept
<1>21. ASSUME NEW l \in ActiveLeases, EndPublish(l) PROVE MapAgrees'
  <2>1. Forward
    BY <1>21, EndPublishFields DEF SameLeases
  <2>2. /\ leases' = leases /\ leaseOf' = leaseOf /\ closed' = closed
        /\ closing' \subseteq closing
    BY <1>21 DEF EndPublish, streamVars, managerVars
  <2>3. \A t \in Subscribers :
          pc'[t] \in Holding \union Cleaning => pc[t] \in Holding \union Cleaning
    BY <1>21, <1>0 DEF EndPublish, Holding, Cleaning
  <2> QED
    BY <2>1, <2>2, <2>3, MapKept
<1>22. ASSUME NEW l \in ActiveLeases, FailPublish(l) PROVE MapAgrees'
  <2>1. Forward
    BY <1>22, FailPublishFields DEF SameLeases
  <2>2. /\ leases' = leases /\ leaseOf' = leaseOf /\ closed' = closed
        /\ closing' \subseteq closing
    BY <1>22 DEF FailPublish, streamVars, managerVars
  <2>3. \A t \in Subscribers :
          pc'[t] \in Holding \union Cleaning => pc[t] \in Holding \union Cleaning
    BY <1>22, <1>0 DEF FailPublish, Holding, Cleaning
  <2> QED
    BY <2>1, <2>2, <2>3, MapKept
<1>23. ASSUME NEW l \in ActiveLeases, BeginDegrade(l) PROVE MapAgrees'
  <2>1. Forward
    BY <1>23, BeginDegradeFields DEF SameLeases
  <2>2. /\ leases' = leases /\ leaseOf' = leaseOf /\ closed' = closed
        /\ closing' \subseteq closing
    BY <1>23 DEF BeginDegrade, streamVars, managerVars
  <2>3. \A t \in Subscribers :
          pc'[t] \in Holding \union Cleaning => pc[t] \in Holding \union Cleaning
    BY <1>23, <1>0 DEF BeginDegrade, Holding, Cleaning
  <2> QED
    BY <2>1, <2>2, <2>3, MapKept
<1>24. ASSUME NEW l \in ActiveLeases, DegradeRows(l) PROVE MapAgrees'
  <2>1. Forward
    BY <1>24, DegradeRowsFields DEF SameLeases
  <2>2. /\ leases' = leases /\ leaseOf' = leaseOf /\ closed' = closed
        /\ closing' \subseteq closing
    BY <1>24 DEF DegradeRows, streamVars, managerVars
  <2>3. \A t \in Subscribers :
          pc'[t] \in Holding \union Cleaning => pc[t] \in Holding \union Cleaning
    BY <1>24, <1>0 DEF DegradeRows, Holding, Cleaning
  <2> QED
    BY <2>1, <2>2, <2>3, MapKept
<1>25. ASSUME NEW l \in ActiveLeases, DegradeCloses(l) PROVE MapAgrees'
  <2>1. Forward
    BY <1>25, DegradeClosesFields DEF SameLeases
  <2>2. /\ leases' = leases /\ leaseOf' = leaseOf /\ closed' = closed
        /\ closing' \subseteq closing
    BY <1>25 DEF DegradeCloses, managerVars
  <2>3. \A t \in Subscribers :
          pc'[t] \in Holding \union Cleaning => pc[t] \in Holding \union Cleaning
    BY <1>25, <1>0 DEF DegradeCloses, Holding, Cleaning
  <2> QED
    BY <2>1, <2>2, <2>3, MapKept
<1>26. ASSUME NEW l \in ActiveLeases, DegradeTells(l) PROVE MapAgrees'
  <2>1. Forward
    BY <1>26, DegradeTellsFields DEF SameLeases
  <2>2. /\ leases' = leases /\ leaseOf' = leaseOf /\ closed' = closed
        /\ closing' \subseteq closing
    BY <1>26 DEF DegradeTells, managerVars
  <2>3. \A t \in Subscribers :
          pc'[t] \in Holding \union Cleaning => pc[t] \in Holding \union Cleaning
    BY <1>26, <1>0 DEF DegradeTells, Holding, Cleaning
  <2> QED
    BY <2>1, <2>2, <2>3, MapKept
<1>27. ASSUME NEW l \in ActiveLeases, InterruptFeed(l) PROVE MapAgrees'
  <2>1. Forward
    BY <1>27, InterruptFeedFields DEF SameLeases
  <2>2. /\ leases' = leases /\ leaseOf' = leaseOf /\ closed' = closed
        /\ closing' \subseteq closing
    BY <1>27 DEF InterruptFeed, streamVars, managerVars
  <2>3. \A t \in Subscribers :
          pc'[t] \in Holding \union Cleaning => pc[t] \in Holding \union Cleaning
    BY <1>27, <1>0 DEF InterruptFeed, Holding, Cleaning
  <2> QED
    BY <2>1, <2>2, <2>3, MapKept
<1>28. ASSUME NEW l \in ActiveLeases, BeginPublish(l) PROVE MapAgrees'
  <2>1. Forward
    BY <1>28, BeginPublishFields DEF SameLeases
  <2>2. /\ leases' = leases /\ leaseOf' = leaseOf /\ closed' = closed
        /\ closing' \subseteq closing
    BY <1>28 DEF BeginPublish, streamVars, managerVars
  <2>3. \A t \in Subscribers :
          pc'[t] \in Holding \union Cleaning => pc[t] \in Holding \union Cleaning
    BY <1>28, <1>0 DEF BeginPublish, Holding, Cleaning
  <2> QED
    BY <2>1, <2>2, <2>3, MapKept
<1>29. ASSUME NEW l \in ActiveLeases, FailMapping(l) PROVE MapAgrees'
  <2>1. Forward
    BY <1>29, FailMappingFields DEF SameLeases
  <2>2. /\ leases' = leases /\ leaseOf' = leaseOf /\ closed' = closed
        /\ closing' \subseteq closing
    BY <1>29 DEF FailMapping, streamVars, managerVars
  <2>3. \A t \in Subscribers :
          pc'[t] \in Holding \union Cleaning => pc[t] \in Holding \union Cleaning
    BY <1>29, <1>0 DEF FailMapping, Holding, Cleaning
  <2> QED
    BY <2>1, <2>2, <2>3, MapKept
<1>30. ASSUME NEW l \in ActiveLeases, UpstreamEnds(l) PROVE MapAgrees'
  <2>1. Forward
    BY <1>30, UpstreamEndsFields DEF SameLeases
  <2>2. /\ leases' = leases /\ leaseOf' = leaseOf /\ closed' = closed
        /\ closing' \subseteq closing
    BY <1>30 DEF UpstreamEnds, streamVars, managerVars
  <2>3. \A t \in Subscribers :
          pc'[t] \in Holding \union Cleaning => pc[t] \in Holding \union Cleaning
    BY <1>30, <1>0 DEF UpstreamEnds, Holding, Cleaning
  <2> QED
    BY <2>1, <2>2, <2>3, MapKept
<1>31. ASSUME NEW l \in ActiveLeases, UpstreamInterrupted(l) PROVE MapAgrees'
  <2>1. Forward
    BY <1>31, UpstreamInterruptedFields DEF SameLeases
  <2>2. /\ leases' = leases /\ leaseOf' = leaseOf /\ closed' = closed
        /\ closing' \subseteq closing
    BY <1>31 DEF UpstreamInterrupted, streamVars, managerVars
  <2>3. \A t \in Subscribers :
          pc'[t] \in Holding \union Cleaning => pc[t] \in Holding \union Cleaning
    BY <1>31, <1>0 DEF UpstreamInterrupted, Holding, Cleaning
  <2> QED
    BY <2>1, <2>2, <2>3, MapKept
<1>32. ASSUME NEW l \in ActiveLeases, ManagerClosesScope(l) PROVE MapAgrees'
  <2>1. Forward
    BY <1>32, ManagerClosesScopeFields DEF SameLeases
  <2>2. /\ leases' = leases /\ leaseOf' = leaseOf /\ closed' = closed
        /\ closing' \subseteq closing
    BY <1>32 DEF ManagerClosesScope, CloseScope, streamVars, managerVars
  <2>3. \A t \in Subscribers :
          pc'[t] \in Holding \union Cleaning => pc[t] \in Holding \union Cleaning
    BY <1>32, <1>0 DEF ManagerClosesScope, Holding, Cleaning
  <2> QED
    BY <2>1, <2>2, <2>3, MapKept
<1>33. ASSUME NEW l \in ActiveLeases, ManagerFinishes(l) PROVE MapAgrees'
  <2>1. Forward
    BY <1>33, ManagerFinishesFields DEF SameLeases
  <2>2. /\ leases' = leases /\ leaseOf' = leaseOf /\ closed' = closed
        /\ closing' \subseteq closing
    BY <1>33 DEF ManagerFinishes
  <2>3. \A t \in Subscribers :
          pc'[t] \in Holding \union Cleaning => pc[t] \in Holding \union Cleaning
    BY <1>33, <1>0 DEF ManagerFinishes, Holding, Cleaning
  <2> QED
    BY <2>1, <2>2, <2>3, MapKept
<1>34. ASSUME CloseManager PROVE MapAgrees'
  <2>1. \A k \in ActiveLeases :
          k \in ActiveLeases' /\ lease'[k].route = lease[k].route
    BY <1>34, CloseManagerLease, LeaseHolds DEF LeaseRecords
  <2>2. /\ closed' /\ leases' = [r \in Routes |-> None]
        /\ leaseOf' = leaseOf /\ pc' = pc
    BY <1>34 DEF CloseManager
  <2> QED
    BY <2>1, <2>2 DEF MapAgrees, Holding, Cleaning
<1>35. ASSUME CloseCore PROVE MapAgrees'
  <2>1. Forward
    BY <1>35, Kept DEF CloseCore, SameLeases
  <2> QED
    BY <1>35, <2>1, MapKept DEF CloseCore
<1>36. ASSUME UNCHANGED vars PROVE MapAgrees'
  <2>1. Forward
    BY <1>36, Kept DEF vars, SameLeases
  <2> QED
    BY <1>36, <2>1, MapKept DEF vars, managerVars
<1> QED
  BY <1>1, <1>2, <1>3, <1>4, <1>5, <1>6, <1>7, <1>8, <1>9, <1>10, <1>11, <1>12,
     <1>13, <1>14, <1>15, <1>16, <1>17, <1>18, <1>19, <1>20, <1>21, <1>22, <1>23,
     <1>24, <1>25, <1>26, <1>27, <1>28, <1>29, <1>30, <1>31, <1>32, <1>33, <1>34,
     <1>35, <1>36 DEF Next, SubscriberStep, FeedStep,
     FeedInput, ManagerStep


-------------------------------------------------------------------------------
(* Who has the permit has it to himself. *)

\* The permit stays with its holder while nobody starts.
LEMMA PermitKept ==
  ASSUME MapAgrees, PermitHeld, ActiveLeases' = ActiveLeases, SameCounts, SameFeeds,
         SameRows, lock' = lock, leaseOf' = leaseOf,
         \A t \in Subscribers : pc'[t] = "starting" => pc[t] = "starting"
  PROVE  PermitHeld'
<1>1. \A t \in Subscribers :
        pc[t] = "starting" => leaseOf[t] \in ActiveLeases
  BY DEF MapAgrees, Holding
<1>2. \A t \in Subscribers :
       pc'[t] = "starting" =>
         /\ lock' = t
         /\ lease'[leaseOf'[t]].feed = "starting"
         /\ lease'[leaseOf'[t]].subscribers = 1
         /\ lease'[leaseOf'[t]].keys = {}
  BY <1>1 DEF PermitHeld, SameCounts, SameFeeds, SameRows
<1>3. \A l \in ActiveLeases' :
       lease'[l].feed \in {"degrading", "degraded", "closed"} => lock' = l
  BY DEF PermitHeld, SameFeeds
<1> QED
  BY <1>2, <1>3 DEF PermitHeld

\* Nobody starts and nothing degrades while the permit is free.
LEMMA PermitFree ==
  ASSUME LeaseTypeOK, PermitHeld, lock = None
  PROVE  /\ \A t \in Subscribers : pc[t] # "starting"
         /\ \A l \in ActiveLeases : lease[l].feed \notin {"degrading", "degraded", "closed"}
BY NoneIsNoLease, LeaseAssumption DEF PermitHeld

\* Subscribers and leases do not hold it together.
LEMMA PermitTaken ==
  ASSUME LeaseTypeOK, PermitHeld
  PROVE  /\ lock \in ActiveLeases => \A t \in Subscribers : pc[t] # "starting"
         /\ lock \in Subscribers =>
              /\ \A t \in Subscribers : pc[t] = "starting" => t = lock
              /\ \A l \in ActiveLeases :
                   lease[l].feed \notin {"degrading", "degraded", "closed"}
         /\ lock \in ActiveLeases =>
              \A l \in ActiveLeases :
                lease[l].feed \in {"degrading", "degraded", "closed"} => l = lock
<1>1. Len(lease) \in Nat
  BY DEF LeaseTypeOK
<1>2. ActiveLeases \intersect Subscribers = {}
  BY <1>1, LeaseAssumption DEF ActiveLeases
<1> QED
  BY <1>2 DEF PermitHeld

\* A feed that runs or fails, on its own, is nobody's that starts.
LEMMA PermitApart ==
  ASSUME MapAgrees, PermitHeld, ActiveLeases' = ActiveLeases, SameCounts,
         NEW l \in ActiveLeases, lease[l].feed # "starting",
         lease'[l].feed \notin {"degrading", "degraded", "closed"},
         \A k \in ActiveLeases :
           k # l => lease'[k].feed = lease[k].feed /\ lease'[k].keys = lease[k].keys,
         lock' = lock, leaseOf' = leaseOf, pc' = pc
  PROVE  PermitHeld'
<1>1. \A t \in Subscribers :
        pc[t] = "starting" => leaseOf[t] \in ActiveLeases /\ leaseOf[t] # l
  BY DEF MapAgrees, Holding, PermitHeld
<1>2. \A t \in Subscribers :
       pc'[t] = "starting" =>
         /\ lock' = t
         /\ lease'[leaseOf'[t]].feed = "starting"
         /\ lease'[leaseOf'[t]].subscribers = 1
         /\ lease'[leaseOf'[t]].keys = {}
  BY <1>1 DEF PermitHeld, SameCounts
<1>3. \A k \in ActiveLeases' :
       lease'[k].feed \in {"degrading", "degraded", "closed"} => lock' = k
  BY DEF PermitHeld
<1> QED
  BY <1>2, <1>3 DEF PermitHeld

\* No step takes it from its holder.
LEMMA PermitStep ==
  ASSUME LeaseTypeOK, MapAgrees, PermitHeld, CountsHolders, OneCleans, CleanupStages,
         RowsAreOwned,
         [Next]_vars
  PROVE  PermitHeld'
<1>0. pc \in [Subscribers -> SubscriberStates]
  BY DEF LeaseTypeOK
<1>1. ASSUME NEW s \in Subscribers, Subscribe(s) PROVE PermitHeld'
  <2>1. ActiveLeases' = ActiveLeases /\ SameCounts /\ SameFeeds /\ SameRows
    BY <1>1, Kept DEF Subscribe, SameLeases
  <2>2. lock' = lock /\ leaseOf' = leaseOf
    BY <1>1 DEF Subscribe
  <2>3. \A t \in Subscribers : pc'[t] = "starting" => pc[t] = "starting"
    BY <1>1, <1>0 DEF Subscribe, Goto
  <2> QED
    BY <2>1, <2>2, <2>3, PermitKept
<1>2. ASSUME NEW s \in Subscribers, InterruptWait(s) PROVE PermitHeld'
  <2>1. ActiveLeases' = ActiveLeases /\ SameCounts /\ SameFeeds /\ SameRows
    BY <1>2, Kept DEF InterruptWait, SameLeases
  <2>2. lock' = lock /\ leaseOf' = leaseOf
    BY <1>2 DEF InterruptWait
  <2>3. \A t \in Subscribers : pc'[t] = "starting" => pc[t] = "starting"
    BY <1>2, <1>0 DEF InterruptWait, Goto
  <2> QED
    BY <2>1, <2>2, <2>3, PermitKept
<1>3. ASSUME NEW s \in Subscribers, CloseStream(s) PROVE PermitHeld'
  <2>1. ActiveLeases' = ActiveLeases /\ SameCounts /\ SameFeeds /\ SameRows
    BY <1>3, CloseStreamFields DEF SameLeases
  <2>2. lock' = lock /\ leaseOf' = leaseOf
    BY <1>3 DEF CloseStream, Detach
  <2>3. \A t \in Subscribers : pc'[t] = "starting" => pc[t] = "starting"
    BY <1>3, <1>0 DEF CloseStream, Detach, Goto
  <2> QED
    BY <2>1, <2>2, <2>3, PermitKept
<1>4. ASSUME NEW s \in Subscribers, CoreEnds(s) PROVE PermitHeld'
  <2>1. ActiveLeases' = ActiveLeases /\ SameCounts /\ SameFeeds /\ SameRows
    BY <1>4, Kept DEF CoreEnds, SameLeases
  <2> QED
    BY <1>4, <2>1, PermitKept DEF CoreEnds
<1>5. ASSUME NEW s \in Subscribers, Refuse(s) PROVE PermitHeld'
  <2>1. ActiveLeases' = ActiveLeases /\ SameCounts /\ SameFeeds /\ SameRows
    BY <1>5, Kept DEF Refuse, SameLeases
  <2>2. lock' = lock /\ leaseOf' = leaseOf
    BY <1>5 DEF Refuse
  <2>3. \A t \in Subscribers : pc'[t] = "starting" => pc[t] = "starting"
    BY <1>5, <1>0 DEF Refuse, Goto
  <2> QED
    BY <2>1, <2>2, <2>3, PermitKept
<1>6. ASSUME NEW s \in Subscribers, Join(s) PROVE PermitHeld'
  <2>1. ActiveLeases' = ActiveLeases /\ SameFeeds
    BY <1>6, JoinFields DEF SameLeases
  <2>2. lock = None /\ lock' = lock
    BY <1>6 DEF Join
  <2>3. \A t \in Subscribers : pc'[t] # "starting"
    BY <1>6, <1>0, <2>2, PermitFree DEF Join, Goto
  <2> QED
    BY <2>1, <2>2, <2>3, PermitFree DEF PermitHeld, SameFeeds
<1>7. ASSUME NEW s \in Subscribers, StartLease(s) PROVE PermitHeld'
  <2> DEFINE n == Len(lease) + 1
  <2>1. /\ ActiveLeases' = ActiveLeases \union {n}
        /\ \A k \in ActiveLeases : lease'[k] = lease[k]
        /\ lease'[n].feed = "starting" /\ lease'[n].subscribers = 1 /\ lease'[n].keys = {}
    BY <1>7, StartLeaseFields
  <2> HIDE DEF n
  <2>2. lock = None /\ lock' = s /\ leaseOf'[s] = n
    BY <1>7 DEF StartLease, LeaseTypeOK, n
  <2>3. \A t \in Subscribers : pc'[t] = "starting" => t = s
    BY <1>7, <1>0, <2>2, PermitFree DEF StartLease, Goto
  <2>4. \A l \in ActiveLeases' : lease'[l].feed \notin {"degrading", "degraded", "closed"}
    BY <2>1, <2>2, PermitFree
  <2> QED
    BY <2>1, <2>2, <2>3, <2>4 DEF PermitHeld
<1>8. ASSUME NEW s \in Subscribers, ForkFeed(s) PROVE PermitHeld'
  <2>1. /\ ActiveLeases' = ActiveLeases
        /\ \A k \in ActiveLeases :
             lease'[k].feed = lease[k].feed \/ lease'[k].feed \in {"running", "ended"}
    BY <1>8, ForkFeedFields DEF SameLeases
  <2>2. lock = s /\ pc' = [pc EXCEPT ![s] = "subscribing"]
    BY <1>8 DEF ForkFeed, Goto, PermitHeld
  <2>3. \A t \in Subscribers : pc'[t] # "starting"
    BY <1>0, <2>2, PermitTaken
  <2> QED
    BY <2>1, <2>2, <2>3, PermitTaken DEF PermitHeld
<1>9. ASSUME NEW s \in Subscribers, FailStart(s) PROVE PermitHeld'
  <2>1. /\ ActiveLeases' = ActiveLeases
        /\ \A k \in ActiveLeases :
             lease'[k].feed = lease[k].feed \/ lease'[k].feed \in {"running", "ended"}
    BY <1>9, FailStartFields DEF SameLeases
  <2>2. lock = s /\ pc' = [pc EXCEPT ![s] = "refused"]
    BY <1>9 DEF FailStart, Goto, PermitHeld
  <2>3. \A t \in Subscribers : pc'[t] # "starting"
    BY <1>0, <2>2, PermitTaken
  <2> QED
    BY <2>1, <2>2, <2>3, PermitTaken DEF PermitHeld
<1>10. ASSUME NEW s \in Subscribers, Register(s) PROVE PermitHeld'
  <2>1. ActiveLeases' = ActiveLeases /\ SameCounts /\ SameFeeds /\ SameRows
    BY <1>10, RegisterFields DEF SameLeases
  <2>2. lock' = lock /\ leaseOf' = leaseOf
    BY <1>10 DEF Register
  <2>3. \A t \in Subscribers : pc'[t] = "starting" => pc[t] = "starting"
    BY <1>10, <1>0 DEF Register, Goto
  <2> QED
    BY <2>1, <2>2, <2>3, PermitKept
<1>11. ASSUME NEW s \in Subscribers, FailSubscribe(s) PROVE PermitHeld'
  <2>1. ActiveLeases' = ActiveLeases /\ SameCounts /\ SameFeeds /\ SameRows
    BY <1>11, Kept DEF FailSubscribe, SameLeases
  <2>2. lock' = lock /\ leaseOf' = leaseOf
    BY <1>11 DEF FailSubscribe
  <2>3. \A t \in Subscribers : pc'[t] = "starting" => pc[t] = "starting"
    BY <1>11, <1>0 DEF FailSubscribe, Goto
  <2> QED
    BY <2>1, <2>2, <2>3, PermitKept
<1>12. ASSUME NEW s \in Subscribers, EndStream(s) PROVE PermitHeld'
  <2>1. ActiveLeases' = ActiveLeases /\ SameCounts /\ SameFeeds /\ SameRows
    BY <1>12, EndStreamFields DEF SameLeases
  <2>2. lock' = lock /\ leaseOf' = leaseOf
    BY <1>12 DEF EndStream, Detach
  <2>3. \A t \in Subscribers : pc'[t] = "starting" => pc[t] = "starting"
    BY <1>12, <1>0 DEF EndStream, Detach, Goto
  <2> QED
    BY <2>1, <2>2, <2>3, PermitKept
<1>13. ASSUME NEW s \in Subscribers, CloseInternal(s) PROVE PermitHeld'
  <2>1. ActiveLeases' = ActiveLeases /\ SameCounts /\ SameFeeds /\ SameRows
    BY <1>13, Kept DEF CloseInternal, SameLeases
  <2>2. lock' = lock /\ leaseOf' = leaseOf
    BY <1>13 DEF CloseInternal
  <2>3. \A t \in Subscribers : pc'[t] = "starting" => pc[t] = "starting"
    BY <1>13, <1>0 DEF CloseInternal, Goto
  <2> QED
    BY <2>1, <2>2, <2>3, PermitKept
<1>14. ASSUME NEW s \in Subscribers, LeaveClosed(s) PROVE PermitHeld'
  <2>1. ActiveLeases' = ActiveLeases /\ SameCounts /\ SameFeeds /\ SameRows
    BY <1>14, LeaveClosedFields DEF SameLeases
  <2>2. lock' = lock /\ leaseOf' = leaseOf
    BY <1>14 DEF LeaveClosed, Leaving
  <2>3. \A t \in Subscribers : pc'[t] = "starting" => pc[t] = "starting"
    BY <1>14, <1>0 DEF LeaveClosed, Leaving, Goto
  <2> QED
    BY <2>1, <2>2, <2>3, PermitKept
<1>15. ASSUME NEW s \in Subscribers, Leave(s) PROVE PermitHeld'
  <2>1. ActiveLeases' = ActiveLeases /\ SameFeeds
    BY <1>15, LeaveFields DEF SameLeases
  <2>2. lock = None /\ lock' = lock
    BY <1>15 DEF Leave, Leaving
  <2>3. \A t \in Subscribers : pc'[t] # "starting"
    BY <1>15, <1>0, <2>2, PermitFree DEF Leave, Goto
  <2> QED
    BY <2>1, <2>2, <2>3, PermitFree DEF PermitHeld, SameFeeds
<1>16. ASSUME NEW s \in Subscribers, BeginCleanup(s) PROVE PermitHeld'
  <2>1. ActiveLeases' = ActiveLeases /\ SameCounts /\ SameFeeds /\ SameRows
    BY <1>16, BeginCleanupFields DEF SameLeases
  <2>2. lock' = lock /\ leaseOf' = leaseOf
    BY <1>16 DEF BeginCleanup
  <2>3. \A t \in Subscribers : pc'[t] = "starting" => pc[t] = "starting"
    BY <1>16, <1>0 DEF BeginCleanup, Goto
  <2> QED
    BY <2>1, <2>2, <2>3, PermitKept
<1>17. ASSUME NEW s \in Subscribers, ScopeClosed(s) PROVE PermitHeld'
  <2>1. ActiveLeases' = ActiveLeases /\ SameCounts /\ SameFeeds /\ SameRows
    BY <1>17, ScopeClosedFields DEF SameLeases
  <2>2. lock' = lock /\ leaseOf' = leaseOf
    BY <1>17 DEF ScopeClosed
  <2>3. \A t \in Subscribers : pc'[t] = "starting" => pc[t] = "starting"
    BY <1>17, <1>0 DEF ScopeClosed, Goto
  <2> QED
    BY <2>1, <2>2, <2>3, PermitKept
<1>18. ASSUME NEW s \in Subscribers, DeleteLeaseRows(s) PROVE PermitHeld'
  <2>1. ActiveLeases' = ActiveLeases /\ SameCounts /\ SameFeeds /\ SameRows
    BY <1>18, Kept DEF DeleteLeaseRows, SameLeases
  <2>2. lock' = lock /\ leaseOf' = leaseOf
    BY <1>18 DEF DeleteLeaseRows
  <2>3. \A t \in Subscribers : pc'[t] = "starting" => pc[t] = "starting"
    BY <1>18, <1>0 DEF DeleteLeaseRows, Goto
  <2> QED
    BY <2>1, <2>2, <2>3, PermitKept
<1>19. ASSUME NEW s \in Subscribers, RemoveLease(s) PROVE PermitHeld'
  <2>1. ActiveLeases' = ActiveLeases /\ SameCounts /\ SameFeeds /\ SameRows
    BY <1>19, Kept DEF RemoveLease, SameLeases
  <2>2. lock' = lock /\ leaseOf' = leaseOf
    BY <1>19 DEF RemoveLease
  <2>3. \A t \in Subscribers : pc'[t] = "starting" => pc[t] = "starting"
    BY <1>19, <1>0 DEF RemoveLease, Goto
  <2> QED
    BY <2>1, <2>2, <2>3, PermitKept
<1>20. ASSUME NEW s \in Subscribers, FailCleanup(s) PROVE PermitHeld'
  <2>1. ActiveLeases' = ActiveLeases /\ SameCounts /\ SameFeeds /\ SameRows
    BY <1>20, Kept DEF FailCleanup, SameLeases
  <2>2. lock' = lock /\ leaseOf' = leaseOf
    BY <1>20 DEF FailCleanup
  <2>3. \A t \in Subscribers : pc'[t] = "starting" => pc[t] = "starting"
    BY <1>20, <1>0 DEF FailCleanup, Goto
  <2> QED
    BY <2>1, <2>2, <2>3, PermitKept
<1>21. ASSUME NEW l \in ActiveLeases, EndPublish(l) PROVE PermitHeld'
  <2>1. /\ ActiveLeases' = ActiveLeases /\ SameCounts
        /\ \A k \in ActiveLeases :
             k # l => lease'[k].feed = lease[k].feed /\ lease'[k].keys = lease[k].keys
        /\ lease'[l].feed \notin {"degrading", "degraded", "closed"}
    BY <1>21, EndPublishFields DEF SameLeases
  <2>2. lease[l].feed # "starting" /\ lock' = lock /\ leaseOf' = leaseOf /\ pc' = pc
    BY <1>21 DEF EndPublish
  <2> QED
    BY <2>1, <2>2, PermitApart
<1>22. ASSUME NEW l \in ActiveLeases, FailPublish(l) PROVE PermitHeld'
  <2>1. /\ ActiveLeases' = ActiveLeases /\ SameCounts
        /\ \A k \in ActiveLeases :
             k # l => lease'[k].feed = lease[k].feed /\ lease'[k].keys = lease[k].keys
        /\ lease'[l].feed \notin {"degrading", "degraded", "closed"}
    BY <1>22, FailPublishFields DEF SameLeases
  <2>2. lease[l].feed # "starting" /\ lock' = lock /\ leaseOf' = leaseOf /\ pc' = pc
    BY <1>22 DEF FailPublish
  <2> QED
    BY <2>1, <2>2, PermitApart
<1>23. ASSUME NEW l \in ActiveLeases, BeginDegrade(l) PROVE PermitHeld'
  <2>1. /\ ActiveLeases' = ActiveLeases
        /\ \A k \in ActiveLeases : k # l => lease'[k].feed = lease[k].feed
    BY <1>23, BeginDegradeFields DEF SameLeases
  <2>2. lock = None /\ lock' = l /\ pc' = pc
    BY <1>23 DEF BeginDegrade
  <2> QED
    BY <2>1, <2>2, PermitFree DEF PermitHeld
<1>24. ASSUME NEW l \in ActiveLeases, DegradeRows(l) PROVE PermitHeld'
  <2>1. /\ ActiveLeases' = ActiveLeases
        /\ \A k \in ActiveLeases : k # l => lease'[k].feed = lease[k].feed
        /\ l = lock \/ lease'[l].feed = "ended"
    BY <1>24, DegradeRowsFields DEF SameLeases, DegradeRows, PermitHeld
  <2>2. lock = l /\ pc' = pc /\ lock' = lock
    BY <1>24 DEF DegradeRows, PermitHeld
  <2> QED
    BY <1>24, <2>1, <2>2, PermitTaken DEF PermitHeld
<1>25. ASSUME NEW l \in ActiveLeases, DegradeCloses(l) PROVE PermitHeld'
  <2>1. /\ ActiveLeases' = ActiveLeases
        /\ \A k \in ActiveLeases : k # l => lease'[k].feed = lease[k].feed
        /\ l = lock \/ lease'[l].feed = "ended"
    BY <1>25, DegradeClosesFields DEF SameLeases, DegradeCloses, PermitHeld
  <2>2. lock = l /\ pc' = pc /\ lock' = lock
    BY <1>25 DEF DegradeCloses, PermitHeld
  <2> QED
    BY <1>25, <2>1, <2>2, PermitTaken DEF PermitHeld
<1>26. ASSUME NEW l \in ActiveLeases, DegradeTells(l) PROVE PermitHeld'
  <2>1. /\ ActiveLeases' = ActiveLeases
        /\ \A k \in ActiveLeases : k # l => lease'[k].feed = lease[k].feed
        /\ l = lock \/ lease'[l].feed = "ended"
    BY <1>26, DegradeTellsFields DEF SameLeases, DegradeTells, PermitHeld
  <2>2. lock = l /\ pc' = pc /\ lock' = None
    BY <1>26 DEF DegradeTells, PermitHeld
  <2> QED
    BY <1>26, <2>1, <2>2, PermitTaken, DegradeTellsFields DEF PermitHeld
<1>27. ASSUME NEW l \in ActiveLeases, InterruptFeed(l) PROVE PermitHeld'
  <2>1. /\ ActiveLeases' = ActiveLeases /\ SameCounts
        /\ \A k \in ActiveLeases :
             k # l => lease'[k].feed = lease[k].feed /\ lease'[k].keys = lease[k].keys
        /\ lease'[l].feed \notin {"degrading", "degraded", "closed"}
    BY <1>27, InterruptFeedFields DEF SameLeases, SameRows
  <2>2. /\ lease[l].feed # "starting" /\ leaseOf' = leaseOf /\ pc' = pc
        /\ lock' = IF lock = l THEN None ELSE lock
    BY <1>27 DEF InterruptFeed
  <2>3. CASE lock = l
    BY <2>1, <2>2, <2>3, PermitTaken DEF PermitHeld
  <2>4. CASE lock # l
    BY <2>1, <2>2, <2>4, PermitApart
  <2> QED
    BY <2>3, <2>4
<1>28. ASSUME NEW l \in ActiveLeases, BeginPublish(l) PROVE PermitHeld'
  <2>1. /\ ActiveLeases' = ActiveLeases /\ SameCounts
        /\ \A k \in ActiveLeases :
             k # l => lease'[k].feed = lease[k].feed /\ lease'[k].keys = lease[k].keys
        /\ lease'[l].feed \notin {"degrading", "degraded", "closed"}
    BY <1>28, BeginPublishFields DEF SameLeases
  <2>2. lease[l].feed # "starting" /\ lock' = lock /\ leaseOf' = leaseOf /\ pc' = pc
    BY <1>28 DEF BeginPublish
  <2> QED
    BY <2>1, <2>2, PermitApart
<1>29. ASSUME NEW l \in ActiveLeases, FailMapping(l) PROVE PermitHeld'
  <2>1. /\ ActiveLeases' = ActiveLeases /\ SameCounts
        /\ \A k \in ActiveLeases :
             k # l => lease'[k].feed = lease[k].feed /\ lease'[k].keys = lease[k].keys
        /\ lease'[l].feed \notin {"degrading", "degraded", "closed"}
    BY <1>29, FailMappingFields DEF SameLeases, SameRows
  <2>2. lease[l].feed # "starting" /\ lock' = lock /\ leaseOf' = leaseOf /\ pc' = pc
    BY <1>29 DEF FailMapping
  <2> QED
    BY <2>1, <2>2, PermitApart
<1>30. ASSUME NEW l \in ActiveLeases, UpstreamEnds(l) PROVE PermitHeld'
  <2>1. /\ ActiveLeases' = ActiveLeases /\ SameCounts
        /\ \A k \in ActiveLeases :
             k # l => lease'[k].feed = lease[k].feed /\ lease'[k].keys = lease[k].keys
        /\ lease'[l].feed \notin {"degrading", "degraded", "closed"}
    BY <1>30, UpstreamEndsFields DEF SameLeases, SameRows
  <2>2. lease[l].feed # "starting" /\ lock' = lock /\ leaseOf' = leaseOf /\ pc' = pc
    BY <1>30 DEF UpstreamEnds
  <2> QED
    BY <2>1, <2>2, PermitApart
<1>31. ASSUME NEW l \in ActiveLeases, UpstreamInterrupted(l) PROVE PermitHeld'
  <2>1. /\ ActiveLeases' = ActiveLeases /\ SameCounts
        /\ \A k \in ActiveLeases :
             k # l => lease'[k].feed = lease[k].feed /\ lease'[k].keys = lease[k].keys
        /\ lease'[l].feed \notin {"degrading", "degraded", "closed"}
    BY <1>31, UpstreamInterruptedFields DEF SameLeases, SameRows
  <2>2. lease[l].feed # "starting" /\ lock' = lock /\ leaseOf' = leaseOf /\ pc' = pc
    BY <1>31 DEF UpstreamInterrupted
  <2> QED
    BY <2>1, <2>2, PermitApart
<1>32. ASSUME NEW l \in ActiveLeases, ManagerClosesScope(l) PROVE PermitHeld'
  <2>1. ActiveLeases' = ActiveLeases /\ SameCounts /\ SameFeeds /\ SameRows
    BY <1>32, ManagerClosesScopeFields DEF SameLeases
  <2> QED
    BY <1>32, <2>1, PermitKept DEF ManagerClosesScope
<1>33. ASSUME NEW l \in ActiveLeases, ManagerFinishes(l) PROVE PermitHeld'
  <2>1. ActiveLeases' = ActiveLeases /\ SameCounts /\ SameFeeds /\ SameRows
    BY <1>33, ManagerFinishesFields DEF SameLeases
  <2> QED
    BY <1>33, <2>1, PermitKept DEF ManagerFinishes
<1>34. ASSUME CloseManager PROVE PermitHeld'
  <2>1. /\ ActiveLeases' = ActiveLeases
        /\ \A k \in ActiveLeases : lease'[k].feed = lease[k].feed
    BY <1>34, CloseManagerLease, LeaseHolds DEF LeaseRecords
  <2>2. lock = None /\ lock' = lock /\ pc' = pc
    BY <1>34 DEF CloseManager
  <2> QED
    BY <2>1, <2>2, PermitFree DEF PermitHeld
<1>35. ASSUME CloseCore PROVE PermitHeld'
  <2>1. ActiveLeases' = ActiveLeases /\ SameCounts /\ SameFeeds /\ SameRows
    BY <1>35, Kept DEF CloseCore, SameLeases
  <2> QED
    BY <1>35, <2>1, PermitKept DEF CloseCore
<1>36. ASSUME UNCHANGED vars PROVE PermitHeld'
  <2>1. ActiveLeases' = ActiveLeases /\ SameCounts /\ SameFeeds /\ SameRows
    BY <1>36, Kept DEF vars, SameLeases
  <2> QED
    BY <1>36, <2>1, PermitKept DEF vars
<1> QED
  BY <1>1, <1>2, <1>3, <1>4, <1>5, <1>6, <1>7, <1>8, <1>9, <1>10, <1>11, <1>12,
     <1>13, <1>14, <1>15, <1>16, <1>17, <1>18, <1>19, <1>20, <1>21, <1>22, <1>23,
     <1>24, <1>25, <1>26, <1>27, <1>28, <1>29, <1>30, <1>31, <1>32, <1>33, <1>34,
     <1>35, <1>36 DEF Next, SubscriberStep, FeedStep,
     FeedInput, ManagerStep


-------------------------------------------------------------------------------
(* The lease and the ledger count the holders. *)

\* The ledger keeps its entries, their counts, and what it called degraded.
LedgerKept ==
  \A r \in Routes :
    /\ ledger'[r] = None <=> ledger[r] = None
    /\ ledger[r] # None =>
         /\ ledger'[r].subscribers = ledger[r].subscribers
         /\ ledger[r].status = "degraded" => ledger'[r].status = "degraded"

\* An entry counts one more, or one less.
LEMMA AddedCounts ==
  ASSUME NEW h \in LedgerEntries
  PROVE  /\ SubscriberAdded(h) # None
         /\ SubscriberAdded(h).subscribers = h.subscribers + 1
<1>1. h # None /\ h.subscribers + 1 \in Nat
  BY LeaseAssumption DEF LedgerEntries
<1>2. SubscriberAdded(h) = [h EXCEPT !.subscribers = h.subscribers + 1]
  BY <1>1 DEF SubscriberAdded
<1>3. SubscriberAdded(h) \in LedgerEntries
  BY <1>1, <1>2 DEF LedgerEntries
<1>4. SubscriberAdded(h).subscribers = h.subscribers + 1
  BY <1>2 DEF LedgerEntries
<1> QED
  BY <1>3, <1>4, LeaseAssumption

\* An entry that counts a subscriber still exists when it has lost it.
LEMMA RemovedCounts ==
  ASSUME NEW h \in LedgerEntries, h.subscribers # 0
  PROVE  /\ SubscriberRemoved(h) # None
         /\ SubscriberRemoved(h).subscribers = h.subscribers - 1
         /\ WithStatus(SubscriberRemoved(h), "stopping") # None
         /\ WithStatus(SubscriberRemoved(h), "stopping").subscribers = h.subscribers - 1
<1> DEFINE g == [h EXCEPT !.subscribers = h.subscribers - 1]
<1>1. h # None /\ h.subscribers - 1 \in Nat
  BY LeaseAssumption DEF LedgerEntries
<1>2. SubscriberRemoved(h) = g
  BY <1>1 DEF SubscriberRemoved
<1>3. g \in LedgerEntries /\ g.subscribers = h.subscribers - 1
  BY <1>1 DEF LedgerEntries
<1> HIDE DEF g
<1>4. WithStatus(g, "stopping") = [g EXCEPT !.status = "stopping"] /\ g # None
  BY <1>3, LeaseAssumption DEF WithStatus
<1>5. /\ [g EXCEPT !.status = "stopping"] \in LedgerEntries
      /\ [g EXCEPT !.status = "stopping"].subscribers = h.subscribers - 1
  BY <1>3 DEF LedgerEntries
<1> QED
  BY <1>2, <1>3, <1>4, <1>5, LeaseAssumption

\* A degraded entry counts as many as before.
LEMMA StatusKept ==
  ASSUME LeaseTypeOK, NEW r \in Routes, HealthStatus(r, "degraded")
  PROVE  LedgerKept /\ (ledger[r] # None => ledger'[r].status = "degraded")
<1>1. ledger \in [Routes -> LedgerEntries \union {None}]
  BY DEF LeaseTypeOK
<1>2. \A q \in Routes :
        ledger'[q] = IF q = r THEN WithStatus(ledger[r], "degraded") ELSE ledger[q]
  BY <1>1 DEF HealthStatus
<1>3. ASSUME ledger[r] # None
      PROVE  /\ WithStatus(ledger[r], "degraded") # None
             /\ WithStatus(ledger[r], "degraded").subscribers = ledger[r].subscribers
             /\ WithStatus(ledger[r], "degraded").status = "degraded"
  <2>1. ledger[r] \in LedgerEntries
    BY <1>1, <1>3
  <2>2. WithStatus(ledger[r], "degraded") \in LedgerEntries
    BY <1>3, <2>1 DEF WithStatus, LedgerEntries
  <2> QED
    BY <1>3, <2>1, <2>2, LeaseAssumption DEF WithStatus, LedgerEntries
<1>4. ledger[r] = None => WithStatus(ledger[r], "degraded") = None
  BY DEF WithStatus
<1> QED
  BY <1>2, <1>3, <1>4 DEF LedgerKept

\* A count is of the same subscribers after most steps.
LEMMA CountsKept ==
  ASSUME MapAgrees, CountsHolders, closed' = closed, leases' = leases,
         leaseOf' = leaseOf, LedgerKept,
         \A k \in ActiveLeases :
           /\ lease'[k].subscribers = lease[k].subscribers
           /\ lease'[k].accepting => lease[k].accepting,
         \A t \in Subscribers : pc'[t] \in Holding <=> pc[t] \in Holding
  PROVE  CountsHolders'
<1>2. ASSUME ~closed, NEW r \in Routes PROVE Counted(r)'
  <2>1. HoldersOf(leases[r])' = HoldersOf(leases[r])
    BY DEF HoldersOf, Holding
  <2> QED
    BY <1>2, <2>1 DEF CountsHolders, Counted, LedgerKept, MapAgrees
<1> QED
  BY <1>2 DEF CountsHolders

\* The other routes' counts are, after a step about one route r.
LEMMA OthersCount ==
  ASSUME MapAgrees, CountsHolders, ~closed, NEW r \in Routes,
         \A q \in Routes : q # r => leases'[q] = leases[q] /\ ledger'[q] = ledger[q],
         \A k \in ActiveLeases :
           lease[k].route # r => /\ lease'[k].subscribers = lease[k].subscribers
                                 /\ lease'[k].accepting => lease[k].accepting,
         \A t \in Subscribers :
           RouteOf[t] # r => /\ leaseOf'[t] = leaseOf[t]
                             /\ pc'[t] \in Holding <=> pc[t] \in Holding,
         \A t \in Subscribers :
           RouteOf[t] = r /\ pc'[t] \in Holding /\ leaseOf'[t] \in ActiveLeases =>
             lease[leaseOf'[t]].route = r
  PROVE  \A q \in Routes : q # r => Counted(q)'
<1> SUFFICES ASSUME NEW q \in Routes, q # r PROVE Counted(q)'
  OBVIOUS
<1>1. ASSUME leases[q] # None PROVE HoldersOf(leases[q])' = HoldersOf(leases[q])
  <2>1. leases[q] \in ActiveLeases /\ lease[leases[q]].route = q
    BY <1>1 DEF MapAgrees
  <2>2. leases'[q] = leases[q]
    OBVIOUS
  <2>3. ASSUME NEW t \in Subscribers
        PROVE  (leaseOf'[t] = leases[q] /\ pc'[t] \in Holding)
                 <=> (leaseOf[t] = leases[q] /\ pc[t] \in Holding)
    <3>1. CASE RouteOf[t] # r
      BY <3>1
    <3>2. CASE RouteOf[t] = r
      <4>1. leaseOf[t] = leases[q] => pc[t] \notin Holding
        BY <2>1, <3>2 DEF MapAgrees
      <4>2. leaseOf'[t] = leases[q] => pc'[t] \notin Holding
        BY <2>1, <3>2
      <4> QED
        BY <4>1, <4>2
    <3> QED
      BY <3>1, <3>2
  <2> QED
    BY <2>2, <2>3 DEF HoldersOf, Holding
<1> QED
  BY <1>1 DEF CountsHolders, Counted, MapAgrees

\* No step counts wrong.
LEMMA CountsStep ==
  ASSUME LeaseTypeOK, MapAgrees, PermitHeld, CountsHolders, OneCleans, CleanupStages,
         RowsAreOwned,
         [Next]_vars
  PROVE  CountsHolders'
<1>0. pc \in [Subscribers -> SubscriberStates]
  BY DEF LeaseTypeOK
<1>1. ASSUME NEW s \in Subscribers, Subscribe(s) PROVE CountsHolders'
  <2>1. \A k \in ActiveLeases :
          /\ lease'[k].subscribers = lease[k].subscribers
          /\ lease'[k].accepting => lease[k].accepting
    BY <1>1, Kept DEF Subscribe, SameCounts
  <2>2. closed' = closed /\ leases' = leases /\ leaseOf' = leaseOf
    BY <1>1 DEF Subscribe, managerVars
  <2>3. \A t \in Subscribers : pc'[t] \in Holding <=> pc[t] \in Holding
    BY <1>1, <1>0 DEF Subscribe, Goto, Holding
  <2>4. LedgerKept
    BY <1>1 DEF Subscribe, LedgerKept
  <2> QED
    BY <2>1, <2>2, <2>3, <2>4, CountsKept
<1>2. ASSUME NEW s \in Subscribers, InterruptWait(s) PROVE CountsHolders'
  <2>1. \A k \in ActiveLeases :
          /\ lease'[k].subscribers = lease[k].subscribers
          /\ lease'[k].accepting => lease[k].accepting
    BY <1>2, Kept DEF InterruptWait, SameCounts
  <2>2. closed' = closed /\ leases' = leases /\ leaseOf' = leaseOf
    BY <1>2 DEF InterruptWait, managerVars
  <2>3. \A t \in Subscribers : pc'[t] \in Holding <=> pc[t] \in Holding
    BY <1>2, <1>0 DEF InterruptWait, Goto, Holding
  <2>4. LedgerKept
    BY <1>2 DEF InterruptWait, LedgerKept
  <2> QED
    BY <2>1, <2>2, <2>3, <2>4, CountsKept
<1>3. ASSUME NEW s \in Subscribers, CloseStream(s) PROVE CountsHolders'
  <2>1. \A k \in ActiveLeases :
          /\ lease'[k].subscribers = lease[k].subscribers
          /\ lease'[k].accepting => lease[k].accepting
    BY <1>3, CloseStreamFields DEF SameCounts
  <2>2. closed' = closed /\ leases' = leases /\ leaseOf' = leaseOf
    BY <1>3 DEF CloseStream, Detach, managerVars
  <2>3. \A t \in Subscribers : pc'[t] \in Holding <=> pc[t] \in Holding
    BY <1>3, <1>0 DEF CloseStream, Detach, Goto, Holding
  <2>4. LedgerKept
    BY <1>3 DEF CloseStream, Detach, LedgerKept
  <2> QED
    BY <2>1, <2>2, <2>3, <2>4, CountsKept
<1>4. ASSUME NEW s \in Subscribers, CoreEnds(s) PROVE CountsHolders'
  <2>1. \A k \in ActiveLeases :
          /\ lease'[k].subscribers = lease[k].subscribers
          /\ lease'[k].accepting => lease[k].accepting
    BY <1>4, Kept DEF CoreEnds, SameCounts
  <2>2. closed' = closed /\ leases' = leases /\ leaseOf' = leaseOf
    BY <1>4 DEF CoreEnds, managerVars
  <2>3. \A t \in Subscribers : pc'[t] \in Holding <=> pc[t] \in Holding
    BY <1>4, <1>0 DEF CoreEnds
  <2>4. LedgerKept
    BY <1>4 DEF CoreEnds, LedgerKept
  <2> QED
    BY <2>1, <2>2, <2>3, <2>4, CountsKept
<1>5. ASSUME NEW s \in Subscribers, Refuse(s) PROVE CountsHolders'
  <2>1. \A k \in ActiveLeases :
          /\ lease'[k].subscribers = lease[k].subscribers
          /\ lease'[k].accepting => lease[k].accepting
    BY <1>5, Kept DEF Refuse, SameCounts
  <2>2. closed' = closed /\ leases' = leases /\ leaseOf' = leaseOf
    BY <1>5 DEF Refuse, managerVars
  <2>3. \A t \in Subscribers : pc'[t] \in Holding <=> pc[t] \in Holding
    BY <1>5, <1>0 DEF Refuse, Goto, Holding
  <2>4. LedgerKept
    BY <1>5 DEF Refuse, LedgerKept
  <2> QED
    BY <2>1, <2>2, <2>3, <2>4, CountsKept
<1>6. ASSUME NEW s \in Subscribers, Join(s) PROVE CountsHolders'
  <2> PICK r, l : r = RouteOf[s] /\ l = leases[r]
    OBVIOUS
  <2>1. /\ r \in Routes /\ l # None /\ ~closed /\ closed' = closed /\ leases' = leases
        /\ Current(s) = l /\ lease[l].accepting
        /\ leaseOf' = [leaseOf EXCEPT ![s] = l] /\ leaseOf'[s] = l
        /\ pc[s] = "waiting" /\ pc' = [pc EXCEPT ![s] = "subscribing"]
        /\ ledger' = [ledger EXCEPT ![r] = SubscriberAdded(ledger[r])]
    BY <1>6, LeaseAssumption DEF Join, Joinable, Current, managerVars, Goto, HealthAdded,
       LeaseTypeOK
  <2>2. /\ l \in ActiveLeases /\ lease[l].route = r /\ lease[l].subscribers \in Nat
        /\ lease[l].subscribers = Cardinality(HoldersOf(l))
        /\ ledger[r] # None /\ ledger[r].subscribers = lease[l].subscribers
    BY <2>1, LeaseHolds DEF MapAgrees, CountsHolders, Counted, LeaseRecords
  <2>3. \A k \in ActiveLeases :
          /\ lease'[k].subscribers =
               IF k = l THEN lease[k].subscribers + 1 ELSE lease[k].subscribers
          /\ lease'[k].accepting = lease[k].accepting
    BY <1>6, <2>1, JoinFields
  <2>4. \A t \in Subscribers \ {s} : leaseOf'[t] = leaseOf[t] /\ pc'[t] = pc[t]
    BY <1>0, <2>1 DEF LeaseTypeOK
  <2>5. \A q \in Routes : q # r => leases'[q] = leases[q] /\ ledger'[q] = ledger[q]
    BY <2>1 DEF LeaseTypeOK
  <2>6. \A t \in Subscribers :
          RouteOf[t] # r => /\ leaseOf'[t] = leaseOf[t]
                            /\ pc'[t] \in Holding <=> pc[t] \in Holding
    BY <2>4
  <2>7. \A t \in Subscribers :
          RouteOf[t] = r /\ pc'[t] \in Holding /\ leaseOf'[t] \in ActiveLeases =>
            lease[leaseOf'[t]].route = r
    BY <2>1, <2>2, <2>4 DEF MapAgrees
  <2>8. \A q \in Routes : q # r => Counted(q)'
    BY <2>1, <2>2, <2>3, <2>5, <2>6, <2>7, OthersCount
  <2>9. Cardinality(HoldersOf(l)') = lease[l].subscribers + 1
    <3>1. s \notin HoldersOf(l) /\ IsFiniteSet(HoldersOf(l))
      BY <2>1, LeaseAssumption, FS_Subset DEF HoldersOf, Holding
    <3>2. pc'[s] \in Holding /\ leaseOf'[s] = l
      BY <1>0, <2>1 DEF Holding
    <3>3. HoldersOf(l)' = HoldersOf(l) \union {s}
      BY <2>4, <3>2 DEF HoldersOf, Holding
    <3> QED
      BY <2>2, <3>1, <3>3, FS_AddElement
  <2>10. ledger'[r] # None /\ ledger'[r].subscribers = lease[l].subscribers + 1
    <3>1. ledger \in [Routes -> LedgerEntries \union {None}] /\ ledger[r] \in LedgerEntries
      BY <2>1, <2>2 DEF LeaseTypeOK
    <3> QED
      BY <2>1, <2>2, <3>1, AddedCounts
  <2>11. Counted(r)'
    <3>1. leases'[r] = l /\ lease'[l].subscribers = lease[l].subscribers + 1
      BY <2>1, <2>2, <2>3
    <3> QED
      BY <2>1, <2>2, <2>9, <2>10, <3>1 DEF Counted
  <2> QED
    BY <2>8, <2>11 DEF CountsHolders
<1>7. ASSUME NEW s \in Subscribers, StartLease(s) PROVE CountsHolders'
  <2> PICK r, n : r = RouteOf[s] /\ n = Len(lease) + 1
    OBVIOUS
  <2>1. /\ r \in Routes /\ leases[r] = None /\ ~closed
        /\ leases' = [leases EXCEPT ![r] = n]
        /\ leaseOf' = [leaseOf EXCEPT ![s] = n]
        /\ pc[s] = "waiting" /\ pc' = [pc EXCEPT ![s] = "starting"]
        /\ ledger' = [ledger EXCEPT ![r] = [status |-> "ready", subscribers |-> 1]]
    BY <1>7, LeaseAssumption DEF StartLease, Current, Goto, HealthStarting
  <2>2. /\ n \notin ActiveLeases /\ n # None
        /\ \A k \in ActiveLeases : lease'[k] = lease[k]
        /\ lease'[n].subscribers = 1
    <3>1. n \in Nat
      BY DEF LeaseTypeOK
    <3> QED
      BY <1>7, <3>1, StartLeaseFields, LeaseAssumption
  <2>3. /\ \A t \in Subscribers \ {s} : leaseOf'[t] = leaseOf[t] /\ pc'[t] = pc[t]
        /\ leaseOf'[s] = n /\ pc'[s] \in Holding
    BY <1>0, <2>1 DEF LeaseTypeOK, Holding
  <2>4. \A q \in Routes : q # r => leases'[q] = leases[q] /\ ledger'[q] = ledger[q]
    BY <2>1 DEF LeaseTypeOK
  <2>5. \A t \in Subscribers :
          RouteOf[t] # r => /\ leaseOf'[t] = leaseOf[t]
                            /\ pc'[t] \in Holding <=> pc[t] \in Holding
    BY <2>3
  <2>6. \A t \in Subscribers :
          RouteOf[t] = r /\ pc'[t] \in Holding /\ leaseOf'[t] \in ActiveLeases =>
            lease[leaseOf'[t]].route = r
    BY <2>2, <2>3 DEF MapAgrees
  <2>7. \A q \in Routes : q # r => Counted(q)'
    BY <2>1, <2>2, <2>4, <2>5, <2>6, OthersCount
  <2>8. HoldersOf(n)' = {s}
    BY <2>2, <2>3 DEF HoldersOf, Holding, MapAgrees
  <2>9. Cardinality(HoldersOf(n)') = 1
    BY <2>8, FS_Singleton
  <2>10. leases'[r] = n /\ ledger'[r] # None /\ ledger'[r].subscribers = 1
    <3>1. [status |-> "ready", subscribers |-> 1] \in LedgerEntries
      BY DEF LedgerEntries
    <3> QED
      BY <2>1, <3>1, LeaseAssumption DEF LeaseTypeOK
  <2>11. Counted(r)'
    BY <2>2, <2>9, <2>10 DEF Counted
  <2> QED
    BY <2>7, <2>11 DEF CountsHolders
<1>8. ASSUME NEW s \in Subscribers, ForkFeed(s) PROVE CountsHolders'
  <2>1. \A k \in ActiveLeases :
          /\ lease'[k].subscribers = lease[k].subscribers
          /\ lease'[k].accepting => lease[k].accepting
    BY <1>8, ForkFeedFields DEF SameCounts
  <2>2. closed' = closed /\ leases' = leases /\ leaseOf' = leaseOf
    BY <1>8 DEF ForkFeed, managerVars
  <2>3. \A t \in Subscribers : pc'[t] \in Holding <=> pc[t] \in Holding
    BY <1>8, <1>0 DEF ForkFeed, Goto, Holding
  <2>4. LedgerKept
    BY <1>8 DEF ForkFeed, LedgerKept
  <2> QED
    BY <2>1, <2>2, <2>3, <2>4, CountsKept
<1>9. ASSUME NEW s \in Subscribers, FailStart(s) PROVE CountsHolders'
  <2> SUFFICES ASSUME ~closed PROVE CountsHolders'
    BY <1>9 DEF FailStart, managerVars, CountsHolders
  <2> PICK r : r = RouteOf[s]
    OBVIOUS
  <2>1. /\ r \in Routes /\ leaseOf' = leaseOf
        /\ leases' = [leases EXCEPT ![r] = None]
        /\ pc[s] = "starting" /\ pc' = [pc EXCEPT ![s] = "refused"]
        /\ ledger' = [ledger EXCEPT ![r] = None]
    BY <1>9, LeaseAssumption DEF FailStart, Goto, HealthRemoved
  <2>2. \A k \in ActiveLeases : /\ lease'[k].subscribers = lease[k].subscribers
                                /\ lease'[k].accepting => lease[k].accepting
    BY <1>9, FailStartFields DEF SameCounts
  <2>3. \A t \in Subscribers :
          RouteOf[t] # r => /\ leaseOf'[t] = leaseOf[t]
                            /\ pc'[t] \in Holding <=> pc[t] \in Holding
    BY <1>0, <2>1
  <2>4. \A q \in Routes : q # r => leases'[q] = leases[q] /\ ledger'[q] = ledger[q]
    BY <2>1 DEF LeaseTypeOK
  <2>5. \A t \in Subscribers :
          RouteOf[t] = r /\ pc'[t] \in Holding /\ leaseOf'[t] \in ActiveLeases =>
            lease[leaseOf'[t]].route = r
    <3>1. \A t \in Subscribers : pc'[t] \in Holding => pc[t] \in Holding
      BY <1>0, <2>1 DEF Holding
    <3> QED
      BY <2>1, <3>1 DEF MapAgrees
  <2>6. \A q \in Routes : q # r => Counted(q)'
    BY <2>1, <2>2, <2>3, <2>4, <2>5, OthersCount
  <2>7. leases'[r] = None /\ ledger'[r] = None
    BY <2>1 DEF LeaseTypeOK
  <2>8. Counted(r)'
    BY <2>7 DEF Counted
  <2> QED
    BY <2>6, <2>8 DEF CountsHolders
<1>10. ASSUME NEW s \in Subscribers, Register(s) PROVE CountsHolders'
  <2>1. \A k \in ActiveLeases :
          /\ lease'[k].subscribers = lease[k].subscribers
          /\ lease'[k].accepting => lease[k].accepting
    BY <1>10, RegisterFields DEF SameCounts
  <2>2. closed' = closed /\ leases' = leases /\ leaseOf' = leaseOf
    BY <1>10 DEF Register, managerVars
  <2>3. \A t \in Subscribers : pc'[t] \in Holding <=> pc[t] \in Holding
    BY <1>10, <1>0 DEF Register, Goto, Holding
  <2>4. LedgerKept
    BY <1>10 DEF Register, LedgerKept
  <2> QED
    BY <2>1, <2>2, <2>3, <2>4, CountsKept
<1>11. ASSUME NEW s \in Subscribers, FailSubscribe(s) PROVE CountsHolders'
  <2>1. \A k \in ActiveLeases :
          /\ lease'[k].subscribers = lease[k].subscribers
          /\ lease'[k].accepting => lease[k].accepting
    BY <1>11, Kept DEF FailSubscribe, SameCounts
  <2>2. closed' = closed /\ leases' = leases /\ leaseOf' = leaseOf
    BY <1>11 DEF FailSubscribe, managerVars
  <2>3. \A t \in Subscribers : pc'[t] \in Holding <=> pc[t] \in Holding
    BY <1>11, <1>0 DEF FailSubscribe, Goto, Holding
  <2>4. LedgerKept
    BY <1>11 DEF FailSubscribe, LedgerKept
  <2> QED
    BY <2>1, <2>2, <2>3, <2>4, CountsKept
<1>12. ASSUME NEW s \in Subscribers, EndStream(s) PROVE CountsHolders'
  <2>1. \A k \in ActiveLeases :
          /\ lease'[k].subscribers = lease[k].subscribers
          /\ lease'[k].accepting => lease[k].accepting
    BY <1>12, EndStreamFields DEF SameCounts
  <2>2. closed' = closed /\ leases' = leases /\ leaseOf' = leaseOf
    BY <1>12 DEF EndStream, Detach, managerVars
  <2>3. \A t \in Subscribers : pc'[t] \in Holding <=> pc[t] \in Holding
    BY <1>12, <1>0 DEF EndStream, Detach, Goto, Holding
  <2>4. LedgerKept
    BY <1>12 DEF EndStream, Detach, LedgerKept
  <2> QED
    BY <2>1, <2>2, <2>3, <2>4, CountsKept
<1>13. ASSUME NEW s \in Subscribers, CloseInternal(s) PROVE CountsHolders'
  <2>1. \A k \in ActiveLeases :
          /\ lease'[k].subscribers = lease[k].subscribers
          /\ lease'[k].accepting => lease[k].accepting
    BY <1>13, Kept DEF CloseInternal, SameCounts
  <2>2. closed' = closed /\ leases' = leases /\ leaseOf' = leaseOf
    BY <1>13 DEF CloseInternal, managerVars
  <2>3. \A t \in Subscribers : pc'[t] \in Holding <=> pc[t] \in Holding
    BY <1>13, <1>0 DEF CloseInternal, Goto, Holding
  <2>4. LedgerKept
    BY <1>13 DEF CloseInternal, LedgerKept
  <2> QED
    BY <2>1, <2>2, <2>3, <2>4, CountsKept
<1>14. ASSUME NEW s \in Subscribers, LeaveClosed(s) PROVE CountsHolders'
  BY <1>14, LeaveClosedIsClosed DEF LeaveClosed, managerVars, CountsHolders
<1>15. ASSUME NEW s \in Subscribers, Leave(s) PROVE CountsHolders'
  <2> PICK r, l : r = RouteOf[s] /\ l = leaseOf[s]
    OBVIOUS
  <2>1. /\ r \in Routes /\ ~closed /\ leases[r] = l /\ l # None
        /\ pc[s] \in Holding /\ l \in ActiveLeases /\ lease[l].route = r
        /\ lease[l].subscribers \in Nat \ {0}
        /\ lease[l].subscribers = Cardinality(HoldersOf(l))
        /\ ledger[r] # None /\ ledger[r].subscribers = lease[l].subscribers
    <3>1. pc[s] \in Holding
      BY <1>15 DEF Leave, Leaving, Holding
    <3>2. ~closed /\ lease[l].subscribers \in Nat \ {0}
      BY <1>15, LeaveOwn
    <3> QED
      BY <3>1, <3>2, Shares DEF CountsHolders, Counted
  <2>2. /\ leases' = leases /\ leaseOf' = leaseOf /\ closed' = closed
        /\ \E to \in {"done", "cleaning"} : pc' = [pc EXCEPT ![s] = to]
        /\ \E stops \in BOOLEAN :
             ledger' = [ledger EXCEPT ![r] =
                          IF stops THEN WithStatus(SubscriberRemoved(ledger[r]), "stopping")
                          ELSE SubscriberRemoved(ledger[r])]
    BY <1>15 DEF Leave, Goto, managerVars
  <2>3. \A k \in ActiveLeases :
          /\ lease'[k].subscribers =
               IF k = l THEN lease[k].subscribers - 1 ELSE lease[k].subscribers
          /\ lease'[k].accepting =
               IF k = l THEN (lease[k].accepting /\ lease[k].subscribers > 1)
               ELSE lease[k].accepting
    BY <1>15, LeaveFields
  <2>4. /\ \A t \in Subscribers \ {s} : leaseOf'[t] = leaseOf[t] /\ pc'[t] = pc[t]
        /\ pc'[s] \notin Holding
    BY <1>0, <2>2 DEF Holding
  <2>5. \A q \in Routes : q # r => leases'[q] = leases[q] /\ ledger'[q] = ledger[q]
    BY <2>2 DEF LeaseTypeOK
  <2>6. \A t \in Subscribers :
          RouteOf[t] # r => /\ leaseOf'[t] = leaseOf[t]
                            /\ pc'[t] \in Holding <=> pc[t] \in Holding
    BY <2>2, <2>4
  <2>7. \A t \in Subscribers :
          RouteOf[t] = r /\ pc'[t] \in Holding /\ leaseOf'[t] \in ActiveLeases =>
            lease[leaseOf'[t]].route = r
    BY <2>2, <2>4 DEF MapAgrees
  <2>8. \A q \in Routes : q # r => Counted(q)'
    BY <2>1, <2>3, <2>5, <2>6, <2>7, OthersCount
  <2>9. Cardinality(HoldersOf(l)') = lease[l].subscribers - 1
    <3>1. s \in HoldersOf(l) /\ IsFiniteSet(HoldersOf(l))
      BY <2>1, LeaseAssumption, FS_Subset DEF HoldersOf
    <3>2. HoldersOf(l)' = HoldersOf(l) \ {s}
      BY <2>2, <2>4 DEF HoldersOf, Holding
    <3> QED
      BY <2>1, <3>1, <3>2, FS_RemoveElement
  <2>10. ledger'[r] # None /\ ledger'[r].subscribers = lease[l].subscribers - 1
    <3>1. ledger \in [Routes -> LedgerEntries \union {None}] /\ ledger[r] \in LedgerEntries
      BY <2>1 DEF LeaseTypeOK
    <3> QED
      BY <2>1, <2>2, <3>1, RemovedCounts
  <2>11. Counted(r)'
    <3>1. leases'[r] = l /\ lease'[l].subscribers = lease[l].subscribers - 1
      BY <2>1, <2>2, <2>3
    <3>2. lease'[l].accepting => lease'[l].subscribers > 0
      <4>1. lease'[l].accepting = (lease[l].accepting /\ lease[l].subscribers > 1)
        BY <2>1, <2>3
      <4>2. lease'[l].accepting => lease[l].subscribers > 1
        BY <4>1, Zenon
      <4> QED
        BY <2>1, <3>1, <4>2
    <3> QED
      BY <2>1, <2>9, <2>10, <3>1, <3>2 DEF Counted
  <2> QED
    BY <2>8, <2>11 DEF CountsHolders
<1>16. ASSUME NEW s \in Subscribers, BeginCleanup(s) PROVE CountsHolders'
  <2>1. \A k \in ActiveLeases :
          /\ lease'[k].subscribers = lease[k].subscribers
          /\ lease'[k].accepting => lease[k].accepting
    BY <1>16, BeginCleanupFields DEF SameCounts
  <2>2. closed' = closed /\ leases' = leases /\ leaseOf' = leaseOf
    BY <1>16 DEF BeginCleanup, managerVars
  <2>3. \A t \in Subscribers : pc'[t] \in Holding <=> pc[t] \in Holding
    BY <1>16, <1>0 DEF BeginCleanup, Goto, Holding
  <2>4. LedgerKept
    BY <1>16 DEF BeginCleanup, LedgerKept
  <2> QED
    BY <2>1, <2>2, <2>3, <2>4, CountsKept
<1>17. ASSUME NEW s \in Subscribers, ScopeClosed(s) PROVE CountsHolders'
  <2>1. \A k \in ActiveLeases :
          /\ lease'[k].subscribers = lease[k].subscribers
          /\ lease'[k].accepting => lease[k].accepting
    BY <1>17, ScopeClosedFields DEF SameCounts
  <2>2. closed' = closed /\ leases' = leases /\ leaseOf' = leaseOf
    BY <1>17 DEF ScopeClosed, managerVars
  <2>3. \A t \in Subscribers : pc'[t] \in Holding <=> pc[t] \in Holding
    BY <1>17, <1>0 DEF ScopeClosed, Goto, Holding
  <2>4. LedgerKept
    BY <1>17 DEF ScopeClosed, LedgerKept
  <2> QED
    BY <2>1, <2>2, <2>3, <2>4, CountsKept
<1>18. ASSUME NEW s \in Subscribers, DeleteLeaseRows(s) PROVE CountsHolders'
  <2>1. \A k \in ActiveLeases :
          /\ lease'[k].subscribers = lease[k].subscribers
          /\ lease'[k].accepting => lease[k].accepting
    BY <1>18, Kept DEF DeleteLeaseRows, SameCounts
  <2>2. closed' = closed /\ leases' = leases /\ leaseOf' = leaseOf
    BY <1>18 DEF DeleteLeaseRows, managerVars
  <2>3. \A t \in Subscribers : pc'[t] \in Holding <=> pc[t] \in Holding
    BY <1>18, <1>0 DEF DeleteLeaseRows, Goto, Holding
  <2>4. LedgerKept
    BY <1>18 DEF DeleteLeaseRows, LedgerKept
  <2> QED
    BY <2>1, <2>2, <2>3, <2>4, CountsKept
<1>19. ASSUME NEW s \in Subscribers, RemoveLease(s) PROVE CountsHolders'
  <2> SUFFICES ASSUME ~closed PROVE CountsHolders'
    BY <1>19 DEF RemoveLease, managerVars, CountsHolders
  <2> PICK r : r = RouteOf[s]
    OBVIOUS
  <2>1. /\ r \in Routes /\ leaseOf' = leaseOf
        /\ leases' = [leases EXCEPT ![r] = None]
        /\ pc[s] = "removed" /\ pc' = [pc EXCEPT ![s] = "done"]
        /\ ledger' = [ledger EXCEPT ![r] = None]
    BY <1>19, LeaseAssumption DEF RemoveLease, Goto, HealthRemoved
  <2>2. \A k \in ActiveLeases : /\ lease'[k].subscribers = lease[k].subscribers
                                /\ lease'[k].accepting => lease[k].accepting
    BY <1>19 DEF RemoveLease
  <2>3. \A t \in Subscribers :
          RouteOf[t] # r => /\ leaseOf'[t] = leaseOf[t]
                            /\ pc'[t] \in Holding <=> pc[t] \in Holding
    BY <1>0, <2>1
  <2>4. \A q \in Routes : q # r => leases'[q] = leases[q] /\ ledger'[q] = ledger[q]
    BY <2>1 DEF LeaseTypeOK
  <2>5. \A t \in Subscribers :
          RouteOf[t] = r /\ pc'[t] \in Holding /\ leaseOf'[t] \in ActiveLeases =>
            lease[leaseOf'[t]].route = r
    <3>1. \A t \in Subscribers : pc'[t] \in Holding => pc[t] \in Holding
      BY <1>0, <2>1 DEF Holding
    <3> QED
      BY <2>1, <3>1 DEF MapAgrees
  <2>6. \A q \in Routes : q # r => Counted(q)'
    BY <2>1, <2>2, <2>3, <2>4, <2>5, OthersCount
  <2>7. leases'[r] = None /\ ledger'[r] = None
    BY <2>1 DEF LeaseTypeOK
  <2>8. Counted(r)'
    BY <2>7 DEF Counted
  <2> QED
    BY <2>6, <2>8 DEF CountsHolders
<1>20. ASSUME NEW s \in Subscribers, FailCleanup(s) PROVE CountsHolders'
  <2>1. \A k \in ActiveLeases :
          /\ lease'[k].subscribers = lease[k].subscribers
          /\ lease'[k].accepting => lease[k].accepting
    BY <1>20, Kept DEF FailCleanup, SameCounts
  <2>2. closed' = closed /\ leases' = leases /\ leaseOf' = leaseOf
    BY <1>20 DEF FailCleanup, managerVars
  <2>3. \A t \in Subscribers : pc'[t] \in Holding <=> pc[t] \in Holding
    BY <1>20, <1>0 DEF FailCleanup, Goto, Holding
  <2>4. LedgerKept
    <3>1. RouteOf[s] \in Routes
      BY LeaseAssumption
    <3> QED
      BY <1>20, <3>1, StatusKept DEF FailCleanup
  <2> QED
    BY <2>1, <2>2, <2>3, <2>4, CountsKept
<1>21. ASSUME NEW l \in ActiveLeases, EndPublish(l) PROVE CountsHolders'
  <2>1. \A k \in ActiveLeases :
          /\ lease'[k].subscribers = lease[k].subscribers
          /\ lease'[k].accepting => lease[k].accepting
    BY <1>21, EndPublishFields DEF SameCounts
  <2>2. closed' = closed /\ leases' = leases /\ leaseOf' = leaseOf
    BY <1>21 DEF EndPublish, managerVars
  <2>3. \A t \in Subscribers : pc'[t] \in Holding <=> pc[t] \in Holding
    BY <1>21, <1>0 DEF EndPublish
  <2>4. LedgerKept
    BY <1>21 DEF EndPublish, LedgerKept
  <2> QED
    BY <2>1, <2>2, <2>3, <2>4, CountsKept
<1>22. ASSUME NEW l \in ActiveLeases, FailPublish(l) PROVE CountsHolders'
  <2>1. \A k \in ActiveLeases :
          /\ lease'[k].subscribers = lease[k].subscribers
          /\ lease'[k].accepting => lease[k].accepting
    BY <1>22, FailPublishFields DEF SameCounts
  <2>2. closed' = closed /\ leases' = leases /\ leaseOf' = leaseOf
    BY <1>22 DEF FailPublish, managerVars
  <2>3. \A t \in Subscribers : pc'[t] \in Holding <=> pc[t] \in Holding
    BY <1>22, <1>0 DEF FailPublish
  <2>4. LedgerKept
    <3>1. lease[l].route \in Routes
      BY LeaseHolds DEF LeaseRecords
    <3> QED
      BY <1>22, <3>1, StatusKept DEF FailPublish, LedgerKept
  <2> QED
    BY <2>1, <2>2, <2>3, <2>4, CountsKept
<1>23. ASSUME NEW l \in ActiveLeases, BeginDegrade(l) PROVE CountsHolders'
  <2>1. \A k \in ActiveLeases :
          /\ lease'[k].subscribers = lease[k].subscribers
          /\ lease'[k].accepting => lease[k].accepting
    BY <1>23, BeginDegradeFields
  <2>2. closed' = closed /\ leases' = leases /\ leaseOf' = leaseOf
    BY <1>23 DEF BeginDegrade, managerVars
  <2>3. \A t \in Subscribers : pc'[t] \in Holding <=> pc[t] \in Holding
    BY <1>23, <1>0 DEF BeginDegrade
  <2>4. LedgerKept
    BY <1>23 DEF BeginDegrade, LedgerKept
  <2> QED
    BY <2>1, <2>2, <2>3, <2>4, CountsKept
<1>24. ASSUME NEW l \in ActiveLeases, DegradeRows(l) PROVE CountsHolders'
  <2>1. \A k \in ActiveLeases :
          /\ lease'[k].subscribers = lease[k].subscribers
          /\ lease'[k].accepting => lease[k].accepting
    BY <1>24, DegradeRowsFields DEF SameCounts
  <2>2. closed' = closed /\ leases' = leases /\ leaseOf' = leaseOf
    BY <1>24 DEF DegradeRows, managerVars
  <2>3. \A t \in Subscribers : pc'[t] \in Holding <=> pc[t] \in Holding
    BY <1>24, <1>0 DEF DegradeRows
  <2>4. LedgerKept
    <3>1. lease[l].route \in Routes
      BY LeaseHolds DEF LeaseRecords
    <3> QED
      BY <1>24, <3>1, StatusKept DEF DegradeRows
  <2> QED
    BY <2>1, <2>2, <2>3, <2>4, CountsKept
<1>25. ASSUME NEW l \in ActiveLeases, DegradeCloses(l) PROVE CountsHolders'
  <2>1. \A k \in ActiveLeases :
          /\ lease'[k].subscribers = lease[k].subscribers
          /\ lease'[k].accepting => lease[k].accepting
    BY <1>25, DegradeClosesFields DEF SameCounts
  <2>2. closed' = closed /\ leases' = leases /\ leaseOf' = leaseOf
    BY <1>25 DEF DegradeCloses, managerVars
  <2>3. \A t \in Subscribers : pc'[t] \in Holding <=> pc[t] \in Holding
    BY <1>25, <1>0 DEF DegradeCloses
  <2>4. LedgerKept
    BY <1>25 DEF DegradeCloses, LedgerKept
  <2> QED
    BY <2>1, <2>2, <2>3, <2>4, CountsKept
<1>26. ASSUME NEW l \in ActiveLeases, DegradeTells(l) PROVE CountsHolders'
  <2>1. \A k \in ActiveLeases :
          /\ lease'[k].subscribers = lease[k].subscribers
          /\ lease'[k].accepting => lease[k].accepting
    BY <1>26, DegradeTellsFields DEF SameCounts
  <2>2. closed' = closed /\ leases' = leases /\ leaseOf' = leaseOf
    BY <1>26 DEF DegradeTells, managerVars
  <2>3. \A t \in Subscribers : pc'[t] \in Holding <=> pc[t] \in Holding
    BY <1>26, <1>0 DEF DegradeTells
  <2>4. LedgerKept
    BY <1>26 DEF DegradeTells, LedgerKept
  <2> QED
    BY <2>1, <2>2, <2>3, <2>4, CountsKept
<1>27. ASSUME NEW l \in ActiveLeases, InterruptFeed(l) PROVE CountsHolders'
  <2>1. \A k \in ActiveLeases :
          /\ lease'[k].subscribers = lease[k].subscribers
          /\ lease'[k].accepting => lease[k].accepting
    BY <1>27, InterruptFeedFields DEF SameCounts
  <2>2. closed' = closed /\ leases' = leases /\ leaseOf' = leaseOf
    BY <1>27 DEF InterruptFeed, managerVars
  <2>3. \A t \in Subscribers : pc'[t] \in Holding <=> pc[t] \in Holding
    BY <1>27, <1>0 DEF InterruptFeed
  <2>4. LedgerKept
    BY <1>27 DEF InterruptFeed, LedgerKept
  <2> QED
    BY <2>1, <2>2, <2>3, <2>4, CountsKept
<1>28. ASSUME NEW l \in ActiveLeases, BeginPublish(l) PROVE CountsHolders'
  <2>1. \A k \in ActiveLeases :
          /\ lease'[k].subscribers = lease[k].subscribers
          /\ lease'[k].accepting => lease[k].accepting
    BY <1>28, BeginPublishFields DEF SameCounts
  <2>2. closed' = closed /\ leases' = leases /\ leaseOf' = leaseOf
    BY <1>28 DEF BeginPublish, managerVars
  <2>3. \A t \in Subscribers : pc'[t] \in Holding <=> pc[t] \in Holding
    BY <1>28, <1>0 DEF BeginPublish
  <2>4. LedgerKept
    BY <1>28 DEF BeginPublish, LedgerKept
  <2> QED
    BY <2>1, <2>2, <2>3, <2>4, CountsKept
<1>29. ASSUME NEW l \in ActiveLeases, FailMapping(l) PROVE CountsHolders'
  <2>1. \A k \in ActiveLeases :
          /\ lease'[k].subscribers = lease[k].subscribers
          /\ lease'[k].accepting => lease[k].accepting
    BY <1>29, FailMappingFields DEF SameCounts
  <2>2. closed' = closed /\ leases' = leases /\ leaseOf' = leaseOf
    BY <1>29 DEF FailMapping, managerVars
  <2>3. \A t \in Subscribers : pc'[t] \in Holding <=> pc[t] \in Holding
    BY <1>29, <1>0 DEF FailMapping
  <2>4. LedgerKept
    <3>1. lease[l].route \in Routes
      BY LeaseHolds DEF LeaseRecords
    <3> QED
      BY <1>29, <3>1, StatusKept DEF FailMapping
  <2> QED
    BY <2>1, <2>2, <2>3, <2>4, CountsKept
<1>30. ASSUME NEW l \in ActiveLeases, UpstreamEnds(l) PROVE CountsHolders'
  <2>1. \A k \in ActiveLeases :
          /\ lease'[k].subscribers = lease[k].subscribers
          /\ lease'[k].accepting => lease[k].accepting
    BY <1>30, UpstreamEndsFields DEF SameCounts
  <2>2. closed' = closed /\ leases' = leases /\ leaseOf' = leaseOf
    BY <1>30 DEF UpstreamEnds, managerVars
  <2>3. \A t \in Subscribers : pc'[t] \in Holding <=> pc[t] \in Holding
    BY <1>30, <1>0 DEF UpstreamEnds
  <2>4. LedgerKept
    BY <1>30 DEF UpstreamEnds, LedgerKept
  <2> QED
    BY <2>1, <2>2, <2>3, <2>4, CountsKept
<1>31. ASSUME NEW l \in ActiveLeases, UpstreamInterrupted(l) PROVE CountsHolders'
  <2>1. \A k \in ActiveLeases :
          /\ lease'[k].subscribers = lease[k].subscribers
          /\ lease'[k].accepting => lease[k].accepting
    BY <1>31, UpstreamInterruptedFields DEF SameCounts
  <2>2. closed' = closed /\ leases' = leases /\ leaseOf' = leaseOf
    BY <1>31 DEF UpstreamInterrupted, managerVars
  <2>3. \A t \in Subscribers : pc'[t] \in Holding <=> pc[t] \in Holding
    BY <1>31, <1>0 DEF UpstreamInterrupted
  <2>4. LedgerKept
    BY <1>31 DEF UpstreamInterrupted, LedgerKept
  <2> QED
    BY <2>1, <2>2, <2>3, <2>4, CountsKept
<1>32. ASSUME NEW l \in ActiveLeases, ManagerClosesScope(l) PROVE CountsHolders'
  BY <1>32, ManagerIsClosed DEF ManagerStep, CountsHolders
<1>33. ASSUME NEW l \in ActiveLeases, ManagerFinishes(l) PROVE CountsHolders'
  BY <1>33, ManagerIsClosed DEF ManagerStep, CountsHolders
<1>34. ASSUME CloseManager PROVE CountsHolders'
  BY <1>34 DEF CloseManager, CountsHolders
<1>35. ASSUME CloseCore PROVE CountsHolders'
  BY <1>35 DEF CloseCore, CountsHolders
<1>36. ASSUME UNCHANGED vars PROVE CountsHolders'
  <2>1. \A k \in ActiveLeases :
          /\ lease'[k].subscribers = lease[k].subscribers
          /\ lease'[k].accepting => lease[k].accepting
    BY <1>36 DEF vars
  <2>2. LedgerKept
    BY <1>36 DEF vars, LedgerKept
  <2> QED
    BY <1>36, <2>1, <2>2, CountsKept DEF vars, managerVars
<1> QED
  BY <1>1, <1>2, <1>3, <1>4, <1>5, <1>6, <1>7, <1>8, <1>9, <1>10, <1>11, <1>12,
     <1>13, <1>14, <1>15, <1>16, <1>17, <1>18, <1>19, <1>20, <1>21, <1>22, <1>23,
     <1>24, <1>25, <1>26, <1>27, <1>28, <1>29, <1>30, <1>31, <1>32, <1>33, <1>34,
     <1>35, <1>36 DEF Next, SubscriberStep, FeedStep,
     FeedInput, ManagerStep


-------------------------------------------------------------------------------
(* One subscriber cleans a route. *)

\* A route has one cleaner while nobody begins to clean.
LEMMA CleansKept ==
  ASSUME MapAgrees, OneCleans, closed' = closed,
         \A t \in Subscribers :
           pc'[t] \in Cleaning => pc[t] \in Cleaning /\ leaseOf'[t] = leaseOf[t],
         \A t \in Subscribers :
           pc[t] \in Cleaning =>
             lease'[leaseOf[t]].subscribers = lease[leaseOf[t]].subscribers
  PROVE  OneCleans'
BY DEF OneCleans, Cleaning

\* No step makes two clean a route.
LEMMA CleansStep ==
  ASSUME LeaseTypeOK, MapAgrees, PermitHeld, CountsHolders, OneCleans, CleanupStages,
         RowsAreOwned,
         [Next]_vars
  PROVE  OneCleans'
<1>0. pc \in [Subscribers -> SubscriberStates]
  BY DEF LeaseTypeOK
<1>1. ASSUME NEW s \in Subscribers, Subscribe(s) PROVE OneCleans'
  <2>1. \A k \in ActiveLeases : lease'[k].subscribers = lease[k].subscribers
    BY <1>1, Kept DEF Subscribe, SameCounts
  <2>2. closed' = closed /\ leaseOf' = leaseOf
    BY <1>1 DEF Subscribe, managerVars
  <2>3. \A t \in Subscribers : pc'[t] \in Cleaning => pc[t] \in Cleaning
    BY <1>1, <1>0 DEF Subscribe, Goto, Cleaning
  <2> QED
    BY <2>1, <2>2, <2>3, CleansKept DEF MapAgrees
<1>2. ASSUME NEW s \in Subscribers, InterruptWait(s) PROVE OneCleans'
  <2>1. \A k \in ActiveLeases : lease'[k].subscribers = lease[k].subscribers
    BY <1>2, Kept DEF InterruptWait, SameCounts
  <2>2. closed' = closed /\ leaseOf' = leaseOf
    BY <1>2 DEF InterruptWait, managerVars
  <2>3. \A t \in Subscribers : pc'[t] \in Cleaning => pc[t] \in Cleaning
    BY <1>2, <1>0 DEF InterruptWait, Goto, Cleaning
  <2> QED
    BY <2>1, <2>2, <2>3, CleansKept DEF MapAgrees
<1>3. ASSUME NEW s \in Subscribers, CloseStream(s) PROVE OneCleans'
  <2>1. \A k \in ActiveLeases : lease'[k].subscribers = lease[k].subscribers
    BY <1>3, CloseStreamFields DEF SameCounts
  <2>2. closed' = closed /\ leaseOf' = leaseOf
    BY <1>3 DEF CloseStream, Detach, managerVars
  <2>3. \A t \in Subscribers : pc'[t] \in Cleaning => pc[t] \in Cleaning
    BY <1>3, <1>0 DEF CloseStream, Detach, Goto, Cleaning
  <2> QED
    BY <2>1, <2>2, <2>3, CleansKept DEF MapAgrees
<1>4. ASSUME NEW s \in Subscribers, CoreEnds(s) PROVE OneCleans'
  <2>1. \A k \in ActiveLeases : lease'[k].subscribers = lease[k].subscribers
    BY <1>4, Kept DEF CoreEnds, SameCounts
  <2>2. closed' = closed /\ leaseOf' = leaseOf
    BY <1>4 DEF CoreEnds, managerVars
  <2>3. \A t \in Subscribers : pc'[t] \in Cleaning => pc[t] \in Cleaning
    BY <1>4, <1>0 DEF CoreEnds
  <2> QED
    BY <2>1, <2>2, <2>3, CleansKept DEF MapAgrees
<1>5. ASSUME NEW s \in Subscribers, Refuse(s) PROVE OneCleans'
  <2>1. \A k \in ActiveLeases : lease'[k].subscribers = lease[k].subscribers
    BY <1>5, Kept DEF Refuse, SameCounts
  <2>2. closed' = closed /\ leaseOf' = leaseOf
    BY <1>5 DEF Refuse, managerVars
  <2>3. \A t \in Subscribers : pc'[t] \in Cleaning => pc[t] \in Cleaning
    BY <1>5, <1>0 DEF Refuse, Goto, Cleaning
  <2> QED
    BY <2>1, <2>2, <2>3, CleansKept DEF MapAgrees
<1>6. ASSUME NEW s \in Subscribers, Join(s) PROVE OneCleans'
  <2> PICK l : l = Current(s)
    OBVIOUS
  <2>1. ~closed /\ closed' = closed /\ l # None /\ lease[l].accepting /\ pc[s] = "waiting"
    BY <1>6 DEF Join, Joinable, managerVars
  <2>2. l = leases[RouteOf[s]] /\ l \in ActiveLeases /\ lease[l].subscribers > 0
    BY <2>1, LeaseAssumption DEF Current, MapAgrees, CountsHolders, Counted
  <2>3. \A k \in ActiveLeases \ {l} : lease'[k].subscribers = lease[k].subscribers
    BY <1>6, JoinFields
  <2>4. \A t \in Subscribers :
          pc'[t] \in Cleaning => pc[t] \in Cleaning /\ leaseOf'[t] = leaseOf[t]
    BY <1>6, <1>0 DEF Join, Goto, Cleaning, LeaseTypeOK
  <2>5. \A t \in Subscribers :
          pc[t] \in Cleaning => leaseOf[t] \in ActiveLeases /\ leaseOf[t] # l
    BY <2>1, <2>2 DEF MapAgrees, OneCleans
  <2> QED
    BY <2>1, <2>3, <2>4, <2>5, CleansKept
<1>7. ASSUME NEW s \in Subscribers, StartLease(s) PROVE OneCleans'
  <2>1. closed' = closed /\ pc[s] = "waiting"
    BY <1>7 DEF StartLease, managerVars
  <2>2. \A k \in ActiveLeases : lease'[k] = lease[k]
    BY <1>7, StartLeaseFields
  <2>3. \A t \in Subscribers :
          pc'[t] \in Cleaning => pc[t] \in Cleaning /\ leaseOf'[t] = leaseOf[t]
    BY <1>7, <1>0 DEF StartLease, Goto, Cleaning, LeaseTypeOK
  <2> QED
    BY <2>1, <2>2, <2>3, CleansKept DEF MapAgrees
<1>8. ASSUME NEW s \in Subscribers, ForkFeed(s) PROVE OneCleans'
  <2>1. \A k \in ActiveLeases : lease'[k].subscribers = lease[k].subscribers
    BY <1>8, ForkFeedFields DEF SameCounts
  <2>2. closed' = closed /\ leaseOf' = leaseOf
    BY <1>8 DEF ForkFeed, managerVars
  <2>3. \A t \in Subscribers : pc'[t] \in Cleaning => pc[t] \in Cleaning
    BY <1>8, <1>0 DEF ForkFeed, Goto, Cleaning
  <2> QED
    BY <2>1, <2>2, <2>3, CleansKept DEF MapAgrees
<1>9. ASSUME NEW s \in Subscribers, FailStart(s) PROVE OneCleans'
  <2>1. \A k \in ActiveLeases : lease'[k].subscribers = lease[k].subscribers
    BY <1>9, FailStartFields DEF SameCounts
  <2>2. closed' = closed /\ leaseOf' = leaseOf
    BY <1>9 DEF FailStart, managerVars
  <2>3. \A t \in Subscribers : pc'[t] \in Cleaning => pc[t] \in Cleaning
    BY <1>9, <1>0 DEF FailStart, Goto, Cleaning
  <2> QED
    BY <2>1, <2>2, <2>3, CleansKept DEF MapAgrees
<1>10. ASSUME NEW s \in Subscribers, Register(s) PROVE OneCleans'
  <2>1. \A k \in ActiveLeases : lease'[k].subscribers = lease[k].subscribers
    BY <1>10, RegisterFields DEF SameCounts
  <2>2. closed' = closed /\ leaseOf' = leaseOf
    BY <1>10 DEF Register, managerVars
  <2>3. \A t \in Subscribers : pc'[t] \in Cleaning => pc[t] \in Cleaning
    BY <1>10, <1>0 DEF Register, Goto, Cleaning
  <2> QED
    BY <2>1, <2>2, <2>3, CleansKept DEF MapAgrees
<1>11. ASSUME NEW s \in Subscribers, FailSubscribe(s) PROVE OneCleans'
  <2>1. \A k \in ActiveLeases : lease'[k].subscribers = lease[k].subscribers
    BY <1>11, Kept DEF FailSubscribe, SameCounts
  <2>2. closed' = closed /\ leaseOf' = leaseOf
    BY <1>11 DEF FailSubscribe, managerVars
  <2>3. \A t \in Subscribers : pc'[t] \in Cleaning => pc[t] \in Cleaning
    BY <1>11, <1>0 DEF FailSubscribe, Goto, Cleaning
  <2> QED
    BY <2>1, <2>2, <2>3, CleansKept DEF MapAgrees
<1>12. ASSUME NEW s \in Subscribers, EndStream(s) PROVE OneCleans'
  <2>1. \A k \in ActiveLeases : lease'[k].subscribers = lease[k].subscribers
    BY <1>12, EndStreamFields DEF SameCounts
  <2>2. closed' = closed /\ leaseOf' = leaseOf
    BY <1>12 DEF EndStream, Detach, managerVars
  <2>3. \A t \in Subscribers : pc'[t] \in Cleaning => pc[t] \in Cleaning
    BY <1>12, <1>0 DEF EndStream, Detach, Goto, Cleaning
  <2> QED
    BY <2>1, <2>2, <2>3, CleansKept DEF MapAgrees
<1>13. ASSUME NEW s \in Subscribers, CloseInternal(s) PROVE OneCleans'
  <2>1. \A k \in ActiveLeases : lease'[k].subscribers = lease[k].subscribers
    BY <1>13, Kept DEF CloseInternal, SameCounts
  <2>2. closed' = closed /\ leaseOf' = leaseOf
    BY <1>13 DEF CloseInternal, managerVars
  <2>3. \A t \in Subscribers : pc'[t] \in Cleaning => pc[t] \in Cleaning
    BY <1>13, <1>0 DEF CloseInternal, Goto, Cleaning
  <2> QED
    BY <2>1, <2>2, <2>3, CleansKept DEF MapAgrees
<1>14. ASSUME NEW s \in Subscribers, LeaveClosed(s) PROVE OneCleans'
  <2>1. \A k \in ActiveLeases : lease'[k].subscribers = lease[k].subscribers
    BY <1>14, LeaveClosedFields DEF SameCounts
  <2>2. closed' = closed /\ leaseOf' = leaseOf
    BY <1>14 DEF LeaveClosed, managerVars
  <2>3. \A t \in Subscribers : pc'[t] \in Cleaning => pc[t] \in Cleaning
    BY <1>14, <1>0 DEF LeaveClosed, Goto, Cleaning, Leaving
  <2> QED
    BY <2>1, <2>2, <2>3, CleansKept DEF MapAgrees
<1>15. ASSUME NEW s \in Subscribers, Leave(s) PROVE OneCleans'
  <2> PICK l : l = leaseOf[s]
    OBVIOUS
  <2>1. /\ ~closed /\ closed' = closed /\ leaseOf' = leaseOf /\ pc[s] \in Holding
        /\ Current(s) = l /\ l \in ActiveLeases /\ lease[l].subscribers \in Nat \ {0}
    <3>1. pc[s] \in Holding
      BY <1>15 DEF Leave, Leaving, Holding
    <3> QED
      BY <1>15, <3>1, LeaveOwn DEF Leave, managerVars, MapAgrees
  <2>2. \A k \in ActiveLeases :
          lease'[k].subscribers =
            IF k = l THEN lease[k].subscribers - 1 ELSE lease[k].subscribers
    BY <1>15, LeaveFields
  <2>3. /\ \A t \in Subscribers \ {s} : pc'[t] = pc[t]
        /\ pc'[s] \in Cleaning => lease[l].subscribers - 1 = 0
    BY <1>15, <1>0, <2>1 DEF Leave, Goto, Cleaning
  <2>4. \A t \in Subscribers :
          pc[t] \in Cleaning =>
            leaseOf[t] \in ActiveLeases /\ leaseOf[t] # l /\ RouteOf[t] # RouteOf[s]
    BY <2>1, Shares DEF MapAgrees, OneCleans
  <2>5. \A t \in Subscribers : pc'[t] \in Cleaning => lease'[leaseOf'[t]].subscribers = 0
    BY <2>1, <2>2, <2>3, <2>4 DEF OneCleans
  <2>6. \A t, u \in Subscribers :
          pc'[t] \in Cleaning /\ pc'[u] \in Cleaning /\ RouteOf[u] = RouteOf[t] => u = t
    BY <2>1, <2>3, <2>4 DEF OneCleans
  <2> QED
    BY <2>5, <2>6 DEF OneCleans, Cleaning
<1>16. ASSUME NEW s \in Subscribers, BeginCleanup(s) PROVE OneCleans'
  <2>1. \A k \in ActiveLeases : lease'[k].subscribers = lease[k].subscribers
    BY <1>16, BeginCleanupFields DEF SameCounts
  <2>2. closed' = closed /\ leaseOf' = leaseOf
    BY <1>16 DEF BeginCleanup, managerVars
  <2>3. \A t \in Subscribers : pc'[t] \in Cleaning => pc[t] \in Cleaning
    BY <1>16, <1>0 DEF BeginCleanup, Goto, Cleaning
  <2> QED
    BY <2>1, <2>2, <2>3, CleansKept DEF MapAgrees
<1>17. ASSUME NEW s \in Subscribers, ScopeClosed(s) PROVE OneCleans'
  <2>1. \A k \in ActiveLeases : lease'[k].subscribers = lease[k].subscribers
    BY <1>17, ScopeClosedFields DEF SameCounts
  <2>2. closed' = closed /\ leaseOf' = leaseOf
    BY <1>17 DEF ScopeClosed, managerVars
  <2>3. \A t \in Subscribers : pc'[t] \in Cleaning => pc[t] \in Cleaning
    BY <1>17, <1>0 DEF ScopeClosed, Goto, Cleaning
  <2> QED
    BY <2>1, <2>2, <2>3, CleansKept DEF MapAgrees
<1>18. ASSUME NEW s \in Subscribers, DeleteLeaseRows(s) PROVE OneCleans'
  <2>1. \A k \in ActiveLeases : lease'[k].subscribers = lease[k].subscribers
    BY <1>18, Kept DEF DeleteLeaseRows, SameCounts
  <2>2. closed' = closed /\ leaseOf' = leaseOf
    BY <1>18 DEF DeleteLeaseRows, managerVars
  <2>3. \A t \in Subscribers : pc'[t] \in Cleaning => pc[t] \in Cleaning
    BY <1>18, <1>0 DEF DeleteLeaseRows, Goto, Cleaning
  <2> QED
    BY <2>1, <2>2, <2>3, CleansKept DEF MapAgrees
<1>19. ASSUME NEW s \in Subscribers, RemoveLease(s) PROVE OneCleans'
  <2>1. \A k \in ActiveLeases : lease'[k].subscribers = lease[k].subscribers
    BY <1>19, Kept DEF RemoveLease, SameCounts
  <2>2. closed' = closed /\ leaseOf' = leaseOf
    BY <1>19 DEF RemoveLease, managerVars
  <2>3. \A t \in Subscribers : pc'[t] \in Cleaning => pc[t] \in Cleaning
    BY <1>19, <1>0 DEF RemoveLease, Goto, Cleaning
  <2> QED
    BY <2>1, <2>2, <2>3, CleansKept DEF MapAgrees
<1>20. ASSUME NEW s \in Subscribers, FailCleanup(s) PROVE OneCleans'
  <2>1. \A k \in ActiveLeases : lease'[k].subscribers = lease[k].subscribers
    BY <1>20, Kept DEF FailCleanup, SameCounts
  <2>2. closed' = closed /\ leaseOf' = leaseOf
    BY <1>20 DEF FailCleanup, managerVars
  <2>3. \A t \in Subscribers : pc'[t] \in Cleaning => pc[t] \in Cleaning
    BY <1>20, <1>0 DEF FailCleanup, Goto, Cleaning
  <2> QED
    BY <2>1, <2>2, <2>3, CleansKept DEF MapAgrees
<1>21. ASSUME NEW l \in ActiveLeases, EndPublish(l) PROVE OneCleans'
  <2>1. \A k \in ActiveLeases : lease'[k].subscribers = lease[k].subscribers
    BY <1>21, EndPublishFields DEF SameCounts
  <2>2. closed' = closed /\ leaseOf' = leaseOf
    BY <1>21 DEF EndPublish, managerVars
  <2>3. \A t \in Subscribers : pc'[t] \in Cleaning => pc[t] \in Cleaning
    BY <1>21, <1>0 DEF EndPublish
  <2> QED
    BY <2>1, <2>2, <2>3, CleansKept DEF MapAgrees
<1>22. ASSUME NEW l \in ActiveLeases, FailPublish(l) PROVE OneCleans'
  <2>1. \A k \in ActiveLeases : lease'[k].subscribers = lease[k].subscribers
    BY <1>22, FailPublishFields DEF SameCounts
  <2>2. closed' = closed /\ leaseOf' = leaseOf
    BY <1>22 DEF FailPublish, managerVars
  <2>3. \A t \in Subscribers : pc'[t] \in Cleaning => pc[t] \in Cleaning
    BY <1>22, <1>0 DEF FailPublish
  <2> QED
    BY <2>1, <2>2, <2>3, CleansKept DEF MapAgrees
<1>23. ASSUME NEW l \in ActiveLeases, BeginDegrade(l) PROVE OneCleans'
  <2>1. \A k \in ActiveLeases : lease'[k].subscribers = lease[k].subscribers
    BY <1>23, BeginDegradeFields
  <2>2. closed' = closed /\ leaseOf' = leaseOf
    BY <1>23 DEF BeginDegrade, managerVars
  <2>3. \A t \in Subscribers : pc'[t] \in Cleaning => pc[t] \in Cleaning
    BY <1>23, <1>0 DEF BeginDegrade
  <2> QED
    BY <2>1, <2>2, <2>3, CleansKept DEF MapAgrees
<1>24. ASSUME NEW l \in ActiveLeases, DegradeRows(l) PROVE OneCleans'
  <2>1. \A k \in ActiveLeases : lease'[k].subscribers = lease[k].subscribers
    BY <1>24, DegradeRowsFields DEF SameCounts
  <2>2. closed' = closed /\ leaseOf' = leaseOf
    BY <1>24 DEF DegradeRows, managerVars
  <2>3. \A t \in Subscribers : pc'[t] \in Cleaning => pc[t] \in Cleaning
    BY <1>24, <1>0 DEF DegradeRows
  <2> QED
    BY <2>1, <2>2, <2>3, CleansKept DEF MapAgrees
<1>25. ASSUME NEW l \in ActiveLeases, DegradeCloses(l) PROVE OneCleans'
  <2>1. \A k \in ActiveLeases : lease'[k].subscribers = lease[k].subscribers
    BY <1>25, DegradeClosesFields DEF SameCounts
  <2>2. closed' = closed /\ leaseOf' = leaseOf
    BY <1>25 DEF DegradeCloses, managerVars
  <2>3. \A t \in Subscribers : pc'[t] \in Cleaning => pc[t] \in Cleaning
    BY <1>25, <1>0 DEF DegradeCloses
  <2> QED
    BY <2>1, <2>2, <2>3, CleansKept DEF MapAgrees
<1>26. ASSUME NEW l \in ActiveLeases, DegradeTells(l) PROVE OneCleans'
  <2>1. \A k \in ActiveLeases : lease'[k].subscribers = lease[k].subscribers
    BY <1>26, DegradeTellsFields DEF SameCounts
  <2>2. closed' = closed /\ leaseOf' = leaseOf
    BY <1>26 DEF DegradeTells, managerVars
  <2>3. \A t \in Subscribers : pc'[t] \in Cleaning => pc[t] \in Cleaning
    BY <1>26, <1>0 DEF DegradeTells
  <2> QED
    BY <2>1, <2>2, <2>3, CleansKept DEF MapAgrees
<1>27. ASSUME NEW l \in ActiveLeases, InterruptFeed(l) PROVE OneCleans'
  <2>1. \A k \in ActiveLeases : lease'[k].subscribers = lease[k].subscribers
    BY <1>27, InterruptFeedFields DEF SameCounts
  <2>2. closed' = closed /\ leaseOf' = leaseOf
    BY <1>27 DEF InterruptFeed, managerVars
  <2>3. \A t \in Subscribers : pc'[t] \in Cleaning => pc[t] \in Cleaning
    BY <1>27, <1>0 DEF InterruptFeed
  <2> QED
    BY <2>1, <2>2, <2>3, CleansKept DEF MapAgrees
<1>28. ASSUME NEW l \in ActiveLeases, BeginPublish(l) PROVE OneCleans'
  <2>1. \A k \in ActiveLeases : lease'[k].subscribers = lease[k].subscribers
    BY <1>28, BeginPublishFields DEF SameCounts
  <2>2. closed' = closed /\ leaseOf' = leaseOf
    BY <1>28 DEF BeginPublish, managerVars
  <2>3. \A t \in Subscribers : pc'[t] \in Cleaning => pc[t] \in Cleaning
    BY <1>28, <1>0 DEF BeginPublish
  <2> QED
    BY <2>1, <2>2, <2>3, CleansKept DEF MapAgrees
<1>29. ASSUME NEW l \in ActiveLeases, FailMapping(l) PROVE OneCleans'
  <2>1. \A k \in ActiveLeases : lease'[k].subscribers = lease[k].subscribers
    BY <1>29, FailMappingFields DEF SameCounts
  <2>2. closed' = closed /\ leaseOf' = leaseOf
    BY <1>29 DEF FailMapping, managerVars
  <2>3. \A t \in Subscribers : pc'[t] \in Cleaning => pc[t] \in Cleaning
    BY <1>29, <1>0 DEF FailMapping
  <2> QED
    BY <2>1, <2>2, <2>3, CleansKept DEF MapAgrees
<1>30. ASSUME NEW l \in ActiveLeases, UpstreamEnds(l) PROVE OneCleans'
  <2>1. \A k \in ActiveLeases : lease'[k].subscribers = lease[k].subscribers
    BY <1>30, UpstreamEndsFields DEF SameCounts
  <2>2. closed' = closed /\ leaseOf' = leaseOf
    BY <1>30 DEF UpstreamEnds, managerVars
  <2>3. \A t \in Subscribers : pc'[t] \in Cleaning => pc[t] \in Cleaning
    BY <1>30, <1>0 DEF UpstreamEnds
  <2> QED
    BY <2>1, <2>2, <2>3, CleansKept DEF MapAgrees
<1>31. ASSUME NEW l \in ActiveLeases, UpstreamInterrupted(l) PROVE OneCleans'
  <2>1. \A k \in ActiveLeases : lease'[k].subscribers = lease[k].subscribers
    BY <1>31, UpstreamInterruptedFields DEF SameCounts
  <2>2. closed' = closed /\ leaseOf' = leaseOf
    BY <1>31 DEF UpstreamInterrupted, managerVars
  <2>3. \A t \in Subscribers : pc'[t] \in Cleaning => pc[t] \in Cleaning
    BY <1>31, <1>0 DEF UpstreamInterrupted
  <2> QED
    BY <2>1, <2>2, <2>3, CleansKept DEF MapAgrees
<1>32. ASSUME NEW l \in ActiveLeases, ManagerClosesScope(l) PROVE OneCleans'
  <2>1. \A k \in ActiveLeases : lease'[k].subscribers = lease[k].subscribers
    BY <1>32, ManagerClosesScopeFields DEF SameCounts
  <2>2. closed' = closed /\ leaseOf' = leaseOf
    BY <1>32 DEF ManagerClosesScope, managerVars
  <2>3. \A t \in Subscribers : pc'[t] \in Cleaning => pc[t] \in Cleaning
    BY <1>32, <1>0 DEF ManagerClosesScope
  <2> QED
    BY <2>1, <2>2, <2>3, CleansKept DEF MapAgrees
<1>33. ASSUME NEW l \in ActiveLeases, ManagerFinishes(l) PROVE OneCleans'
  <2>1. \A k \in ActiveLeases : lease'[k].subscribers = lease[k].subscribers
    BY <1>33, ManagerFinishesFields DEF SameCounts
  <2>2. closed' = closed /\ leaseOf' = leaseOf
    BY <1>33 DEF ManagerFinishes
  <2>3. \A t \in Subscribers : pc'[t] \in Cleaning => pc[t] \in Cleaning
    BY <1>33, <1>0 DEF ManagerFinishes
  <2> QED
    BY <2>1, <2>2, <2>3, CleansKept DEF MapAgrees
<1>34. ASSUME CloseManager PROVE OneCleans'
  BY <1>34 DEF CloseManager, OneCleans
<1>35. ASSUME CloseCore PROVE OneCleans'
  <2>1. \A k \in ActiveLeases : lease'[k].subscribers = lease[k].subscribers
    BY <1>35, Kept DEF CloseCore, SameCounts
  <2>2. closed' = closed /\ leaseOf' = leaseOf
    BY <1>35 DEF CloseCore
  <2>3. \A t \in Subscribers : pc'[t] \in Cleaning => pc[t] \in Cleaning
    BY <1>35, <1>0 DEF CloseCore
  <2> QED
    BY <2>1, <2>2, <2>3, CleansKept DEF MapAgrees
<1>36. ASSUME UNCHANGED vars PROVE OneCleans'
  BY <1>36, CleansKept DEF vars, managerVars
<1> QED
  BY <1>1, <1>2, <1>3, <1>4, <1>5, <1>6, <1>7, <1>8, <1>9, <1>10, <1>11, <1>12,
     <1>13, <1>14, <1>15, <1>16, <1>17, <1>18, <1>19, <1>20, <1>21, <1>22, <1>23,
     <1>24, <1>25, <1>26, <1>27, <1>28, <1>29, <1>30, <1>31, <1>32, <1>33, <1>34,
     <1>35, <1>36 DEF Next, SubscriberStep, FeedStep,
     FeedInput, ManagerStep


-------------------------------------------------------------------------------
(* How far the cleanup of a lease has come. *)

\* A subscriber whose own stage a step does not change.
LEMMA StageKept ==
  ASSUME MapAgrees, Forward, NEW t \in Subscribers, Stage(t),
         pc'[t] \in Cleaning => pc'[t] = pc[t] /\ leaseOf'[t] = leaseOf[t],
         pc'[t] = "cleaning" =>
           lease'[leaseOf[t]].scope = lease[leaseOf[t]].scope,
         pc'[t] = "removed" => stored'[RouteOf[t]] \subseteq stored[RouteOf[t]]
  PROVE  Stage(t)'
<1>1. pc'[t] \in Cleaning => leaseOf[t] \in ActiveLeases
  BY DEF MapAgrees, Cleaning
<1> QED
  BY <1>1 DEF Stage, Forward, Cleaning

\* A route whose lease and cleaners a step does not change.
LEMMA RememberedKept ==
  ASSUME MapAgrees, CountsHolders, ~closed, LedgerKept,
         NEW r \in Routes, Remembered(r), leases'[r] = leases[r],
         \A k \in ActiveLeases : lease'[k].subscribers = lease[k].subscribers,
         \A t \in Subscribers : pc[t] \in Cleaning => pc'[t] \in Cleaning
  PROVE  Remembered(r)'
<1>1. leases[r] # None => leases[r] \in ActiveLeases /\ ledger[r] # None
  BY DEF MapAgrees, CountsHolders, Counted
<1>2. CleanersOf(r) # {} => CleanersOf(r)' # {}
  BY DEF CleanersOf, Cleaning
<1> QED
  BY <1>1, <1>2 DEF Remembered, LedgerKept

\* The stages of the cleanups hold while no cleaner moves and no lease changes
\* hands.
LEMMA StagesKept ==
  ASSUME MapAgrees, CountsHolders, CleanupStages, SameLeases, SameScopes, LedgerKept,
         closed' = closed, leases' = leases, leaseOf' = leaseOf,
         \A k \in ActiveLeases : lease'[k].subscribers = lease[k].subscribers,
         \A t \in Subscribers :
           pc[t] \in Cleaning \/ pc'[t] \in Cleaning => pc'[t] = pc[t],
         \A t \in Subscribers :
           pc[t] = "removed" => stored'[RouteOf[t]] \subseteq stored[RouteOf[t]]
  PROVE  CleanupStages'
<1> SUFFICES ASSUME ~closed PROVE CleanupStages'
  BY DEF CleanupStages
<1>1. ScopesOpen'
  BY DEF CleanupStages, ScopesOpen, SameLeases, Forward, SameScopes
<1>2. ASSUME NEW t \in Subscribers PROVE Stage(t)'
  <2>1. Stage(t) /\ Forward
    BY DEF CleanupStages, SameLeases
  <2>2. pc'[t] \in Cleaning => pc'[t] = pc[t] /\ leaseOf[t] \in ActiveLeases
    BY DEF MapAgrees
  <2>3. pc'[t] = "cleaning" => lease'[leaseOf[t]].scope = lease[leaseOf[t]].scope
    BY <2>2 DEF SameScopes, Cleaning
  <2>4. pc'[t] = "removed" => stored'[RouteOf[t]] \subseteq stored[RouteOf[t]]
    BY <2>2 DEF Cleaning
  <2> QED
    BY <2>1, <2>2, <2>3, <2>4, StageKept
<1>3. ASSUME NEW r \in Routes PROVE Remembered(r)'
  BY RememberedKept DEF CleanupStages
<1> QED
  BY <1>1, <1>2, <1>3 DEF CleanupStages

\* No step skips a stage.
LEMMA StagesStep ==
  ASSUME LeaseTypeOK, MapAgrees, PermitHeld, CountsHolders, OneCleans, CleanupStages,
         RowsAreOwned,
         [Next]_vars
  PROVE  CleanupStages'
<1>0. pc \in [Subscribers -> SubscriberStates]
  BY DEF LeaseTypeOK
<1>1. ASSUME NEW s \in Subscribers, Subscribe(s) PROVE CleanupStages'
  <2>1. /\ SameLeases /\ SameScopes
        /\ \A k \in ActiveLeases : lease'[k].subscribers = lease[k].subscribers
    BY <1>1, Kept DEF Subscribe, SameCounts
  <2>2. closed' = closed /\ leases' = leases /\ leaseOf' = leaseOf
    BY <1>1 DEF Subscribe, managerVars
  <2>3. \A t \in Subscribers :
          pc[t] \in Cleaning \/ pc'[t] \in Cleaning => pc'[t] = pc[t]
    BY <1>1, <1>0 DEF Subscribe, Goto, Cleaning
  <2>4. LedgerKept
    BY <1>1 DEF Subscribe, LedgerKept
  <2>5. stored' = stored
    BY <1>1 DEF Subscribe
  <2> QED
    BY <2>1, <2>2, <2>3, <2>4, <2>5, StagesKept
<1>2. ASSUME NEW s \in Subscribers, InterruptWait(s) PROVE CleanupStages'
  <2>1. /\ SameLeases /\ SameScopes
        /\ \A k \in ActiveLeases : lease'[k].subscribers = lease[k].subscribers
    BY <1>2, Kept DEF InterruptWait, SameCounts
  <2>2. closed' = closed /\ leases' = leases /\ leaseOf' = leaseOf
    BY <1>2 DEF InterruptWait, managerVars
  <2>3. \A t \in Subscribers :
          pc[t] \in Cleaning \/ pc'[t] \in Cleaning => pc'[t] = pc[t]
    BY <1>2, <1>0 DEF InterruptWait, Goto, Cleaning
  <2>4. LedgerKept
    BY <1>2 DEF InterruptWait, LedgerKept
  <2>5. stored' = stored
    BY <1>2 DEF InterruptWait
  <2> QED
    BY <2>1, <2>2, <2>3, <2>4, <2>5, StagesKept
<1>3. ASSUME NEW s \in Subscribers, CloseStream(s) PROVE CleanupStages'
  <2>1. /\ SameLeases /\ SameScopes
        /\ \A k \in ActiveLeases : lease'[k].subscribers = lease[k].subscribers
    BY <1>3, CloseStreamFields DEF SameCounts
  <2>2. closed' = closed /\ leases' = leases /\ leaseOf' = leaseOf
    BY <1>3 DEF CloseStream, Detach, managerVars
  <2>3. \A t \in Subscribers :
          pc[t] \in Cleaning \/ pc'[t] \in Cleaning => pc'[t] = pc[t]
    BY <1>3, <1>0 DEF CloseStream, Detach, Goto, Cleaning
  <2>4. LedgerKept
    BY <1>3 DEF CloseStream, Detach, LedgerKept
  <2>5. stored' = stored
    BY <1>3 DEF CloseStream, Detach
  <2> QED
    BY <2>1, <2>2, <2>3, <2>4, <2>5, StagesKept
<1>4. ASSUME NEW s \in Subscribers, CoreEnds(s) PROVE CleanupStages'
  <2>1. /\ SameLeases /\ SameScopes
        /\ \A k \in ActiveLeases : lease'[k].subscribers = lease[k].subscribers
    BY <1>4, Kept DEF CoreEnds, SameCounts
  <2>2. closed' = closed /\ leases' = leases /\ leaseOf' = leaseOf
    BY <1>4 DEF CoreEnds, managerVars
  <2>3. \A t \in Subscribers :
          pc[t] \in Cleaning \/ pc'[t] \in Cleaning => pc'[t] = pc[t]
    BY <1>4, <1>0 DEF CoreEnds
  <2>4. LedgerKept
    BY <1>4 DEF CoreEnds, LedgerKept
  <2>5. stored' = stored
    BY <1>4 DEF CoreEnds
  <2> QED
    BY <2>1, <2>2, <2>3, <2>4, <2>5, StagesKept
<1>5. ASSUME NEW s \in Subscribers, Refuse(s) PROVE CleanupStages'
  <2>1. /\ SameLeases /\ SameScopes
        /\ \A k \in ActiveLeases : lease'[k].subscribers = lease[k].subscribers
    BY <1>5, Kept DEF Refuse, SameCounts
  <2>2. closed' = closed /\ leases' = leases /\ leaseOf' = leaseOf
    BY <1>5 DEF Refuse, managerVars
  <2>3. \A t \in Subscribers :
          pc[t] \in Cleaning \/ pc'[t] \in Cleaning => pc'[t] = pc[t]
    BY <1>5, <1>0 DEF Refuse, Goto, Cleaning
  <2>4. LedgerKept
    BY <1>5 DEF Refuse, LedgerKept
  <2>5. stored' = stored
    BY <1>5 DEF Refuse
  <2> QED
    BY <2>1, <2>2, <2>3, <2>4, <2>5, StagesKept
<1>6. ASSUME NEW s \in Subscribers, Join(s) PROVE CleanupStages'
  <2> PICK l : l = Current(s)
    OBVIOUS
  <2>1. ~closed /\ l # None /\ lease[l].accepting /\ pc[s] = "waiting"
    BY <1>6 DEF Join, Joinable
  <2>2. l = leases[RouteOf[s]] /\ l \in ActiveLeases /\ lease[l].subscribers > 0
    BY <2>1, LeaseAssumption DEF Current, MapAgrees, CountsHolders, Counted
  <2>3. lease[l].subscribers \in Nat /\ lease[l].route = RouteOf[s]
    BY <2>1, <2>2, LeaseHolds, LeaseAssumption DEF LeaseRecords, MapAgrees
  <2>4. /\ SameLeases /\ SameScopes
        /\ \A k \in ActiveLeases :
             lease'[k].subscribers =
               IF k = l THEN lease[k].subscribers + 1 ELSE lease[k].subscribers
    BY <1>6, JoinFields
  <2>5. /\ leases' = leases /\ stored' = stored
        /\ ledger' = [ledger EXCEPT ![RouteOf[s]] = SubscriberAdded(ledger[RouteOf[s]])]
    BY <1>6 DEF Join, HealthAdded
  <2>6. ScopesOpen'
    BY <2>1, <2>2, <2>3, <2>4, <2>5 DEF CleanupStages, ScopesOpen, SameLeases, Forward,
       SameScopes
  <2>7. \A t \in Subscribers :
          /\ pc[t] \in Cleaning => pc'[t] \in Cleaning
          /\ pc'[t] \in Cleaning => pc'[t] = pc[t] /\ leaseOf'[t] = leaseOf[t]
    BY <1>6, <1>0 DEF Join, Goto, Cleaning, LeaseTypeOK
  <2>8. ASSUME NEW t \in Subscribers PROVE Stage(t)'
    <3>1. Stage(t) /\ Forward
      BY <2>1, <2>4 DEF CleanupStages, SameLeases
    <3>2. pc'[t] = "cleaning" => lease'[leaseOf[t]].scope = lease[leaseOf[t]].scope
      BY <2>4, <2>7 DEF MapAgrees, SameScopes, Cleaning
    <3> QED
      BY <2>5, <2>7, <3>1, <3>2, StageKept
  <2>9. ASSUME NEW r \in Routes PROVE Remembered(r)'
    <3>1. CASE r = RouteOf[s]
      BY <2>2, <2>3, <2>4, <2>5, <3>1 DEF Remembered
    <3>2. CASE r # RouteOf[s]
      <4>1. Remembered(r) /\ leases'[r] = leases[r] /\ ledger'[r] = ledger[r]
        BY <2>1, <2>5, <3>2 DEF CleanupStages, LeaseTypeOK
      <4>2. leases[r] # None => leases[r] \in ActiveLeases /\ leases[r] # l
        BY <2>3, <3>2 DEF MapAgrees
      <4>3. CleanersOf(r) # {} => CleanersOf(r)' # {}
        BY <2>7 DEF CleanersOf, Cleaning
      <4> QED
        BY <2>4, <4>1, <4>2, <4>3 DEF Remembered
    <3> QED
      BY <3>1, <3>2
  <2> QED
    BY <2>6, <2>8, <2>9 DEF CleanupStages
<1>7. ASSUME NEW s \in Subscribers, StartLease(s) PROVE CleanupStages'
  <2> PICK r, n : r = RouteOf[s] /\ n = Len(lease) + 1
    OBVIOUS
  <2>1. /\ ~closed /\ r \in Routes /\ leases[r] = None
        /\ \A q \in Routes : leases'[q] = IF q = r THEN n ELSE leases[q]
        /\ \A q \in Routes \ {r} : ledger'[q] = ledger[q]
        /\ stored' = stored
    BY <1>7, LeaseAssumption DEF StartLease, Current, HealthStarting, LeaseTypeOK
  <2>2. /\ n \notin ActiveLeases /\ ActiveLeases' = ActiveLeases \union {n}
        /\ \A k \in ActiveLeases : lease'[k] = lease[k]
        /\ lease'[n].subscribers = 1 /\ lease'[n].scope = "open" /\ lease'[n].route = r
    BY <1>7, StartLeaseFields
  <2>3. \A t \in Subscribers :
          /\ pc[t] \in Cleaning => pc'[t] \in Cleaning
          /\ pc'[t] \in Cleaning => pc'[t] = pc[t] /\ leaseOf'[t] = leaseOf[t]
    BY <1>7, <1>0 DEF StartLease, Goto, Cleaning, LeaseTypeOK
  <2>4. ASSUME NEW k \in ActiveLeases', leases'[lease'[k].route] = k,
               lease'[k].subscribers > 0
        PROVE  lease'[k].scope = "open"
    <3>1. CASE k = n
      BY <2>2, <3>1
    <3>2. CASE k # n
      <4>1. k \in ActiveLeases /\ lease'[k] = lease[k] /\ lease[k].route \in Routes
        BY <2>2, <3>2, LeaseHolds DEF LeaseRecords
      <4>2. leases[lease[k].route] = k
        BY <2>1, <2>4, <3>2, <4>1
      <4> QED
        BY <2>1, <2>4, <4>1, <4>2 DEF CleanupStages, ScopesOpen
    <3> QED
      BY <3>1, <3>2
  <2>5. \A t \in Subscribers : Stage(t)'
    BY <2>1, <2>2, <2>3, StageKept DEF CleanupStages, Forward, MapAgrees, Cleaning
  <2>6. ASSUME NEW q \in Routes PROVE Remembered(q)'
    <3>1. CASE q = r
      BY <2>1, <2>2, <3>1 DEF Remembered
    <3>2. CASE q # r
      <4>1. Remembered(q) /\ leases'[q] = leases[q] /\ ledger'[q] = ledger[q]
        BY <2>1, <3>2 DEF CleanupStages
      <4>2. CleanersOf(q) # {} => CleanersOf(q)' # {}
        BY <2>3 DEF CleanersOf, Cleaning
      <4> QED
        BY <2>2, <4>1, <4>2 DEF Remembered, MapAgrees
    <3> QED
      BY <3>1, <3>2
  <2>7. ScopesOpen'
    BY <2>4 DEF ScopesOpen
  <2> QED
    BY <2>5, <2>6, <2>7 DEF CleanupStages
<1>8. ASSUME NEW s \in Subscribers, ForkFeed(s) PROVE CleanupStages'
  <2>1. /\ SameLeases /\ SameScopes
        /\ \A k \in ActiveLeases : lease'[k].subscribers = lease[k].subscribers
    BY <1>8, ForkFeedFields DEF SameCounts
  <2>2. closed' = closed /\ leases' = leases /\ leaseOf' = leaseOf
    BY <1>8 DEF ForkFeed, managerVars
  <2>3. \A t \in Subscribers :
          pc[t] \in Cleaning \/ pc'[t] \in Cleaning => pc'[t] = pc[t]
    BY <1>8, <1>0 DEF ForkFeed, Goto, Cleaning
  <2>4. LedgerKept
    BY <1>8 DEF ForkFeed, LedgerKept
  <2>5. stored' = stored
    BY <1>8 DEF ForkFeed
  <2> QED
    BY <2>1, <2>2, <2>3, <2>4, <2>5, StagesKept
<1>9. ASSUME NEW s \in Subscribers, FailStart(s) PROVE CleanupStages'
  <2> SUFFICES ASSUME ~closed PROVE CleanupStages'
    BY <1>9 DEF FailStart, managerVars, CleanupStages
  <2> PICK r, l : r = RouteOf[s] /\ l = leaseOf[s]
    OBVIOUS
  <2>1. /\ r \in Routes /\ leaseOf' = leaseOf /\ pc[s] = "starting" /\ stored' = stored
        /\ leases' = [leases EXCEPT ![r] = None] /\ pc' = [pc EXCEPT ![s] = "refused"]
        /\ ledger' = [ledger EXCEPT ![r] = None]
    BY <1>9, LeaseAssumption DEF FailStart, Goto, HealthRemoved
  <2>2. /\ \A q \in Routes \ {r} : leases'[q] = leases[q] /\ ledger'[q] = ledger[q]
        /\ leases'[r] = None
    BY <2>1 DEF LeaseTypeOK
  <2>3. /\ SameLeases
        /\ \A k \in ActiveLeases :
             /\ lease'[k].subscribers = lease[k].subscribers
             /\ k # l => lease'[k].scope = lease[k].scope
    <3>1. SameLeases /\ SameCounts
      BY <1>9, FailStartFields
    <3>2. \A k \in ActiveLeases : k # l => lease'[k].scope = lease[k].scope
      BY <1>9, FailStartFields
    <3> QED
      BY <3>1, <3>2 DEF SameCounts
  <2>4. /\ pc[s] \in Holding \union Cleaning /\ pc'[s] \notin Cleaning
        /\ \A t \in Subscribers \ {s} : pc'[t] = pc[t]
    BY <1>0, <2>1 DEF Holding, Cleaning
  <2>5. leases[r] = l /\ l \in ActiveLeases /\ lease[l].route = r
    BY <2>1, <2>4, Shares
  <2>6. ScopesOpen'
    <3>1. \A k \in ActiveLeases :
            leases'[lease[k].route] = k => lease[k].route # r /\ k # l
      BY <2>2, <2>5, NoneIsNoLease
    <3>2. \A k \in ActiveLeases : lease[k].route \in Routes
      BY LeaseHolds DEF LeaseRecords
    <3> QED
      BY <2>2, <2>3, <3>1, <3>2 DEF CleanupStages, ScopesOpen, SameLeases, Forward
  <2>7. ASSUME NEW t \in Subscribers PROVE Stage(t)'
    <3>1. Stage(t) /\ Forward
      BY <2>3 DEF CleanupStages, SameLeases
    <3>2. ASSUME pc'[t] \in Cleaning
          PROVE  leaseOf[t] \in ActiveLeases /\ leaseOf[t] # l /\ t # s
      <4>1. t # s /\ pc[t] \in Cleaning
        BY <2>4, <3>2
      <4>2. RouteOf[t] # r
        BY <2>1, <4>1, Alone DEF Cleaning
      <4> QED
        BY <2>5, <4>1, <4>2 DEF MapAgrees
    <3>3. /\ pc'[t] \in Cleaning => pc'[t] = pc[t] /\ leaseOf'[t] = leaseOf[t]
          /\ pc'[t] = "cleaning" => lease'[leaseOf[t]].scope = lease[leaseOf[t]].scope
      BY <2>1, <2>3, <2>4, <3>2 DEF Cleaning
    <3> QED
      BY <2>1, <3>1, <3>3, StageKept
  <2>8. ASSUME NEW q \in Routes PROVE Remembered(q)'
    <3>1. CASE q = r
      BY <2>2, <3>1 DEF Remembered
    <3>2. CASE q # r
      <4>1. Remembered(q) /\ leases'[q] = leases[q] /\ ledger'[q] = ledger[q]
        BY <2>2, <3>2 DEF CleanupStages
      <4>2. CleanersOf(q) # {} => CleanersOf(q)' # {}
        BY <2>1, <2>4, <3>2 DEF CleanersOf, Cleaning
      <4> QED
        BY <2>3, <4>1, <4>2 DEF Remembered, MapAgrees
    <3> QED
      BY <3>1, <3>2
  <2> QED
    BY <2>6, <2>7, <2>8 DEF CleanupStages
<1>10. ASSUME NEW s \in Subscribers, Register(s) PROVE CleanupStages'
  <2>1. /\ SameLeases /\ SameScopes
        /\ \A k \in ActiveLeases : lease'[k].subscribers = lease[k].subscribers
    BY <1>10, RegisterFields DEF SameCounts
  <2>2. closed' = closed /\ leases' = leases /\ leaseOf' = leaseOf
    BY <1>10 DEF Register, managerVars
  <2>3. \A t \in Subscribers :
          pc[t] \in Cleaning \/ pc'[t] \in Cleaning => pc'[t] = pc[t]
    BY <1>10, <1>0 DEF Register, Goto, Cleaning
  <2>4. LedgerKept
    BY <1>10 DEF Register, LedgerKept
  <2>5. stored' = stored
    BY <1>10 DEF Register
  <2> QED
    BY <2>1, <2>2, <2>3, <2>4, <2>5, StagesKept
<1>11. ASSUME NEW s \in Subscribers, FailSubscribe(s) PROVE CleanupStages'
  <2>1. /\ SameLeases /\ SameScopes
        /\ \A k \in ActiveLeases : lease'[k].subscribers = lease[k].subscribers
    BY <1>11, Kept DEF FailSubscribe, SameCounts
  <2>2. closed' = closed /\ leases' = leases /\ leaseOf' = leaseOf
    BY <1>11 DEF FailSubscribe, managerVars
  <2>3. \A t \in Subscribers :
          pc[t] \in Cleaning \/ pc'[t] \in Cleaning => pc'[t] = pc[t]
    BY <1>11, <1>0 DEF FailSubscribe, Goto, Cleaning
  <2>4. LedgerKept
    BY <1>11 DEF FailSubscribe, LedgerKept
  <2>5. stored' = stored
    BY <1>11 DEF FailSubscribe
  <2> QED
    BY <2>1, <2>2, <2>3, <2>4, <2>5, StagesKept
<1>12. ASSUME NEW s \in Subscribers, EndStream(s) PROVE CleanupStages'
  <2>1. /\ SameLeases /\ SameScopes
        /\ \A k \in ActiveLeases : lease'[k].subscribers = lease[k].subscribers
    BY <1>12, EndStreamFields DEF SameCounts
  <2>2. closed' = closed /\ leases' = leases /\ leaseOf' = leaseOf
    BY <1>12 DEF EndStream, Detach, managerVars
  <2>3. \A t \in Subscribers :
          pc[t] \in Cleaning \/ pc'[t] \in Cleaning => pc'[t] = pc[t]
    BY <1>12, <1>0 DEF EndStream, Detach, Goto, Cleaning
  <2>4. LedgerKept
    BY <1>12 DEF EndStream, Detach, LedgerKept
  <2>5. stored' = stored
    BY <1>12 DEF EndStream, Detach
  <2> QED
    BY <2>1, <2>2, <2>3, <2>4, <2>5, StagesKept
<1>13. ASSUME NEW s \in Subscribers, CloseInternal(s) PROVE CleanupStages'
  <2>1. /\ SameLeases /\ SameScopes
        /\ \A k \in ActiveLeases : lease'[k].subscribers = lease[k].subscribers
    BY <1>13, Kept DEF CloseInternal, SameCounts
  <2>2. closed' = closed /\ leases' = leases /\ leaseOf' = leaseOf
    BY <1>13 DEF CloseInternal, managerVars
  <2>3. \A t \in Subscribers :
          pc[t] \in Cleaning \/ pc'[t] \in Cleaning => pc'[t] = pc[t]
    BY <1>13, <1>0 DEF CloseInternal, Goto, Cleaning
  <2>4. LedgerKept
    BY <1>13 DEF CloseInternal, LedgerKept
  <2>5. stored' = stored
    BY <1>13 DEF CloseInternal
  <2> QED
    BY <2>1, <2>2, <2>3, <2>4, <2>5, StagesKept
<1>14. ASSUME NEW s \in Subscribers, LeaveClosed(s) PROVE CleanupStages'
  BY <1>14, LeaveClosedIsClosed DEF LeaveClosed, managerVars, CleanupStages
<1>15. ASSUME NEW s \in Subscribers, Leave(s) PROVE CleanupStages'
  <2> PICK r, l : r = RouteOf[s] /\ l = leaseOf[s]
    OBVIOUS
  <2>1. /\ ~closed /\ r \in Routes /\ leases[r] = l /\ l \in ActiveLeases
        /\ lease[l].route = r /\ lease[l].subscribers \in Nat \ {0} /\ pc[s] \in Holding
    <3>1. pc[s] \in Holding
      BY <1>15 DEF Leave, Leaving, Holding
    <3>2. ~closed /\ lease[l].subscribers \in Nat \ {0}
      BY <1>15, LeaveOwn
    <3> QED
      BY <3>1, <3>2, Shares
  <2>2. /\ leases' = leases /\ leaseOf' = leaseOf /\ stored' = stored
        /\ \A q \in Routes \ {r} : ledger'[q] = ledger[q]
        /\ Current(s) = l
    BY <1>15, <2>1 DEF Leave, LeaseTypeOK, Current
  <2>3. /\ SameLeases /\ SameScopes
        /\ \A k \in ActiveLeases :
             lease'[k].subscribers =
               IF k = l THEN lease[k].subscribers - 1 ELSE lease[k].subscribers
    BY <1>15, LeaveFields
  <2>4. pc' = [pc EXCEPT ![s] = IF lease[l].subscribers - 1 > 0 THEN "done" ELSE "cleaning"]
    BY <1>15, <2>2 DEF Leave, Goto
  <2>5. /\ \A t \in Subscribers \ {s} : pc'[t] = pc[t]
        /\ pc'[s] = "cleaning" \/ pc'[s] = "done"
        /\ lease[l].subscribers = 1 => pc'[s] = "cleaning"
    BY <1>0, <2>1, <2>4
  <2>6. ScopesOpen /\ lease[l].scope = "open"
    BY <2>1 DEF CleanupStages, ScopesOpen
  <2>7. ScopesOpen'
    <3>1. \A k \in ActiveLeases : lease'[k].subscribers > 0 => lease[k].subscribers > 0
      BY <2>1, <2>3
    <3> QED
      BY <2>2, <2>3, <2>6, <3>1 DEF ScopesOpen, SameLeases, Forward, SameScopes
  <2>8. ASSUME NEW t \in Subscribers PROVE Stage(t)'
    <3>1. CASE t = s
      BY <2>1, <2>2, <2>3, <2>5, <2>6, <3>1 DEF Stage, SameScopes
    <3>2. CASE t # s
      <4>1. Stage(t) /\ Forward /\ pc'[t] = pc[t]
        BY <2>1, <2>3, <2>5, <3>2 DEF CleanupStages, SameLeases
      <4>2. pc'[t] = "cleaning" => lease'[leaseOf[t]].scope = lease[leaseOf[t]].scope
        BY <2>3, <4>1 DEF MapAgrees, SameScopes, Cleaning
      <4> QED
        BY <2>2, <4>1, <4>2, StageKept
    <3> QED
      BY <3>1, <3>2
  <2>9. ASSUME NEW q \in Routes PROVE Remembered(q)'
    <3>1. CASE q = r
      <4>1. lease'[l].subscribers = 0 => s \in CleanersOf(r)'
        BY <2>1, <2>3, <2>5 DEF CleanersOf, Cleaning
      <4> QED
        BY <2>1, <2>2, <3>1, <4>1 DEF Remembered
    <3>2. CASE q # r
      <4>1. Remembered(q) /\ leases'[q] = leases[q] /\ ledger'[q] = ledger[q]
        BY <2>1, <2>2, <3>2 DEF CleanupStages
      <4>2. CleanersOf(q) # {} => CleanersOf(q)' # {}
        BY <2>5, <3>2 DEF CleanersOf, Cleaning
      <4>3. leases[q] # None => leases[q] \in ActiveLeases /\ leases[q] # l
        BY <2>1, <3>2 DEF MapAgrees
      <4> QED
        BY <2>3, <4>1, <4>2, <4>3 DEF Remembered
    <3> QED
      BY <3>1, <3>2
  <2> QED
    BY <2>7, <2>8, <2>9 DEF CleanupStages
<1>16. ASSUME NEW s \in Subscribers, BeginCleanup(s) PROVE CleanupStages'
  <2> SUFFICES ASSUME ~closed PROVE CleanupStages'
    BY <1>16 DEF BeginCleanup, managerVars, CleanupStages
  <2> PICK r, l : r = RouteOf[s] /\ l = leaseOf[s]
    OBVIOUS
  <2>1. /\ r \in Routes /\ leases' = leases /\ leaseOf' = leaseOf /\ ledger' = ledger
        /\ pc[s] = "cleaning" /\ pc' = [pc EXCEPT ![s] = "stopping"]
    BY <1>16, LeaseAssumption DEF BeginCleanup, Goto, CleanupStages, Stage
  <2>2. /\ SameLeases
        /\ \A k \in ActiveLeases :
             /\ lease'[k].subscribers = lease[k].subscribers
             /\ k # l => lease'[k].scope = lease[k].scope
    BY <1>16, BeginCleanupFields DEF SameCounts
  <2>3. /\ \A t \in Subscribers \ {s} : pc'[t] = pc[t]
        /\ pc'[s] = "stopping" /\ pc[s] \in Cleaning /\ pc'[s] \in Cleaning
    BY <1>0, <2>1 DEF Cleaning
  <2>4. /\ leases[r] = l /\ l \in ActiveLeases /\ lease[l].route = r
        /\ lease[l].subscribers = 0 /\ Stage(s)
    BY <2>1, <2>3, Shares DEF OneCleans, CleanupStages
  <2>5. ScopesOpen'
    BY <2>1, <2>2, <2>4 DEF CleanupStages, ScopesOpen, SameLeases, Forward
  <2>6. Stage(s)'
    BY <1>16, <2>1, <2>3, <2>4, BeginCleanupFields DEF Stage
  <2>7. ASSUME NEW t \in Subscribers \ {s} PROVE Stage(t)'
    <3>1. Stage(t) /\ Forward /\ pc'[t] = pc[t]
      BY <2>2, <2>3 DEF CleanupStages, SameLeases
    <3>2. pc[t] \in Cleaning => leaseOf[t] \in ActiveLeases /\ leaseOf[t] # l
      BY <2>3, <2>4, Alone DEF MapAgrees
    <3>3. pc'[t] = "cleaning" => lease'[leaseOf[t]].scope = lease[leaseOf[t]].scope
      BY <2>2, <3>1, <3>2 DEF Cleaning
    <3>4. stored'[RouteOf[t]] \subseteq stored[RouteOf[t]]
      BY <1>16, LeaseAssumption DEF BeginCleanup, DeleteRows, LeaseTypeOK
    <3> QED
      BY <2>1, <3>1, <3>3, <3>4, StageKept
  <2>8. \A q \in Routes : Remembered(q)'
    <3>1. LedgerKept
      BY <2>1 DEF LedgerKept
    <3>2. \A t \in Subscribers : pc[t] \in Cleaning => pc'[t] \in Cleaning
      BY <2>3
    <3> QED
      BY <2>1, <2>2, <3>1, <3>2, RememberedKept DEF CleanupStages
  <2> QED
    BY <2>5, <2>6, <2>7, <2>8 DEF CleanupStages
<1>17. ASSUME NEW s \in Subscribers, ScopeClosed(s) PROVE CleanupStages'
  <2> SUFFICES ASSUME ~closed PROVE CleanupStages'
    BY <1>17 DEF ScopeClosed, managerVars, CleanupStages
  <2> PICK r, l : r = RouteOf[s] /\ l = leaseOf[s]
    OBVIOUS
  <2>1. /\ r \in Routes /\ leases' = leases /\ leaseOf' = leaseOf /\ ledger' = ledger
        /\ pc[s] = "stopping" /\ pc' = [pc EXCEPT ![s] = "removing"]
    BY <1>17, LeaseAssumption DEF ScopeClosed, Goto, CleanupStages, Stage
  <2>2. /\ SameLeases
        /\ \A k \in ActiveLeases :
             /\ lease'[k].subscribers = lease[k].subscribers
             /\ k # l => lease'[k].scope = lease[k].scope
    BY <1>17, ScopeClosedFields DEF SameCounts
  <2>3. /\ \A t \in Subscribers \ {s} : pc'[t] = pc[t]
        /\ pc'[s] = "removing" /\ pc[s] \in Cleaning /\ pc'[s] \in Cleaning
    BY <1>0, <2>1 DEF Cleaning
  <2>4. /\ leases[r] = l /\ l \in ActiveLeases /\ lease[l].route = r
        /\ lease[l].subscribers = 0 /\ Stage(s)
    BY <2>1, <2>3, Shares DEF OneCleans, CleanupStages
  <2>5. ScopesOpen'
    BY <2>1, <2>2, <2>4 DEF CleanupStages, ScopesOpen, SameLeases, Forward
  <2>6. Stage(s)'
    <3>1. /\ lease[l].feed = "ended" /\ lease[l].released
          /\ lease'[l].feed = "ended" /\ lease'[l].released
      BY <1>17, <2>1, <2>4, ScopeClosedFields DEF ScopeClosed, Stage, SameFeeds
    <3> QED
      BY <2>1, <2>3, <3>1 DEF Stage
  <2>7. ASSUME NEW t \in Subscribers \ {s} PROVE Stage(t)'
    <3>1. Stage(t) /\ Forward /\ pc'[t] = pc[t]
      BY <2>2, <2>3 DEF CleanupStages, SameLeases
    <3>2. pc[t] \in Cleaning => leaseOf[t] \in ActiveLeases /\ leaseOf[t] # l
      BY <2>3, <2>4, Alone DEF MapAgrees
    <3>3. pc'[t] = "cleaning" => lease'[leaseOf[t]].scope = lease[leaseOf[t]].scope
      BY <2>2, <3>1, <3>2 DEF Cleaning
    <3>4. stored'[RouteOf[t]] \subseteq stored[RouteOf[t]]
      BY <1>17, LeaseAssumption DEF ScopeClosed, DeleteRows, LeaseTypeOK
    <3> QED
      BY <2>1, <3>1, <3>3, <3>4, StageKept
  <2>8. \A q \in Routes : Remembered(q)'
    <3>1. LedgerKept
      BY <2>1 DEF LedgerKept
    <3>2. \A t \in Subscribers : pc[t] \in Cleaning => pc'[t] \in Cleaning
      BY <2>3
    <3> QED
      BY <2>1, <2>2, <3>1, <3>2, RememberedKept DEF CleanupStages
  <2> QED
    BY <2>5, <2>6, <2>7, <2>8 DEF CleanupStages
<1>18. ASSUME NEW s \in Subscribers, DeleteLeaseRows(s) PROVE CleanupStages'
  <2> SUFFICES ASSUME ~closed PROVE CleanupStages'
    BY <1>18 DEF DeleteLeaseRows, managerVars, CleanupStages
  <2> PICK r, l : r = RouteOf[s] /\ l = leaseOf[s]
    OBVIOUS
  <2>1. /\ r \in Routes /\ leases' = leases /\ leaseOf' = leaseOf /\ ledger' = ledger
        /\ pc[s] = "removing" /\ pc' = [pc EXCEPT ![s] = "removed"]
    BY <1>18, LeaseAssumption DEF DeleteLeaseRows, Goto, CleanupStages, Stage
  <2>2. /\ SameLeases
        /\ \A k \in ActiveLeases :
             /\ lease'[k].subscribers = lease[k].subscribers
             /\ k # l => lease'[k].scope = lease[k].scope
    BY <1>18, Kept DEF DeleteLeaseRows, SameCounts, SameScopes
  <2>3. /\ \A t \in Subscribers \ {s} : pc'[t] = pc[t]
        /\ pc'[s] = "removed" /\ pc[s] \in Cleaning /\ pc'[s] \in Cleaning
    BY <1>0, <2>1 DEF Cleaning
  <2>4. /\ leases[r] = l /\ l \in ActiveLeases /\ lease[l].route = r
        /\ lease[l].subscribers = 0 /\ Stage(s)
    BY <2>1, <2>3, Shares DEF OneCleans, CleanupStages
  <2>5. ScopesOpen'
    BY <2>1, <2>2, <2>4 DEF CleanupStages, ScopesOpen, SameLeases, Forward
  <2>6. Stage(s)'
    <3>1. stored[r] \subseteq lease[l].keys
      BY <2>1, <2>4, NoneIsNoLease DEF RowsAreOwned
    <3>2. stored'[r] = {}
      BY <1>18, <2>1, <3>1 DEF DeleteLeaseRows, DeleteRows, LeaseTypeOK
    <3>3. lease' = lease
      BY <1>18 DEF DeleteLeaseRows
    <3> QED
      BY <2>1, <2>3, <2>4, <3>2, <3>3 DEF Stage
  <2>7. ASSUME NEW t \in Subscribers \ {s} PROVE Stage(t)'
    <3>1. Stage(t) /\ Forward /\ pc'[t] = pc[t]
      BY <2>2, <2>3 DEF CleanupStages, SameLeases
    <3>2. pc[t] \in Cleaning => leaseOf[t] \in ActiveLeases /\ leaseOf[t] # l
      BY <2>3, <2>4, Alone DEF MapAgrees
    <3>3. pc'[t] = "cleaning" => lease'[leaseOf[t]].scope = lease[leaseOf[t]].scope
      BY <2>2, <3>1, <3>2 DEF Cleaning
    <3>4. stored'[RouteOf[t]] \subseteq stored[RouteOf[t]]
      BY <1>18, LeaseAssumption DEF DeleteLeaseRows, DeleteRows, LeaseTypeOK
    <3> QED
      BY <2>1, <3>1, <3>3, <3>4, StageKept
  <2>8. \A q \in Routes : Remembered(q)'
    <3>1. LedgerKept
      BY <2>1 DEF LedgerKept
    <3>2. \A t \in Subscribers : pc[t] \in Cleaning => pc'[t] \in Cleaning
      BY <2>3
    <3> QED
      BY <2>1, <2>2, <3>1, <3>2, RememberedKept DEF CleanupStages
  <2> QED
    BY <2>5, <2>6, <2>7, <2>8 DEF CleanupStages
<1>19. ASSUME NEW s \in Subscribers, RemoveLease(s) PROVE CleanupStages'
  <2> SUFFICES ASSUME ~closed PROVE CleanupStages'
    BY <1>19 DEF RemoveLease, managerVars, CleanupStages
  <2> PICK r, l : r = RouteOf[s] /\ l = leaseOf[s]
    OBVIOUS
  <2>1. /\ r \in Routes /\ leaseOf' = leaseOf /\ pc[s] = "removed" /\ stored' = stored
        /\ leases' = [leases EXCEPT ![r] = None] /\ pc' = [pc EXCEPT ![s] = "done"]
        /\ ledger' = [ledger EXCEPT ![r] = None]
    BY <1>19, LeaseAssumption DEF RemoveLease, Goto, HealthRemoved
  <2>2. /\ \A q \in Routes \ {r} : leases'[q] = leases[q] /\ ledger'[q] = ledger[q]
        /\ leases'[r] = None
    BY <2>1 DEF LeaseTypeOK
  <2>3. /\ SameLeases
        /\ \A k \in ActiveLeases :
             /\ lease'[k].subscribers = lease[k].subscribers
             /\ k # l => lease'[k].scope = lease[k].scope
    BY <1>19, Kept DEF RemoveLease, SameCounts, SameScopes
  <2>4. /\ pc[s] \in Holding \union Cleaning /\ pc'[s] \notin Cleaning
        /\ \A t \in Subscribers \ {s} : pc'[t] = pc[t]
    BY <1>0, <2>1 DEF Holding, Cleaning
  <2>5. leases[r] = l /\ l \in ActiveLeases /\ lease[l].route = r
    BY <2>1, <2>4, Shares
  <2>6. ScopesOpen'
    <3>1. \A k \in ActiveLeases :
            leases'[lease[k].route] = k => lease[k].route # r /\ k # l
      BY <2>2, <2>5, NoneIsNoLease
    <3>2. \A k \in ActiveLeases : lease[k].route \in Routes
      BY LeaseHolds DEF LeaseRecords
    <3> QED
      BY <2>2, <2>3, <3>1, <3>2 DEF CleanupStages, ScopesOpen, SameLeases, Forward
  <2>7. ASSUME NEW t \in Subscribers PROVE Stage(t)'
    <3>1. Stage(t) /\ Forward
      BY <2>3 DEF CleanupStages, SameLeases
    <3>2. ASSUME pc'[t] \in Cleaning
          PROVE  leaseOf[t] \in ActiveLeases /\ leaseOf[t] # l /\ t # s
      <4>1. t # s /\ pc[t] \in Cleaning
        BY <2>4, <3>2
      <4>2. RouteOf[t] # r
        BY <2>1, <4>1, Alone DEF Cleaning
      <4> QED
        BY <2>5, <4>1, <4>2 DEF MapAgrees
    <3>3. /\ pc'[t] \in Cleaning => pc'[t] = pc[t] /\ leaseOf'[t] = leaseOf[t]
          /\ pc'[t] = "cleaning" => lease'[leaseOf[t]].scope = lease[leaseOf[t]].scope
      BY <2>1, <2>3, <2>4, <3>2 DEF Cleaning
    <3> QED
      BY <2>1, <3>1, <3>3, StageKept
  <2>8. ASSUME NEW q \in Routes PROVE Remembered(q)'
    <3>1. CASE q = r
      BY <2>2, <3>1 DEF Remembered
    <3>2. CASE q # r
      <4>1. Remembered(q) /\ leases'[q] = leases[q] /\ ledger'[q] = ledger[q]
        BY <2>2, <3>2 DEF CleanupStages
      <4>2. CleanersOf(q) # {} => CleanersOf(q)' # {}
        BY <2>1, <2>4, <3>2 DEF CleanersOf, Cleaning
      <4> QED
        BY <2>3, <4>1, <4>2 DEF Remembered, MapAgrees
    <3> QED
      BY <3>1, <3>2
  <2> QED
    BY <2>6, <2>7, <2>8 DEF CleanupStages
<1>20. ASSUME NEW s \in Subscribers, FailCleanup(s) PROVE CleanupStages'
  <2> SUFFICES ASSUME ~closed PROVE CleanupStages'
    BY <1>20 DEF FailCleanup, managerVars, CleanupStages
  <2> PICK r : r = RouteOf[s]
    OBVIOUS
  <2>1. /\ r \in Routes /\ leases' = leases /\ leaseOf' = leaseOf /\ lease' = lease
        /\ pc[s] = "removing" /\ pc' = [pc EXCEPT ![s] = "done"]
        /\ HealthStatus(r, "degraded") /\ DeleteSomeRows(r, leaseOf[s])
    BY <1>20, LeaseAssumption DEF FailCleanup, Goto
  <2>2. SameLeases /\ SameCounts /\ SameScopes
    BY <2>1, Kept
  <2>3. /\ \A t \in Subscribers \ {s} : pc'[t] = pc[t]
        /\ pc'[s] \notin Cleaning
    BY <1>0, <2>1 DEF Cleaning
  <2>4. LedgerKept /\ (ledger[r] # None => ledger'[r].status = "degraded")
    BY <2>1, StatusKept
  <2>5. \A q \in Routes : stored'[q] \subseteq stored[q]
    BY <2>1, RowsDeleted
  <2>6. ScopesOpen'
    BY <2>1, <2>2 DEF CleanupStages, ScopesOpen, SameLeases
  <2>7. \A t \in Subscribers : Stage(t)'
    <3>1. \A t \in Subscribers :
            /\ Stage(t)
            /\ pc'[t] \in Cleaning => pc'[t] = pc[t]
            /\ stored'[RouteOf[t]] \subseteq stored[RouteOf[t]]
      BY <2>3, <2>5, LeaseAssumption DEF CleanupStages
    <3> QED
      BY <2>1, <2>2, <3>1, StageKept DEF SameLeases
  <2>8. ASSUME NEW q \in Routes PROVE Remembered(q)'
    <3>1. CASE q = r
      <4>1. leases[r] # None => ledger[r] # None
        BY <2>1 DEF CountsHolders, Counted
      <4> QED
        BY <2>1, <2>4, <3>1, <4>1 DEF Remembered
    <3>2. CASE q # r
      <4>1. CleanersOf(q) # {} => CleanersOf(q)' # {}
        BY <2>3, <3>2 DEF CleanersOf, Cleaning
      <4>2. leases[q] # None => ledger[q] # None
        BY DEF CountsHolders, Counted
      <4> QED
        BY <2>1, <2>4, <4>1, <4>2 DEF CleanupStages, Remembered, LedgerKept
    <3> QED
      BY <3>1, <3>2
  <2> QED
    BY <2>6, <2>7, <2>8 DEF CleanupStages
<1>21. ASSUME NEW l \in ActiveLeases, EndPublish(l) PROVE CleanupStages'
  <2> SUFFICES ASSUME ~closed PROVE CleanupStages'
    BY <1>21 DEF EndPublish, managerVars, CleanupStages
  <2>1. /\ SameLeases /\ SameScopes
        /\ \A k \in ActiveLeases : lease'[k].subscribers = lease[k].subscribers
    BY <1>21, EndPublishFields DEF SameCounts
  <2>2. /\ closed' = closed /\ leases' = leases /\ leaseOf' = leaseOf /\ pc' = pc
        /\ lease[l].feed = "publishing"
        /\ stored' = [stored EXCEPT ![lease[l].route] =
                        stored[lease[l].route] \union lease[l].batch]
    BY <1>21 DEF EndPublish, managerVars
  <2>3. LedgerKept
    BY <1>21 DEF EndPublish, LedgerKept
  <2>4. \A t \in Subscribers :
          pc[t] = "removed" => stored'[RouteOf[t]] \subseteq stored[RouteOf[t]]
    <3> SUFFICES ASSUME NEW t \in Subscribers, pc[t] = "removed"
                 PROVE  stored'[RouteOf[t]] \subseteq stored[RouteOf[t]]
      OBVIOUS
    <3>1. lease[leaseOf[t]].feed = "ended"
      BY DEF CleanupStages, Stage
    <3>2. leases[RouteOf[t]] = leaseOf[t]
      BY Shares DEF Cleaning
    <3>3. lease[l].route # RouteOf[t]
      BY <2>2, <3>1, <3>2 DEF RowsAreOwned
    <3> QED
      BY <2>2, <3>3, LeaseAssumption DEF LeaseTypeOK
  <2> QED
    BY <2>1, <2>2, <2>3, <2>4, StagesKept
<1>22. ASSUME NEW l \in ActiveLeases, FailPublish(l) PROVE CleanupStages'
  <2>1. /\ SameLeases /\ SameScopes
        /\ \A k \in ActiveLeases : lease'[k].subscribers = lease[k].subscribers
    BY <1>22, FailPublishFields DEF SameCounts
  <2>2. closed' = closed /\ leases' = leases /\ leaseOf' = leaseOf
    BY <1>22 DEF FailPublish, managerVars
  <2>3. \A t \in Subscribers :
          pc[t] \in Cleaning \/ pc'[t] \in Cleaning => pc'[t] = pc[t]
    BY <1>22, <1>0 DEF FailPublish
  <2>4. LedgerKept
    <3>1. lease[l].route \in Routes
      BY LeaseHolds DEF LeaseRecords
    <3> QED
      BY <1>22, <3>1, StatusKept DEF FailPublish, LedgerKept
  <2>5. stored' = stored
    BY <1>22 DEF FailPublish
  <2> QED
    BY <2>1, <2>2, <2>3, <2>4, <2>5, StagesKept
<1>23. ASSUME NEW l \in ActiveLeases, BeginDegrade(l) PROVE CleanupStages'
  <2> SUFFICES ASSUME ~closed PROVE CleanupStages'
    BY <1>23 DEF BeginDegrade, managerVars, CleanupStages
  <2>1. /\ SameLeases
        /\ \A k \in ActiveLeases : lease'[k].subscribers = lease[k].subscribers
        /\ \A k \in ActiveLeases : lease'[k].scope = lease[k].scope
    BY <1>23, BeginDegradeFields
  <2>2. /\ leases' = leases /\ leaseOf' = leaseOf /\ pc' = pc /\ stored' = stored
        /\ ledger' = ledger
    BY <1>23 DEF BeginDegrade
  <2>3. ScopesOpen'
    BY <2>1, <2>2 DEF CleanupStages, ScopesOpen, SameLeases, Forward
  <2>4. \A t \in Subscribers : Stage(t)'
    BY <2>1, <2>2, StageKept DEF CleanupStages, SameLeases, MapAgrees, Cleaning
  <2>5. \A r \in Routes : Remembered(r)'
    BY <2>1, <2>2, RememberedKept DEF CleanupStages, LedgerKept
  <2> QED
    BY <2>3, <2>4, <2>5 DEF CleanupStages
<1>24. ASSUME NEW l \in ActiveLeases, DegradeRows(l) PROVE CleanupStages'
  <2>1. /\ SameLeases /\ SameScopes
        /\ \A k \in ActiveLeases : lease'[k].subscribers = lease[k].subscribers
    BY <1>24, DegradeRowsFields DEF SameCounts
  <2>2. closed' = closed /\ leases' = leases /\ leaseOf' = leaseOf
    BY <1>24 DEF DegradeRows, managerVars
  <2>3. \A t \in Subscribers :
          pc[t] \in Cleaning \/ pc'[t] \in Cleaning => pc'[t] = pc[t]
    BY <1>24, <1>0 DEF DegradeRows
  <2>4. LedgerKept
    <3>1. lease[l].route \in Routes
      BY LeaseHolds DEF LeaseRecords
    <3> QED
      BY <1>24, <3>1, StatusKept DEF DegradeRows
  <2>5. \A t \in Subscribers : stored'[RouteOf[t]] \subseteq stored[RouteOf[t]]
    <3>1. lease[l].route \in Routes
      BY LeaseHolds DEF LeaseRecords
    <3> QED
      BY <1>24, <3>1, RowsDeleted, LeaseAssumption DEF DegradeRows
  <2> QED
    BY <2>1, <2>2, <2>3, <2>4, <2>5, StagesKept
<1>25. ASSUME NEW l \in ActiveLeases, DegradeCloses(l) PROVE CleanupStages'
  <2>1. /\ SameLeases /\ SameScopes
        /\ \A k \in ActiveLeases : lease'[k].subscribers = lease[k].subscribers
    BY <1>25, DegradeClosesFields DEF SameCounts
  <2>2. closed' = closed /\ leases' = leases /\ leaseOf' = leaseOf
    BY <1>25 DEF DegradeCloses, managerVars
  <2>3. \A t \in Subscribers :
          pc[t] \in Cleaning \/ pc'[t] \in Cleaning => pc'[t] = pc[t]
    BY <1>25, <1>0 DEF DegradeCloses
  <2>4. LedgerKept
    BY <1>25 DEF DegradeCloses, LedgerKept
  <2>5. stored' = stored
    BY <1>25 DEF DegradeCloses
  <2> QED
    BY <2>1, <2>2, <2>3, <2>4, <2>5, StagesKept
<1>26. ASSUME NEW l \in ActiveLeases, DegradeTells(l) PROVE CleanupStages'
  <2>1. /\ SameLeases /\ SameScopes
        /\ \A k \in ActiveLeases : lease'[k].subscribers = lease[k].subscribers
    BY <1>26, DegradeTellsFields DEF SameCounts
  <2>2. closed' = closed /\ leases' = leases /\ leaseOf' = leaseOf
    BY <1>26 DEF DegradeTells, managerVars
  <2>3. \A t \in Subscribers :
          pc[t] \in Cleaning \/ pc'[t] \in Cleaning => pc'[t] = pc[t]
    BY <1>26, <1>0 DEF DegradeTells
  <2>4. LedgerKept
    BY <1>26 DEF DegradeTells, LedgerKept
  <2>5. stored' = stored
    BY <1>26 DEF DegradeTells
  <2> QED
    BY <2>1, <2>2, <2>3, <2>4, <2>5, StagesKept
<1>27. ASSUME NEW l \in ActiveLeases, InterruptFeed(l) PROVE CleanupStages'
  <2>1. /\ SameLeases /\ SameScopes
        /\ \A k \in ActiveLeases : lease'[k].subscribers = lease[k].subscribers
    BY <1>27, InterruptFeedFields DEF SameCounts
  <2>2. closed' = closed /\ leases' = leases /\ leaseOf' = leaseOf
    BY <1>27 DEF InterruptFeed, managerVars
  <2>3. \A t \in Subscribers :
          pc[t] \in Cleaning \/ pc'[t] \in Cleaning => pc'[t] = pc[t]
    BY <1>27, <1>0 DEF InterruptFeed
  <2>4. LedgerKept
    BY <1>27 DEF InterruptFeed, LedgerKept
  <2>5. stored' = stored
    BY <1>27 DEF InterruptFeed
  <2> QED
    BY <2>1, <2>2, <2>3, <2>4, <2>5, StagesKept
<1>28. ASSUME NEW l \in ActiveLeases, BeginPublish(l) PROVE CleanupStages'
  <2>1. /\ SameLeases /\ SameScopes
        /\ \A k \in ActiveLeases : lease'[k].subscribers = lease[k].subscribers
    BY <1>28, BeginPublishFields DEF SameCounts
  <2>2. closed' = closed /\ leases' = leases /\ leaseOf' = leaseOf
    BY <1>28 DEF BeginPublish, managerVars
  <2>3. \A t \in Subscribers :
          pc[t] \in Cleaning \/ pc'[t] \in Cleaning => pc'[t] = pc[t]
    BY <1>28, <1>0 DEF BeginPublish
  <2>4. LedgerKept
    BY <1>28 DEF BeginPublish, LedgerKept
  <2>5. stored' = stored
    BY <1>28 DEF BeginPublish
  <2> QED
    BY <2>1, <2>2, <2>3, <2>4, <2>5, StagesKept
<1>29. ASSUME NEW l \in ActiveLeases, FailMapping(l) PROVE CleanupStages'
  <2>1. /\ SameLeases /\ SameScopes
        /\ \A k \in ActiveLeases : lease'[k].subscribers = lease[k].subscribers
    BY <1>29, FailMappingFields DEF SameCounts
  <2>2. closed' = closed /\ leases' = leases /\ leaseOf' = leaseOf
    BY <1>29 DEF FailMapping, managerVars
  <2>3. \A t \in Subscribers :
          pc[t] \in Cleaning \/ pc'[t] \in Cleaning => pc'[t] = pc[t]
    BY <1>29, <1>0 DEF FailMapping
  <2>4. LedgerKept
    <3>1. lease[l].route \in Routes
      BY LeaseHolds DEF LeaseRecords
    <3> QED
      BY <1>29, <3>1, StatusKept DEF FailMapping
  <2>5. stored' = stored
    BY <1>29 DEF FailMapping
  <2> QED
    BY <2>1, <2>2, <2>3, <2>4, <2>5, StagesKept
<1>30. ASSUME NEW l \in ActiveLeases, UpstreamEnds(l) PROVE CleanupStages'
  <2>1. /\ SameLeases /\ SameScopes
        /\ \A k \in ActiveLeases : lease'[k].subscribers = lease[k].subscribers
    BY <1>30, UpstreamEndsFields DEF SameCounts
  <2>2. closed' = closed /\ leases' = leases /\ leaseOf' = leaseOf
    BY <1>30 DEF UpstreamEnds, managerVars
  <2>3. \A t \in Subscribers :
          pc[t] \in Cleaning \/ pc'[t] \in Cleaning => pc'[t] = pc[t]
    BY <1>30, <1>0 DEF UpstreamEnds
  <2>4. LedgerKept
    BY <1>30 DEF UpstreamEnds, LedgerKept
  <2>5. stored' = stored
    BY <1>30 DEF UpstreamEnds
  <2> QED
    BY <2>1, <2>2, <2>3, <2>4, <2>5, StagesKept
<1>31. ASSUME NEW l \in ActiveLeases, UpstreamInterrupted(l) PROVE CleanupStages'
  <2>1. /\ SameLeases /\ SameScopes
        /\ \A k \in ActiveLeases : lease'[k].subscribers = lease[k].subscribers
    BY <1>31, UpstreamInterruptedFields DEF SameCounts
  <2>2. closed' = closed /\ leases' = leases /\ leaseOf' = leaseOf
    BY <1>31 DEF UpstreamInterrupted, managerVars
  <2>3. \A t \in Subscribers :
          pc[t] \in Cleaning \/ pc'[t] \in Cleaning => pc'[t] = pc[t]
    BY <1>31, <1>0 DEF UpstreamInterrupted
  <2>4. LedgerKept
    BY <1>31 DEF UpstreamInterrupted, LedgerKept
  <2>5. stored' = stored
    BY <1>31 DEF UpstreamInterrupted
  <2> QED
    BY <2>1, <2>2, <2>3, <2>4, <2>5, StagesKept
<1>32. ASSUME NEW l \in ActiveLeases, ManagerClosesScope(l) PROVE CleanupStages'
  BY <1>32, ManagerIsClosed DEF ManagerStep, CleanupStages
<1>33. ASSUME NEW l \in ActiveLeases, ManagerFinishes(l) PROVE CleanupStages'
  BY <1>33, ManagerIsClosed DEF ManagerStep, CleanupStages
<1>34. ASSUME CloseManager PROVE CleanupStages'
  BY <1>34 DEF CloseManager, CleanupStages
<1>35. ASSUME CloseCore PROVE CleanupStages'
  BY <1>35 DEF CloseCore, CleanupStages
<1>36. ASSUME UNCHANGED vars PROVE CleanupStages'
  <2>1. /\ SameLeases /\ SameScopes
        /\ \A k \in ActiveLeases : lease'[k].subscribers = lease[k].subscribers
    BY <1>36, Kept DEF vars, SameCounts
  <2>2. LedgerKept
    BY <1>36 DEF vars, LedgerKept
  <2> QED
    BY <1>36, <2>1, <2>2, StagesKept DEF vars, managerVars
<1> QED
  BY <1>1, <1>2, <1>3, <1>4, <1>5, <1>6, <1>7, <1>8, <1>9, <1>10, <1>11, <1>12,
     <1>13, <1>14, <1>15, <1>16, <1>17, <1>18, <1>19, <1>20, <1>21, <1>22, <1>23,
     <1>24, <1>25, <1>26, <1>27, <1>28, <1>29, <1>30, <1>31, <1>32, <1>33, <1>34,
     <1>35, <1>36 DEF Next, SubscriberStep, FeedStep,
     FeedInput, ManagerStep


-------------------------------------------------------------------------------
(* A route's rows are its lease's. *)

\* Rows stay those of their lease while none is added.
LEMMA RowsKept ==
  ASSUME RowsAreOwned, MapAgrees, SameLeases, closed' = closed, leases' = leases,
         \A k \in ActiveLeases : lease'[k].batch \subseteq lease'[k].keys,
         ~closed => \A r \in Routes : stored'[r] \subseteq stored[r]
  PROVE  RowsAreOwned'
<1>1. \A k \in ActiveLeases' : lease'[k].batch \subseteq lease'[k].keys
  BY DEF SameLeases
<1>2. ASSUME ~closed
      PROVE  /\ \A k \in ActiveLeases' :
                  leases'[lease'[k].route] # k => lease'[k].feed = "ended" /\ lease'[k].released
             /\ \A r \in Routes :
                  stored'[r] \subseteq IF leases'[r] = None THEN {} ELSE lease'[leases'[r]].keys
  BY <1>2 DEF RowsAreOwned, MapAgrees, SameLeases, Forward
<1> QED
  BY <1>1, <1>2 DEF RowsAreOwned

\* No step leaves a row without its lease.
LEMMA RowsStep ==
  ASSUME LeaseTypeOK, MapAgrees, PermitHeld, CountsHolders, OneCleans, CleanupStages,
         RowsAreOwned,
         [Next]_vars
  PROVE  RowsAreOwned'
<1>0. pc \in [Subscribers -> SubscriberStates]
  BY DEF LeaseTypeOK
<1>1. ASSUME NEW s \in Subscribers, Subscribe(s) PROVE RowsAreOwned'
  <2>1. /\ SameLeases
        /\ \A k \in ActiveLeases : lease'[k].batch \subseteq lease'[k].keys
    BY <1>1, Kept DEF Subscribe, SameRows, RowsAreOwned
  <2>2. closed' = closed /\ leases' = leases
    BY <1>1 DEF Subscribe, managerVars
  <2>3. ~closed => \A r \in Routes : stored'[r] \subseteq stored[r]
    BY <1>1 DEF Subscribe
  <2> QED
    BY <2>1, <2>2, <2>3, RowsKept
<1>2. ASSUME NEW s \in Subscribers, InterruptWait(s) PROVE RowsAreOwned'
  <2>1. /\ SameLeases
        /\ \A k \in ActiveLeases : lease'[k].batch \subseteq lease'[k].keys
    BY <1>2, Kept DEF InterruptWait, SameRows, RowsAreOwned
  <2>2. closed' = closed /\ leases' = leases
    BY <1>2 DEF InterruptWait, managerVars
  <2>3. ~closed => \A r \in Routes : stored'[r] \subseteq stored[r]
    BY <1>2 DEF InterruptWait
  <2> QED
    BY <2>1, <2>2, <2>3, RowsKept
<1>3. ASSUME NEW s \in Subscribers, CloseStream(s) PROVE RowsAreOwned'
  <2>1. /\ SameLeases
        /\ \A k \in ActiveLeases : lease'[k].batch \subseteq lease'[k].keys
    BY <1>3, CloseStreamFields DEF SameRows, RowsAreOwned
  <2>2. closed' = closed /\ leases' = leases
    BY <1>3 DEF CloseStream, Detach, managerVars
  <2>3. ~closed => \A r \in Routes : stored'[r] \subseteq stored[r]
    BY <1>3 DEF CloseStream, Detach
  <2> QED
    BY <2>1, <2>2, <2>3, RowsKept
<1>4. ASSUME NEW s \in Subscribers, CoreEnds(s) PROVE RowsAreOwned'
  <2>1. /\ SameLeases
        /\ \A k \in ActiveLeases : lease'[k].batch \subseteq lease'[k].keys
    BY <1>4, Kept DEF CoreEnds, SameRows, RowsAreOwned
  <2>2. closed' = closed /\ leases' = leases
    BY <1>4 DEF CoreEnds, managerVars
  <2>3. ~closed => \A r \in Routes : stored'[r] \subseteq stored[r]
    BY <1>4 DEF CoreEnds
  <2> QED
    BY <2>1, <2>2, <2>3, RowsKept
<1>5. ASSUME NEW s \in Subscribers, Refuse(s) PROVE RowsAreOwned'
  <2>1. /\ SameLeases
        /\ \A k \in ActiveLeases : lease'[k].batch \subseteq lease'[k].keys
    BY <1>5, Kept DEF Refuse, SameRows, RowsAreOwned
  <2>2. closed' = closed /\ leases' = leases
    BY <1>5 DEF Refuse, managerVars
  <2>3. ~closed => \A r \in Routes : stored'[r] \subseteq stored[r]
    BY <1>5 DEF Refuse
  <2> QED
    BY <2>1, <2>2, <2>3, RowsKept
<1>6. ASSUME NEW s \in Subscribers, Join(s) PROVE RowsAreOwned'
  <2>1. /\ SameLeases
        /\ \A k \in ActiveLeases : lease'[k].batch \subseteq lease'[k].keys
    BY <1>6, JoinFields DEF SameRows, RowsAreOwned
  <2>2. closed' = closed /\ leases' = leases
    BY <1>6 DEF Join, managerVars
  <2>3. ~closed => \A r \in Routes : stored'[r] \subseteq stored[r]
    BY <1>6 DEF Join
  <2> QED
    BY <2>1, <2>2, <2>3, RowsKept
<1>7. ASSUME NEW s \in Subscribers, StartLease(s) PROVE RowsAreOwned'
  <2> PICK r, n : r = RouteOf[s] /\ n = Len(lease) + 1
    OBVIOUS
  <2>1. /\ ~closed /\ r \in Routes /\ leases[r] = None /\ stored' = stored
        /\ \A q \in Routes : leases'[q] = IF q = r THEN n ELSE leases[q]
    BY <1>7, LeaseAssumption DEF StartLease, Current, LeaseTypeOK
  <2>2. /\ n \notin ActiveLeases /\ ActiveLeases' = ActiveLeases \union {n}
        /\ \A k \in ActiveLeases : lease'[k] = lease[k]
        /\ lease'[n].route = r /\ lease'[n].keys = {} /\ lease'[n].batch = {}
    BY <1>7, StartLeaseFields
  <2>3. \A k \in ActiveLeases' : lease'[k].batch \subseteq lease'[k].keys
    BY <2>2 DEF RowsAreOwned
  <2>4. ASSUME NEW k \in ActiveLeases', leases'[lease'[k].route] # k
        PROVE  lease'[k].feed = "ended" /\ lease'[k].released
    <3>1. k \in ActiveLeases /\ lease'[k] = lease[k] /\ lease[k].route \in Routes
      BY <2>1, <2>2, <2>4, LeaseHolds DEF LeaseRecords
    <3>2. leases[lease[k].route] # k
      BY <2>1, <2>4, <3>1, NoneIsNoLease
    <3> QED
      BY <2>1, <3>1, <3>2 DEF RowsAreOwned
  <2>5. ASSUME NEW q \in Routes
        PROVE  stored'[q] \subseteq IF leases'[q] = None THEN {} ELSE lease'[leases'[q]].keys
    <3>1. CASE q = r
      BY <2>1, <3>1 DEF RowsAreOwned
    <3>2. CASE q # r
      BY <2>1, <2>2, <3>2 DEF RowsAreOwned, MapAgrees
    <3> QED
      BY <3>1, <3>2
  <2> QED
    BY <2>3, <2>4, <2>5 DEF RowsAreOwned
<1>8. ASSUME NEW s \in Subscribers, ForkFeed(s) PROVE RowsAreOwned'
  <2>1. /\ SameLeases
        /\ \A k \in ActiveLeases : lease'[k].batch \subseteq lease'[k].keys
    BY <1>8, ForkFeedFields DEF SameRows, RowsAreOwned
  <2>2. closed' = closed /\ leases' = leases
    BY <1>8 DEF ForkFeed, managerVars
  <2>3. ~closed => \A r \in Routes : stored'[r] \subseteq stored[r]
    BY <1>8 DEF ForkFeed
  <2> QED
    BY <2>1, <2>2, <2>3, RowsKept
<1>9. ASSUME NEW s \in Subscribers, FailStart(s) PROVE RowsAreOwned'
  <2>1. /\ SameLeases
        /\ \A k \in ActiveLeases : lease'[k].batch \subseteq lease'[k].keys
        /\ closed' = closed
    <3>1. SameLeases /\ SameRows
      BY <1>9, FailStartFields
    <3>2. closed' = closed
      BY <1>9 DEF FailStart, managerVars
    <3> QED
      BY <3>1, <3>2 DEF SameRows, RowsAreOwned
  <2> SUFFICES ASSUME ~closed PROVE RowsAreOwned'
    BY <2>1 DEF RowsAreOwned, SameLeases
  <2> PICK r, l : r = RouteOf[s] /\ l = leaseOf[s]
    OBVIOUS
  <2>2. /\ r \in Routes /\ stored' = stored /\ pc[s] = "starting"
        /\ \A q \in Routes : leases'[q] = IF q = r THEN None ELSE leases[q]
    BY <1>9, LeaseAssumption DEF FailStart, LeaseTypeOK
  <2>3. leases[r] = l /\ l \in ActiveLeases
    BY <2>2, Shares DEF Holding, Cleaning
  <2>4. stored[r] = {} /\ lease'[l].feed = "ended" /\ lease'[l].released
    <3>1. stored[r] \subseteq lease[l].keys /\ lease[l].keys = {}
      BY <2>2, <2>3, NoneIsNoLease DEF RowsAreOwned, PermitHeld
    <3> QED
      BY <1>9, <2>3, <3>1, FailStartFields
  <2>5. ASSUME NEW k \in ActiveLeases, leases'[lease[k].route] # k
        PROVE  lease'[k].feed = "ended" /\ lease'[k].released
    <3>1. lease[k].route \in Routes
      BY LeaseHolds DEF LeaseRecords
    <3>2. k = l \/ leases[lease[k].route] # k
      BY <2>2, <2>3, <2>5, <3>1
    <3> QED
      BY <2>1, <2>4, <3>2 DEF RowsAreOwned, SameLeases, Forward
  <2>6. ASSUME NEW q \in Routes
        PROVE  stored'[q] \subseteq IF leases'[q] = None THEN {} ELSE lease'[leases'[q]].keys
    <3>1. CASE q = r
      BY <2>2, <2>4, <3>1
    <3>2. CASE q # r
      BY <2>1, <2>2, <3>2 DEF RowsAreOwned, MapAgrees, SameLeases, Forward
    <3> QED
      BY <3>1, <3>2
  <2> QED
    BY <2>1, <2>5, <2>6 DEF RowsAreOwned, SameLeases, Forward
<1>10. ASSUME NEW s \in Subscribers, Register(s) PROVE RowsAreOwned'
  <2>1. /\ SameLeases
        /\ \A k \in ActiveLeases : lease'[k].batch \subseteq lease'[k].keys
    BY <1>10, RegisterFields DEF SameRows, RowsAreOwned
  <2>2. closed' = closed /\ leases' = leases
    BY <1>10 DEF Register, managerVars
  <2>3. ~closed => \A r \in Routes : stored'[r] \subseteq stored[r]
    BY <1>10 DEF Register
  <2> QED
    BY <2>1, <2>2, <2>3, RowsKept
<1>11. ASSUME NEW s \in Subscribers, FailSubscribe(s) PROVE RowsAreOwned'
  <2>1. /\ SameLeases
        /\ \A k \in ActiveLeases : lease'[k].batch \subseteq lease'[k].keys
    BY <1>11, Kept DEF FailSubscribe, SameRows, RowsAreOwned
  <2>2. closed' = closed /\ leases' = leases
    BY <1>11 DEF FailSubscribe, managerVars
  <2>3. ~closed => \A r \in Routes : stored'[r] \subseteq stored[r]
    BY <1>11 DEF FailSubscribe
  <2> QED
    BY <2>1, <2>2, <2>3, RowsKept
<1>12. ASSUME NEW s \in Subscribers, EndStream(s) PROVE RowsAreOwned'
  <2>1. /\ SameLeases
        /\ \A k \in ActiveLeases : lease'[k].batch \subseteq lease'[k].keys
    BY <1>12, EndStreamFields DEF SameRows, RowsAreOwned
  <2>2. closed' = closed /\ leases' = leases
    BY <1>12 DEF EndStream, Detach, managerVars
  <2>3. ~closed => \A r \in Routes : stored'[r] \subseteq stored[r]
    BY <1>12 DEF EndStream, Detach
  <2> QED
    BY <2>1, <2>2, <2>3, RowsKept
<1>13. ASSUME NEW s \in Subscribers, CloseInternal(s) PROVE RowsAreOwned'
  <2>1. /\ SameLeases
        /\ \A k \in ActiveLeases : lease'[k].batch \subseteq lease'[k].keys
    BY <1>13, Kept DEF CloseInternal, SameRows, RowsAreOwned
  <2>2. closed' = closed /\ leases' = leases
    BY <1>13 DEF CloseInternal, managerVars
  <2>3. ~closed => \A r \in Routes : stored'[r] \subseteq stored[r]
    BY <1>13 DEF CloseInternal
  <2> QED
    BY <2>1, <2>2, <2>3, RowsKept
<1>14. ASSUME NEW s \in Subscribers, LeaveClosed(s) PROVE RowsAreOwned'
  <2>1. /\ SameLeases
        /\ \A k \in ActiveLeases : lease'[k].batch \subseteq lease'[k].keys
    BY <1>14, LeaveClosedFields DEF SameRows, RowsAreOwned
  <2>2. closed' = closed /\ leases' = leases
    BY <1>14 DEF LeaveClosed, managerVars
  <2>3. ~closed => \A r \in Routes : stored'[r] \subseteq stored[r]
    BY <1>14 DEF LeaveClosed
  <2> QED
    BY <2>1, <2>2, <2>3, RowsKept
<1>15. ASSUME NEW s \in Subscribers, Leave(s) PROVE RowsAreOwned'
  <2>1. /\ SameLeases
        /\ \A k \in ActiveLeases : lease'[k].batch \subseteq lease'[k].keys
    BY <1>15, LeaveFields DEF SameRows, RowsAreOwned
  <2>2. closed' = closed /\ leases' = leases
    BY <1>15 DEF Leave, managerVars
  <2>3. ~closed => \A r \in Routes : stored'[r] \subseteq stored[r]
    BY <1>15 DEF Leave
  <2> QED
    BY <2>1, <2>2, <2>3, RowsKept
<1>16. ASSUME NEW s \in Subscribers, BeginCleanup(s) PROVE RowsAreOwned'
  <2>1. /\ SameLeases
        /\ \A k \in ActiveLeases : lease'[k].batch \subseteq lease'[k].keys
    BY <1>16, BeginCleanupFields DEF SameRows, RowsAreOwned
  <2>2. closed' = closed /\ leases' = leases
    BY <1>16 DEF BeginCleanup, managerVars
  <2>3. ~closed => \A r \in Routes : stored'[r] \subseteq stored[r]
    BY <1>16 DEF BeginCleanup
  <2> QED
    BY <2>1, <2>2, <2>3, RowsKept
<1>17. ASSUME NEW s \in Subscribers, ScopeClosed(s) PROVE RowsAreOwned'
  <2>1. /\ SameLeases
        /\ \A k \in ActiveLeases : lease'[k].batch \subseteq lease'[k].keys
    BY <1>17, ScopeClosedFields DEF SameRows, RowsAreOwned
  <2>2. closed' = closed /\ leases' = leases
    BY <1>17 DEF ScopeClosed, managerVars
  <2>3. ~closed => \A r \in Routes : stored'[r] \subseteq stored[r]
    BY <1>17 DEF ScopeClosed
  <2> QED
    BY <2>1, <2>2, <2>3, RowsKept
<1>18. ASSUME NEW s \in Subscribers, DeleteLeaseRows(s) PROVE RowsAreOwned'
  <2>1. /\ SameLeases
        /\ \A k \in ActiveLeases : lease'[k].batch \subseteq lease'[k].keys
    BY <1>18, Kept DEF DeleteLeaseRows, SameRows, RowsAreOwned
  <2>2. closed' = closed /\ leases' = leases
    BY <1>18 DEF DeleteLeaseRows, managerVars
  <2>3. ~closed => \A r \in Routes : stored'[r] \subseteq stored[r]
    BY <1>18 DEF DeleteLeaseRows, DeleteRows, LeaseTypeOK
  <2> QED
    BY <2>1, <2>2, <2>3, RowsKept
<1>19. ASSUME NEW s \in Subscribers, RemoveLease(s) PROVE RowsAreOwned'
  <2>1. /\ SameLeases
        /\ \A k \in ActiveLeases : lease'[k].batch \subseteq lease'[k].keys
        /\ closed' = closed
    <3>1. SameLeases /\ SameRows
      BY <1>19, Kept DEF RemoveLease
    <3>2. closed' = closed
      BY <1>19 DEF RemoveLease, managerVars
    <3> QED
      BY <3>1, <3>2 DEF SameRows, RowsAreOwned
  <2> SUFFICES ASSUME ~closed PROVE RowsAreOwned'
    BY <2>1 DEF RowsAreOwned, SameLeases
  <2> PICK r, l : r = RouteOf[s] /\ l = leaseOf[s]
    OBVIOUS
  <2>2. /\ r \in Routes /\ stored' = stored /\ pc[s] = "removed"
        /\ \A q \in Routes : leases'[q] = IF q = r THEN None ELSE leases[q]
    BY <1>19, LeaseAssumption DEF RemoveLease, LeaseTypeOK
  <2>3. leases[r] = l /\ l \in ActiveLeases
    BY <2>2, Shares DEF Holding, Cleaning
  <2>4. stored[r] = {} /\ lease'[l].feed = "ended" /\ lease'[l].released
    <3>1. lease' = lease /\ Stage(s)
      BY <1>19 DEF RemoveLease, CleanupStages
    <3> QED
      BY <2>2, <3>1 DEF Stage
  <2>5. ASSUME NEW k \in ActiveLeases, leases'[lease[k].route] # k
        PROVE  lease'[k].feed = "ended" /\ lease'[k].released
    <3>1. lease[k].route \in Routes
      BY LeaseHolds DEF LeaseRecords
    <3>2. k = l \/ leases[lease[k].route] # k
      BY <2>2, <2>3, <2>5, <3>1
    <3> QED
      BY <2>1, <2>4, <3>2 DEF RowsAreOwned, SameLeases, Forward
  <2>6. ASSUME NEW q \in Routes
        PROVE  stored'[q] \subseteq IF leases'[q] = None THEN {} ELSE lease'[leases'[q]].keys
    <3>1. CASE q = r
      BY <2>2, <2>4, <3>1
    <3>2. CASE q # r
      BY <2>1, <2>2, <3>2 DEF RowsAreOwned, MapAgrees, SameLeases, Forward
    <3> QED
      BY <3>1, <3>2
  <2> QED
    BY <2>1, <2>5, <2>6 DEF RowsAreOwned, SameLeases, Forward
<1>20. ASSUME NEW s \in Subscribers, FailCleanup(s) PROVE RowsAreOwned'
  <2>1. /\ SameLeases
        /\ \A k \in ActiveLeases : lease'[k].batch \subseteq lease'[k].keys
    BY <1>20, Kept DEF FailCleanup, SameRows, RowsAreOwned
  <2>2. closed' = closed /\ leases' = leases
    BY <1>20 DEF FailCleanup, managerVars
  <2>3. ~closed => \A r \in Routes : stored'[r] \subseteq stored[r]
    <3>1. RouteOf[s] \in Routes
      BY LeaseAssumption
    <3> QED
      BY <1>20, <3>1, RowsDeleted DEF FailCleanup
  <2> QED
    BY <2>1, <2>2, <2>3, RowsKept
<1>21. ASSUME NEW l \in ActiveLeases, EndPublish(l) PROVE RowsAreOwned'
  <2>1. /\ SameLeases
        /\ \A k \in ActiveLeases : lease'[k].batch \subseteq lease'[k].keys
        /\ \A k \in ActiveLeases : lease'[k].keys = lease[k].keys
    BY <1>21, EndPublishFields DEF RowsAreOwned
  <2>2. /\ closed' = closed /\ leases' = leases /\ lease[l].feed = "publishing"
        /\ stored' = [stored EXCEPT ![lease[l].route] =
                        stored[lease[l].route] \union lease[l].batch]
    BY <1>21 DEF EndPublish, managerVars
  <2>3. ASSUME ~closed, NEW r \in Routes
        PROVE  stored'[r] \subseteq IF leases[r] = None THEN {} ELSE lease[leases[r]].keys
    <3>1. leases[lease[l].route] = l /\ lease[l].route \in Routes
      BY <2>2, <2>3, LeaseHolds DEF RowsAreOwned, LeaseRecords
    <3>2. CASE r = lease[l].route
      <4>1. /\ stored'[r] = stored[r] \union lease[l].batch /\ leases[r] = l
            /\ l # None
        BY <2>2, <3>1, <3>2, NoneIsNoLease DEF LeaseTypeOK
      <4> QED
        BY <2>3, <4>1 DEF RowsAreOwned
    <3>3. CASE r # lease[l].route
      BY <2>2, <2>3, <3>3 DEF RowsAreOwned, LeaseTypeOK
    <3> QED
      BY <3>2, <3>3
  <2>4. \A r \in Routes : leases[r] # None => leases[r] \in ActiveLeases
    BY DEF MapAgrees
  <2> QED
    BY <2>1, <2>2, <2>3, <2>4 DEF RowsAreOwned, SameLeases, Forward
<1>22. ASSUME NEW l \in ActiveLeases, FailPublish(l) PROVE RowsAreOwned'
  <2>1. /\ SameLeases
        /\ \A k \in ActiveLeases : lease'[k].batch \subseteq lease'[k].keys
    BY <1>22, FailPublishFields DEF RowsAreOwned
  <2>2. closed' = closed /\ leases' = leases
    BY <1>22 DEF FailPublish, managerVars
  <2>3. ~closed => \A r \in Routes : stored'[r] \subseteq stored[r]
    BY <1>22 DEF FailPublish
  <2> QED
    BY <2>1, <2>2, <2>3, RowsKept
<1>23. ASSUME NEW l \in ActiveLeases, BeginDegrade(l) PROVE RowsAreOwned'
  <2>1. /\ SameLeases
        /\ \A k \in ActiveLeases : lease'[k].batch \subseteq lease'[k].keys
    BY <1>23, BeginDegradeFields DEF SameRows, RowsAreOwned
  <2>2. closed' = closed /\ leases' = leases
    BY <1>23 DEF BeginDegrade, managerVars
  <2>3. ~closed => \A r \in Routes : stored'[r] \subseteq stored[r]
    BY <1>23 DEF BeginDegrade
  <2> QED
    BY <2>1, <2>2, <2>3, RowsKept
<1>24. ASSUME NEW l \in ActiveLeases, DegradeRows(l) PROVE RowsAreOwned'
  <2>1. /\ SameLeases
        /\ \A k \in ActiveLeases : lease'[k].batch \subseteq lease'[k].keys
    BY <1>24, DegradeRowsFields DEF SameRows, RowsAreOwned
  <2>2. closed' = closed /\ leases' = leases
    BY <1>24 DEF DegradeRows, managerVars
  <2>3. ~closed => \A r \in Routes : stored'[r] \subseteq stored[r]
    <3>1. lease[l].route \in Routes
      BY LeaseHolds DEF LeaseRecords
    <3> QED
      BY <1>24, <3>1, RowsDeleted DEF DegradeRows
  <2> QED
    BY <2>1, <2>2, <2>3, RowsKept
<1>25. ASSUME NEW l \in ActiveLeases, DegradeCloses(l) PROVE RowsAreOwned'
  <2>1. /\ SameLeases
        /\ \A k \in ActiveLeases : lease'[k].batch \subseteq lease'[k].keys
    BY <1>25, DegradeClosesFields DEF SameRows, RowsAreOwned
  <2>2. closed' = closed /\ leases' = leases
    BY <1>25 DEF DegradeCloses, managerVars
  <2>3. ~closed => \A r \in Routes : stored'[r] \subseteq stored[r]
    BY <1>25 DEF DegradeCloses
  <2> QED
    BY <2>1, <2>2, <2>3, RowsKept
<1>26. ASSUME NEW l \in ActiveLeases, DegradeTells(l) PROVE RowsAreOwned'
  <2>1. /\ SameLeases
        /\ \A k \in ActiveLeases : lease'[k].batch \subseteq lease'[k].keys
    BY <1>26, DegradeTellsFields DEF SameRows, RowsAreOwned
  <2>2. closed' = closed /\ leases' = leases
    BY <1>26 DEF DegradeTells, managerVars
  <2>3. ~closed => \A r \in Routes : stored'[r] \subseteq stored[r]
    BY <1>26 DEF DegradeTells
  <2> QED
    BY <2>1, <2>2, <2>3, RowsKept
<1>27. ASSUME NEW l \in ActiveLeases, InterruptFeed(l) PROVE RowsAreOwned'
  <2>1. /\ SameLeases
        /\ \A k \in ActiveLeases : lease'[k].batch \subseteq lease'[k].keys
    BY <1>27, InterruptFeedFields DEF SameRows, RowsAreOwned
  <2>2. closed' = closed /\ leases' = leases
    BY <1>27 DEF InterruptFeed, managerVars
  <2>3. ~closed => \A r \in Routes : stored'[r] \subseteq stored[r]
    BY <1>27 DEF InterruptFeed
  <2> QED
    BY <2>1, <2>2, <2>3, RowsKept
<1>28. ASSUME NEW l \in ActiveLeases, BeginPublish(l) PROVE RowsAreOwned'
  <2>1. /\ SameLeases
        /\ \A k \in ActiveLeases : lease'[k].batch \subseteq lease'[k].keys
    BY <1>28, BeginPublishFields DEF RowsAreOwned
  <2>2. closed' = closed /\ leases' = leases
    BY <1>28 DEF BeginPublish, managerVars
  <2>3. ~closed => \A r \in Routes : stored'[r] \subseteq stored[r]
    BY <1>28 DEF BeginPublish
  <2> QED
    BY <2>1, <2>2, <2>3, RowsKept
<1>29. ASSUME NEW l \in ActiveLeases, FailMapping(l) PROVE RowsAreOwned'
  <2>1. /\ SameLeases
        /\ \A k \in ActiveLeases : lease'[k].batch \subseteq lease'[k].keys
    BY <1>29, FailMappingFields DEF SameRows, RowsAreOwned
  <2>2. closed' = closed /\ leases' = leases
    BY <1>29 DEF FailMapping, managerVars
  <2>3. ~closed => \A r \in Routes : stored'[r] \subseteq stored[r]
    BY <1>29 DEF FailMapping
  <2> QED
    BY <2>1, <2>2, <2>3, RowsKept
<1>30. ASSUME NEW l \in ActiveLeases, UpstreamEnds(l) PROVE RowsAreOwned'
  <2>1. /\ SameLeases
        /\ \A k \in ActiveLeases : lease'[k].batch \subseteq lease'[k].keys
    BY <1>30, UpstreamEndsFields DEF SameRows, RowsAreOwned
  <2>2. closed' = closed /\ leases' = leases
    BY <1>30 DEF UpstreamEnds, managerVars
  <2>3. ~closed => \A r \in Routes : stored'[r] \subseteq stored[r]
    BY <1>30 DEF UpstreamEnds
  <2> QED
    BY <2>1, <2>2, <2>3, RowsKept
<1>31. ASSUME NEW l \in ActiveLeases, UpstreamInterrupted(l) PROVE RowsAreOwned'
  <2>1. /\ SameLeases
        /\ \A k \in ActiveLeases : lease'[k].batch \subseteq lease'[k].keys
    BY <1>31, UpstreamInterruptedFields DEF SameRows, RowsAreOwned
  <2>2. closed' = closed /\ leases' = leases
    BY <1>31 DEF UpstreamInterrupted, managerVars
  <2>3. ~closed => \A r \in Routes : stored'[r] \subseteq stored[r]
    BY <1>31 DEF UpstreamInterrupted
  <2> QED
    BY <2>1, <2>2, <2>3, RowsKept
<1>32. ASSUME NEW l \in ActiveLeases, ManagerClosesScope(l) PROVE RowsAreOwned'
  <2>1. /\ SameLeases
        /\ \A k \in ActiveLeases : lease'[k].batch \subseteq lease'[k].keys
    BY <1>32, ManagerClosesScopeFields DEF SameRows, RowsAreOwned
  <2>2. closed' = closed /\ leases' = leases
    BY <1>32 DEF ManagerClosesScope, managerVars
  <2>3. ~closed => \A r \in Routes : stored'[r] \subseteq stored[r]
    BY <1>32 DEF ManagerClosesScope
  <2> QED
    BY <2>1, <2>2, <2>3, RowsKept
<1>33. ASSUME NEW l \in ActiveLeases, ManagerFinishes(l) PROVE RowsAreOwned'
  <2>1. /\ SameLeases
        /\ \A k \in ActiveLeases : lease'[k].batch \subseteq lease'[k].keys
    BY <1>33, ManagerFinishesFields DEF SameRows, RowsAreOwned
  <2>2. closed' = closed /\ leases' = leases
    BY <1>33 DEF ManagerFinishes
  <2>3. ~closed => \A r \in Routes : stored'[r] \subseteq stored[r]
    BY <1>33, ManagerIsClosed DEF ManagerStep
  <2> QED
    BY <2>1, <2>2, <2>3, RowsKept
<1>34. ASSUME CloseManager PROVE RowsAreOwned'
  <2>1. /\ ActiveLeases' = ActiveLeases
        /\ \A k \in ActiveLeases :
             lease'[k].batch = lease[k].batch /\ lease'[k].keys = lease[k].keys
    BY <1>34, CloseManagerLease, LeaseHolds DEF LeaseRecords
  <2> QED
    BY <1>34, <2>1 DEF RowsAreOwned, CloseManager
<1>35. ASSUME CloseCore PROVE RowsAreOwned'
  <2>1. /\ SameLeases
        /\ \A k \in ActiveLeases : lease'[k].batch \subseteq lease'[k].keys
    BY <1>35, Kept DEF CloseCore, SameRows, RowsAreOwned
  <2>2. closed' = closed /\ leases' = leases
    BY <1>35 DEF CloseCore
  <2>3. ~closed => \A r \in Routes : stored'[r] \subseteq stored[r]
    BY <1>35 DEF CloseCore
  <2> QED
    BY <2>1, <2>2, <2>3, RowsKept
<1>36. ASSUME UNCHANGED vars PROVE RowsAreOwned'
  <2>1. SameLeases /\ \A k \in ActiveLeases : lease'[k].batch \subseteq lease'[k].keys
    BY <1>36, Kept DEF vars, SameRows, RowsAreOwned
  <2> QED
    BY <1>36, <2>1, RowsKept DEF vars, managerVars
<1> QED
  BY <1>1, <1>2, <1>3, <1>4, <1>5, <1>6, <1>7, <1>8, <1>9, <1>10, <1>11, <1>12,
     <1>13, <1>14, <1>15, <1>16, <1>17, <1>18, <1>19, <1>20, <1>21, <1>22, <1>23,
     <1>24, <1>25, <1>26, <1>27, <1>28, <1>29, <1>30, <1>31, <1>32, <1>33, <1>34,
     <1>35, <1>36 DEF Next, SubscriberStep, FeedStep,
     FeedInput, ManagerStep


-------------------------------------------------------------------------------
\* It is so in the beginning, and each part of it is kept given the others.
LEMMA LeaseInit ==
  ASSUME Init
  PROVE  LeaseInv
<1>1. ActiveLeases = {} /\ lease \in Seq(LeaseRecords)
  BY DEF Init, ActiveLeases
<1>2. LeaseTypeOK
  BY <1>1 DEF Init, LeaseTypeOK, SubscriberStates
<1>3. MapAgrees /\ PermitHeld /\ OneCleans /\ RowsAreOwned
  BY <1>1 DEF Init, MapAgrees, PermitHeld, OneCleans, RowsAreOwned, Holding, Cleaning
<1>4. CountsHolders
  BY DEF Init, CountsHolders, Counted
<1>5. CleanupStages
  BY <1>1 DEF Init, CleanupStages, ScopesOpen, Stage, Remembered
<1> QED
  BY <1>2, <1>3, <1>4, <1>5 DEF LeaseInv

\* The inductive invariant holds in every state: the leases, the map, the ledger,
\* the permit and the subscribers' fibers agree, however the calls, the feeds, the
\* upstreams and the manager's close interleave (grpc-lease-manager.ts).
THEOREM LeaseInductive == Spec => []LeaseInv
<1>1. Init => LeaseInv
  BY LeaseInit
<1>2. LeaseInv /\ [Next]_vars => LeaseInv'
  <2> SUFFICES ASSUME LeaseInv, [Next]_vars PROVE LeaseInv'
    OBVIOUS
  <2>1. /\ LeaseTypeOK /\ MapAgrees /\ PermitHeld /\ CountsHolders /\ OneCleans
        /\ CleanupStages /\ RowsAreOwned
    BY DEF LeaseInv
  <2>2. LeaseTypeOK'
    BY <2>1, LeaseTypes
  <2>3. MapAgrees'
    BY <2>1, MapAgreesStep
  <2>4. PermitHeld'
    BY <2>1, PermitStep
  <2>5. CountsHolders'
    BY <2>1, CountsStep
  <2>6. OneCleans'
    BY <2>1, CleansStep
  <2>7. CleanupStages'
    BY <2>1, StagesStep
  <2>8. RowsAreOwned'
    BY <2>1, RowsStep
  <2> QED
    BY <2>2, <2>3, <2>4, <2>5, <2>6, <2>7, <2>8 DEF LeaseInv
<1> QED
  BY <1>1, <1>2, PTL DEF Spec

\* A mapped lease and its ledger entry count exactly the subscribers that hold the
\* lease: joining, failing to start or to subscribe, closing and the last release
\* each take their count back once.
THEOREM HoldersAreCounted == Spec => []CountsMatchHolders
<1>1. LeaseInv => CountsMatchHolders
  BY DEF LeaseInv, CountsHolders, Counted, CountsMatchHolders
<1> QED
  BY <1>1, LeaseInductive, PTL

\* A lease nobody holds has one subscriber cleaning it, or the ledger says that its
\* cleanup failed; one that left the map has ended, released its resources and left
\* no row.
THEOREM LeasesEnd == Spec => []LeasesAreCleaned
<1>1. LeaseInv => LeasesAreCleaned
  <2> SUFFICES ASSUME LeaseInv, ~closed PROVE LeasesAreCleaned
    BY DEF LeasesAreCleaned
  <2>1. /\ LeaseTypeOK /\ MapAgrees /\ PermitHeld /\ CountsHolders /\ OneCleans
        /\ CleanupStages /\ RowsAreOwned
    BY DEF LeaseInv
  <2>2. \A l \in ActiveLeases :
          leases[lease[l].route] # l => lease[l].feed = "ended" /\ lease[l].released
    BY <2>1 DEF RowsAreOwned
  <2>3. ASSUME NEW r \in Routes
        PROVE  /\ stored[r] \subseteq IF leases[r] = None THEN {} ELSE lease[leases[r]].keys
               /\ CleanersOf(r) # {} => leases[r] # None /\ HoldersOf(leases[r]) = {}
               /\ leases[r] # None /\ HoldersOf(leases[r]) = {} =>
                    \/ Cardinality(CleanersOf(r)) = 1
                    \/ CleanersOf(r) = {} /\ ledger[r].status = "degraded"
    <3>1. stored[r] \subseteq IF leases[r] = None THEN {} ELSE lease[leases[r]].keys
      BY <2>1 DEF RowsAreOwned
    <3>2. ASSUME NEW s \in CleanersOf(r)
          PROVE  leases[r] # None /\ HoldersOf(leases[r]) = {} /\ CleanersOf(r) = {s}
      <4>1. s \in Subscribers /\ RouteOf[s] = r /\ pc[s] \in Cleaning
        BY DEF CleanersOf
      <4>2. /\ leases[r] = leaseOf[s] /\ leaseOf[s] # None
            /\ IsFiniteSet(HoldersOf(leaseOf[s]))
            /\ Cardinality(HoldersOf(leaseOf[s])) = 0
        BY <2>1, <4>1, Shares DEF OneCleans
      <4>3. CleanersOf(r) = {s}
        BY <2>1, <4>1 DEF CleanersOf, OneCleans
      <4> QED
        BY <4>2, <4>3, FS_EmptySet
    <3>3. ASSUME leases[r] # None, HoldersOf(leases[r]) = {}
          PROVE  CleanersOf(r) # {} \/ ledger[r].status = "degraded"
      <4>1. lease[leases[r]].subscribers = 0
        BY <2>1, <3>3, FS_EmptySet DEF CountsHolders, Counted
      <4> QED
        BY <2>1, <3>3, <4>1 DEF CleanupStages, Remembered
    <3>4. CleanersOf(r) # {} => Cardinality(CleanersOf(r)) = 1
      BY <3>2, FS_Singleton
    <3> QED
      BY <3>1, <3>2, <3>3, <3>4
  <2> QED
    BY <2>2, <2>3 DEF LeasesAreCleaned, CleanersOf, Cleaning
<1> QED
  BY <1>1, LeaseInductive, PTL
===============================================================================
