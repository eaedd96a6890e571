---------------------------- MODULE MaterializedFeed ----------------------------
(***************************************************************************)
(* The materialized gRPC feeds of one client.  Every feed is run by a fiber *)
(* that acquires a stream, publishes what it brings, releases it and then   *)
(* reconnects or gives up; closing the ingress interrupts the fibers.       *)
(*                                                                         *)
(* A refresh of the health never suspends: a fiber that has waited for its  *)
(* delay or for a release goes on to its next wait in one step.             *)
(***************************************************************************)
EXTENDS Naturals, SequencesExt

CONSTANTS
  Feeds,         \* the feeds, in the order in which they are started
  MaxReconnects  \* options.materializedReconnect.maxReconnects

ASSUME FeedAssumption == MaxReconnects \in Nat

FeedNames == ToSet(Feeds)

VARIABLES
  run,       \* what the fiber of a feed does
  exit,      \* how the last run, or the use of its stream, ended
  flags,     \* currentRunPublishedBatch, currentRunStayedOpen
  unstable,  \* unstableExits
  feed,      \* the status of a feed in the health ledger
  ingress,   \* "starting", "open", "failed" or "closing"
  proved,    \* history: this run published a batch or stayed open
  retries    \* history: the reconnects since a failed run had proved itself

feedVars == <<run, exit, flags, unstable, feed, ingress, proved, retries>>

NoFlags == [published |-> FALSE, stayedOpen |-> FALSE]

FeedInit ==
  /\ run = [f \in FeedNames |-> "unstarted"]
  /\ exit = [f \in FeedNames |-> "none"]
  /\ flags = [f \in FeedNames |-> NoFlags]
  /\ unstable = [f \in FeedNames |-> 0]
  /\ feed = [f \in FeedNames |-> "starting"]
  /\ ingress = "starting"
  /\ proved = [f \in FeedNames |-> FALSE]
  /\ retries = [f \in FeedNames |-> 0]

Closing == ingress = "closing"

\* The scope of the fibers is closed: each is interrupted where it can be.
Interrupted == ingress \in {"failed", "closing"}
-------------------------------------------------------------------------------
(* What the ledger says of statuses of feeds: a client is as its feeds are. *)

ClientStatus(statuses) ==
  IF "degraded" \in statuses THEN "degraded"
  ELSE IF statuses \intersect {"starting", "stopping"} # {} THEN "starting"
  ELSE "connected"

GrpcStatus(statuses) ==
  IF ClientStatus(statuses) = "degraded" THEN "degraded"
  ELSE IF ClientStatus(statuses) = "starting" THEN "starting"
  ELSE "ready"

Reported == GrpcStatus({feed[f] : f \in FeedNames})
-------------------------------------------------------------------------------
(* What follows a run that ended as how says. *)

\* canReconnectMaterializedFeedCause
Restartable(how) == how \in {"acquire", "stream"}

UnstableExits(f, how) ==
  IF how # "completed" /\ (flags'[f].published \/ flags'[f].stayedOpen) THEN 0
  ELSE unstable[f]

CanReconnect(f, how) ==
  (how = "completed" \/ Restartable(how)) /\ UnstableExits(f, how) < MaxReconnects

Reconnect(f, how) ==
  /\ CanReconnect(f, how)
  /\ unstable' = [unstable EXCEPT ![f] = UnstableExits(f, how) + 1]
  /\ retries' = [retries EXCEPT ![f] = IF how # "completed" /\ proved'[f] THEN 1 ELSE @ + 1]
  /\ feed' = [feed EXCEPT ![f] = "starting"]
  /\ run' = [run EXCEPT ![f] = "sleeping"]

\* handleMaterializedFeedExit
GiveUp(f, how) ==
  /\ ~CanReconnect(f, how)
  /\ unstable' = [unstable EXCEPT ![f] = UnstableExits(f, how)]
  /\ feed' = [feed EXCEPT ![f] = IF how = "interrupts" THEN "stopping" ELSE "degraded"]
  /\ run' = [run EXCEPT ![f] = "done"]
  /\ UNCHANGED retries

Settle(f, how) == exit' = [exit EXCEPT ![f] = how] /\ (Reconnect(f, how) \/ GiveUp(f, how))
-------------------------------------------------------------------------------
(* A run of a feed. *)

\* MUTANT of FreshRun: what an earlier run achieved still counts.
FreshRunKeeping(f) == UNCHANGED flags

FreshRun(f) == flags' = [flags EXCEPT ![f] = NoFlags]

\* The loop's head: acquire throws, or there is a stream and the feed is ready.
Acquire(f) ==
  /\ FreshRun(f)
  /\ proved' = [proved EXCEPT ![f] = FALSE]
  /\ \/ Settle(f, "acquire")
     \/ /\ run' = [run EXCEPT ![f] = "running"]
        /\ feed' = [feed EXCEPT ![f] = "ready"]
        /\ UNCHANGED <<exit, unstable, retries>>

\* The feeds are started in order, and each begins to run at once.
StartFeed(i) ==
  /\ ingress = "starting"
  /\ run[Feeds[i]] = "unstarted"
  /\ \A j \in 1..(i - 1) : run[Feeds[j]] # "unstarted"
  /\ ingress' = IF i = Len(Feeds) THEN "open" ELSE ingress
  /\ Acquire(Feeds[i])

\* A client, a URL or a request is missing: the feeds started are interrupted.
FailStart ==
  /\ ingress = "starting"
  /\ ingress' = "failed"
  /\ UNCHANGED <<run, exit, flags, unstable, feed, proved, retries>>

\* The timer forked in the scope of the run.
StayOpen(f) ==
  /\ run[f] = "running" /\ ~Interrupted
  /\ flags' = [flags EXCEPT ![f].stayedOpen = TRUE]
  /\ proved' = [proved EXCEPT ![f] = TRUE]
  /\ UNCHANGED <<run, exit, unstable, feed, ingress, retries>>

PublishBatch(f) ==
  /\ run[f] = "running" /\ ~Interrupted
  /\ flags' = [flags EXCEPT ![f].published = TRUE]
  /\ proved' = [proved EXCEPT ![f] = TRUE]
  /\ UNCHANGED <<run, exit, unstable, feed, ingress, retries>>

\* The stream completes, fails, has a defect or is interrupted, or a row cannot be
\* mapped or published, which the ledger says at once.
EndUse(f) ==
  /\ run[f] = "running"
  /\ \E how \in IF Interrupted THEN {"interrupts"}
                ELSE {"completed", "stream", "publish", "defect", "interrupts"} :
       /\ exit' = [exit EXCEPT ![f] = how]
       /\ feed' = [feed EXCEPT ![f] = IF how = "publish" THEN "degraded" ELSE @]
  /\ run' = [run EXCEPT ![f] = "releasing"]
  /\ UNCHANGED <<flags, unstable, ingress, proved, retries>>

\* A failed release is the run's failure, unless the use had been interrupted.
Release(f) ==
  /\ run[f] = "releasing" /\ ~Interrupted
  /\ UNCHANGED <<flags, ingress, proved>>
  /\ \/ Settle(f, exit[f])
     \/ exit[f] # "interrupts" /\ Settle(f, "release")

Retry(f) ==
  /\ run[f] = "sleeping" /\ ~Interrupted
  /\ Acquire(f)
  /\ UNCHANGED ingress

\* An interrupted fiber ends where it sleeps, or once its stream has been released:
\* neither its exit nor that of the release is looked at.
EndInterrupted(f) ==
  /\ Interrupted
  /\ run[f] \in {"releasing", "sleeping"}
  /\ run' = [run EXCEPT ![f] = "done"]
  /\ UNCHANGED <<exit, flags, unstable, feed, ingress, proved, retries>>

CloseFeeds ==
  /\ ingress = "open"
  /\ ingress' = "closing"
  /\ feed' = [f \in FeedNames |-> "stopping"]
  /\ UNCHANGED <<run, exit, flags, unstable, proved, retries>>

FeedNext ==
  \/ FailStart \/ CloseFeeds
  \/ \E i \in DOMAIN Feeds : StartFeed(i)
  \/ \E f \in FeedNames :
       \/ StayOpen(f) \/ PublishBatch(f) \/ EndUse(f) \/ Release(f)
       \/ Retry(f) \/ EndInterrupted(f)

FeedSpec == FeedInit /\ [][FeedNext]_feedVars
-------------------------------------------------------------------------------
\* A feed whose runs prove nothing is retried up to its budget and no more; a feed is
\* given up for an end it could be retried after only when the budget is spent; the
\* client is ready only while every feed holds its stream, and a feed given up keeps it
\* from being so (grpc-ingress.ts runFeed, grpc-health.ts refreshClientFromFeeds).
BudgetIsRespected ==
  \A f \in FeedNames :
    /\ retries[f] <= MaxReconnects
    /\ run[f] = "done" /\ ~Interrupted =>
         /\ exit[f] = "completed" \/ Restartable(exit[f]) => retries[f] = MaxReconnects
         /\ Reported # "ready"
    /\ Reported = "ready" /\ ingress # "failed" => run[f] \in {"running", "releasing"}
===============================================================================
