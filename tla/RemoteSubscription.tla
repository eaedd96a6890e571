--------------------------- MODULE RemoteSubscription ---------------------------
(***************************************************************************)
(* Live subscriptions of the remote client.  A producer fiber moves the     *)
(* events of the RPC stream into a dropping queue which the user reads.     *)
(* The user may close a subscription, stop reading, or close the client.    *)
(*                                                                         *)
(* The n-th event of a source is n.  The lifecycle's callbacks only count,  *)
(* so making a subscription, offering an event and closing are steps, but   *)
(* an interrupted producer may take time to let go of its source.          *)
(***************************************************************************)
EXTENDS Naturals, Sequences, SequencesExt, FiniteSets

CONSTANTS
  Subscriptions,
  BufferSize,  \* subscriptionBufferSize
  MaxEvents,   \* bound: the events a source brings
  Failure,     \* the event made by failureStatus
  Overflow     \* the event made by overflowStatus

ASSUME RemoteAssumption ==
  /\ IsFiniteSet(Subscriptions)
  /\ BufferSize \in Nat /\ MaxEvents \in Nat
  /\ Failure \notin Nat /\ Overflow \notin Nat

VARIABLES
  producer,   \* "none", "running", "stopping" while interrupted, or "done"
  sent,       \* how many events the source has brought
  buffer,      \* the dropping queue
  queueEnd,   \* "open", "ended" or "defect": what follows the events of the queue
  lifecycle,  \* "none", "opened", "closed", or "late" if opened after it was closed
  scope,      \* "none", "open" or "closed"
  seen,      \* what the user has read
  reader,     \* "reading", or why no longer: "ended", "defect", "closed", "stopped"
  client,     \* "open" or "closed": clientScope
  active      \* transport.activeSubscriptions of the remote health

remoteVars ==
  <<producer, sent, buffer, queueEnd, lifecycle, scope, seen, reader, client, active>>

RemoteInit ==
  /\ producer = [s \in Subscriptions |-> "none"]
  /\ sent = [s \in Subscriptions |-> 0]
  /\ buffer = [s \in Subscriptions |-> <<>>]
  /\ queueEnd = [s \in Subscriptions |-> "open"]
  /\ lifecycle = [s \in Subscriptions |-> "none"]
  /\ scope = [s \in Subscriptions |-> "none"]
  /\ seen = [s \in Subscriptions |-> <<>>]
  /\ reader = [s \in Subscriptions |-> "reading"]
  /\ client = "open"
  /\ active = 0

\* updateSubscriptionCount(topic, -1), n times
CountDown(count, n) == IF n > count THEN 0 ELSE count - n
-------------------------------------------------------------------------------
(* Opening and closing. *)

\* A scope forked from a closed one is closed: its finalizer runs when it is added,
\* before onOpen, and the producer is interrupted as it is forked.
Subscribe(s) ==
  /\ scope[s] = "none"
  /\ IF client = "open"
     THEN /\ scope' = [scope EXCEPT ![s] = "open"]
          /\ lifecycle' = [lifecycle EXCEPT ![s] = "opened"]
          /\ producer' = [producer EXCEPT ![s] = "running"]
          /\ active' = active + 1
     ELSE /\ scope' = [scope EXCEPT ![s] = "closed"]
          /\ lifecycle' = [lifecycle EXCEPT ![s] = "late"]
          /\ producer' = [producer EXCEPT ![s] = "stopping"]
          /\ active' = CountDown(active, 1) + 1
  /\ UNCHANGED <<sent, buffer, queueEnd, seen, reader, client>>

\* closeLifecycle of the subscriptions S: only the first one of each runs onClose.
CloseLifecycle(S) ==
  LET first == {s \in S : lifecycle[s] = "opened"}
  IN  /\ lifecycle' = [s \in Subscriptions |-> IF s \in first THEN "closed" ELSE lifecycle[s]]
      /\ active' = CountDown(active, Cardinality(first))

\* Scope.close of the subscriptions S: a producer that runs is interrupted.
CloseScopes(S) ==
  /\ scope' = [s \in Subscriptions |-> IF s \in S THEN "closed" ELSE scope[s]]
  /\ producer' = [s \in Subscriptions |->
       IF s \in S /\ producer[s] = "running" THEN "stopping" ELSE producer[s]]
  /\ CloseLifecycle({s \in S : scope[s] = "open"})

CloseSubscription(s) ==
  /\ scope[s] = "open"
  /\ CloseScopes({s})
  /\ UNCHANGED <<sent, buffer, queueEnd, seen, reader, client>>

CloseClient ==
  /\ client = "open"
  /\ client' = "closed"
  /\ CloseScopes({s \in Subscriptions : scope[s] = "open"})
  /\ UNCHANGED <<sent, buffer, queueEnd, seen, reader>>
-------------------------------------------------------------------------------
(* The producer. *)

\* MUTANT of OfferEvent: an event the queue has no room for is dropped.
OfferEventDropping(s, event, then) ==
  /\ producer' = [producer EXCEPT ![s] = then]
  /\ buffer' = IF Len(buffer[s]) < BufferSize THEN [buffer EXCEPT ![s] = Append(@, event)] ELSE buffer
  /\ queueEnd' = [queueEnd EXCEPT ![s] = IF then = "done" THEN "ended" ELSE @]
  /\ UNCHANGED <<lifecycle, active>>

\* A queue without room is emptied for the overflow's status and ended, and the
\* producer interrupts itself; otherwise it goes on, or ends the queue.
OfferEvent(s, event, then) ==
  IF Len(buffer[s]) < BufferSize
  THEN /\ buffer' = [buffer EXCEPT ![s] = Append(@, event)]
       /\ queueEnd' = [queueEnd EXCEPT ![s] = IF then = "done" THEN "ended" ELSE @]
       /\ producer' = [producer EXCEPT ![s] = then]
       /\ UNCHANGED <<lifecycle, active>>
  ELSE /\ CloseLifecycle({s})
       /\ buffer' = [buffer EXCEPT ![s] = <<Overflow>>]
       /\ queueEnd' = [queueEnd EXCEPT ![s] = "ended"]
       /\ producer' = [producer EXCEPT ![s] = "stopping"]

SourceBrings(s) ==
  /\ producer[s] = "running"
  /\ sent[s] < MaxEvents
  /\ sent' = [sent EXCEPT ![s] = @ + 1]
  /\ OfferEvent(s, sent[s] + 1, "running")
  /\ UNCHANGED <<scope, seen, reader, client>>

\* A failed source ends with a status.
SourceFails(s) ==
  /\ producer[s] = "running"
  /\ OfferEvent(s, Failure, "done")
  /\ UNCHANGED <<sent, scope, seen, reader, client>>

\* completeQueueFromProducerExit; a queue that has ended stays as it is.
EndQueue(s, how) ==
  /\ queueEnd' = [queueEnd EXCEPT ![s] = IF @ = "open" THEN how ELSE @]
  /\ producer' = [producer EXCEPT ![s] = "done"]
  /\ UNCHANGED <<sent, buffer, lifecycle, scope, seen, reader, client, active>>

SourceEnds(s)   == producer[s] = "running" /\ EndQueue(s, "ended")
SourceDies(s)   == producer[s] = "running" /\ EndQueue(s, "defect")
ProducerStops(s) == producer[s] = "stopping" /\ \E how \in {"ended", "defect"} : EndQueue(s, how)
-------------------------------------------------------------------------------
(* The user's stream: however it ends, it closes the subscription. *)

Take(s) ==
  /\ scope[s] # "none" /\ reader[s] = "reading"
  /\ buffer[s] # <<>>
  /\ seen' = [seen EXCEPT ![s] = Append(@, Head(buffer[s]))]
  /\ buffer' = [buffer EXCEPT ![s] = Tail(@)]
  /\ UNCHANGED <<producer, sent, queueEnd, lifecycle, scope, reader, client, active>>

EndReading(s, why) ==
  /\ reader' = [reader EXCEPT ![s] = IF scope[s] = "closed" THEN "closed" ELSE why]
  /\ CloseScopes({s})
  /\ UNCHANGED <<sent, buffer, queueEnd, seen, client>>

TakeEnd(s) ==
  /\ reader[s] = "reading"
  /\ buffer[s] = <<>> /\ queueEnd[s] # "open"
  /\ EndReading(s, queueEnd[s])

StopReading(s) ==
  /\ scope[s] # "none" /\ reader[s] = "reading"
  /\ EndReading(s, "stopped")

RemoteNext ==
  \/ CloseClient
  \/ \E s \in Subscriptions :
       \/ Subscribe(s) \/ CloseSubscription(s)
       \/ SourceBrings(s) \/ SourceFails(s) \/ SourceEnds(s) \/ SourceDies(s)
       \/ ProducerStops(s)
       \/ Take(s) \/ TakeEnd(s) \/ StopReading(s)

RemoteSpec == RemoteInit /\ [][RemoteNext]_remoteVars
-------------------------------------------------------------------------------
\* The user reads the source's events in order and without a gap, and nothing after a
\* status.  A stream that ends by itself, neither closed nor with a defect, has brought
\* all of them or ended with a status; and the health counts the subscriptions that
\* are open, each once, if none is made with a closed client (remote-subscription.ts
\* offerRemoteEvent, makeRemoteSubscription).
ReadersAreTold ==
  /\ \A s \in Subscriptions :
       LET told == IF seen[s] # <<>> /\ Last(seen[s]) \in {Failure, Overflow}
                   THEN Front(seen[s]) ELSE seen[s]
       IN  /\ told = [i \in 1..Len(told) |-> i]
           /\ reader[s] = "ended" /\ told = seen[s] => Len(told) = sent[s]
  /\ (\A s \in Subscriptions : lifecycle[s] # "late") =>
       active = Cardinality({s \in Subscriptions : lifecycle[s] = "opened"})
===============================================================================
