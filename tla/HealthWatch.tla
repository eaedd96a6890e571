------------------------------ MODULE HealthWatch ------------------------------
(***************************************************************************)
(* Subscriptions to the cached health of RuntimeHealth.  A watcher listens  *)
(* to the health atom, reads the health once, and then moves every value   *)
(* from the slot that keeps the newest one to the bounded queue its        *)
(* consumer reads.                                                         *)
(***************************************************************************)
EXTENDS RuntimeHealth, Sequences

CONSTANTS
  QueueSize,  \* capacity of the queue, 64
  NoValue,    \* an empty slot
  Status      \* the terminal status of a watcher that fell behind

ASSUME WatchAssumption == QueueSize \in Nat /\ NoValue \notin Nat /\ Status \notin Nat

VARIABLES
  place,      \* where a watcher's own fibers are
  listening,  \* subscribed to the health atom
  claimed,    \* subscriptionClosed
  registered, \* activeHealthSubscriptions
  allClosed,  \* healthSubscriptionsClosed
  slot,       \* updates, the newest value not yet taken
  hand,       \* the value being offered
  queue,      \* the events the consumer has not taken
  ended,      \* the queue is ended
  taken       \* history: the last event the consumer took

watchVars == <<place, listening, claimed, registered, allClosed, slot, hand, queue, ended, taken>>

Move(w, p) == place' = [place EXCEPT ![w] = p]

WatchInit ==
  /\ place = [w \in Watchers |-> "none"]
  /\ listening = {}
  /\ claimed = {}
  /\ registered = {}
  /\ allClosed = FALSE
  /\ slot = [w \in Watchers |-> NoValue]
  /\ hand = [w \in Watchers |-> NoValue]
  /\ queue = [w \in Watchers |-> <<>>]
  /\ ended = {}
  /\ taken = [w \in Watchers |-> NoValue]

\* The read whose result a fiber is given.
Leader(f) == IF follows[f] = None THEN f ELSE follows[f]

FirstReadReturns(w) == place[w] = "refreshing" /\ pc[w] # "idle" /\ pc'[w] = "idle"

\* What a step of RuntimeHealth means for the watchers: a new value goes to the
\* slots, and a watcher's first read returns.  An equal value is not announced.
Watched ==
  /\ slot' = [w \in Watchers |->
                IF w \in listening /\ health' # health THEN health' ELSE slot[w]]
  /\ hand' = [w \in Watchers |->
                IF FirstReadReturns(w) THEN read[Leader(w)].value ELSE hand[w]]
  /\ UNCHANGED <<place, listening, claimed, registered, allClosed, queue, ended, taken>>

\* MUTANT of Listen: the first read comes before listening.
ListenLate(w) ==
  /\ place[w] = "none"
  /\ Move(w, "registering")
  /\ UNCHANGED <<healthVars, listening, claimed, registered, allClosed, slot, hand, queue, ended, taken>>

Listen(w) ==
  /\ place[w] = "none"
  /\ listening' = listening \union {w}
  /\ Move(w, "registering")
  /\ UNCHANGED <<healthVars, claimed, registered, allClosed, slot, hand, queue, ended, taken>>

\* finishClosed: ends the queue and the slot, and interrupts the fiber between them.
Finish(ws) ==
  /\ ended' = ended \union ws
  /\ slot' = [w \in Watchers |-> IF w \in ws THEN NoValue ELSE slot[w]]
  /\ hand' = [w \in Watchers |-> IF w \in ws THEN NoValue ELSE hand[w]]
  /\ place' = [w \in Watchers |-> IF w \in ws THEN "closed" ELSE place[w]]

\* Registration, then the first read; after the client was closed neither.
Register(w) ==
  /\ place[w] = "registering"
  /\ IF allClosed
     THEN /\ claimed' = claimed \union {w}
          /\ listening' = listening \ {w}
          /\ Finish({w})
          /\ UNCHANGED <<healthVars, registered>>
     ELSE /\ registered' = registered \union {w}
          /\ RefreshNow(w)
          /\ Move(w, "refreshing")
          /\ UNCHANGED <<listening, claimed, slot, hand, ended>>
  /\ UNCHANGED <<allClosed, queue, taken>>

\* The fiber that forwards values takes the newest.
TakeUpdate(w) ==
  /\ place[w] = "live"
  /\ hand[w] = NoValue
  /\ slot[w] # NoValue
  /\ hand' = [hand EXCEPT ![w] = slot[w]]
  /\ slot' = [slot EXCEPT ![w] = NoValue]
  /\ UNCHANGED <<healthVars, place, listening, claimed, registered, allClosed, queue, ended, taken>>

\* A value is offered, the first one by the subscribing fiber; a full queue makes
\* the watcher claim its own end.
OfferSnapshot(w) ==
  /\ place[w] \in {"refreshing", "live"}
  /\ hand[w] # NoValue
  /\ w \notin claimed
  /\ hand' = [hand EXCEPT ![w] = NoValue]
  /\ IF Len(queue[w]) < QueueSize
     THEN /\ queue' = [queue EXCEPT ![w] = Append(@, hand[w])]
          /\ Move(w, "live")
          /\ UNCHANGED <<listening, claimed, registered>>
     ELSE /\ claimed' = claimed \union {w}
          /\ listening' = listening \ {w}
          /\ registered' = registered \ {w}
          /\ Move(w, "overflowing")
          /\ UNCHANGED queue
  /\ UNCHANGED <<healthVars, allClosed, slot, ended, taken>>

\* The events not taken give way to the status.
FinishOverflow(w) ==
  /\ place[w] = "overflowing"
  /\ queue' = [queue EXCEPT ![w] = <<Status>>]
  /\ Finish({w})
  /\ UNCHANGED <<healthVars, listening, claimed, registered, allClosed, taken>>

\* The consumer closes the subscription, or has read it to its end.
CloseWatch(w) ==
  /\ place[w] = "live"
  /\ w \notin claimed
  /\ claimed' = claimed \union {w}
  /\ listening' = listening \ {w}
  /\ registered' = registered \ {w}
  /\ Finish({w})
  /\ UNCHANGED <<healthVars, allClosed, queue, taken>>

\* The client closes: all that are registered and not claimed are claimed and end.
CloseWatches ==
  /\ ~allClosed
  /\ allClosed' = TRUE
  /\ claimed' = claimed \union registered
  /\ listening' = listening \ registered
  /\ registered' = {}
  /\ Finish(registered)
  /\ UNCHANGED <<healthVars, queue, taken>>

TakeEvent(w) ==
  /\ queue[w] # <<>>
  /\ taken' = [taken EXCEPT ![w] = Head(queue[w])]
  /\ queue' = [queue EXCEPT ![w] = Tail(@)]
  /\ UNCHANGED <<healthVars, place, listening, claimed, registered, allClosed, slot, hand, ended>>

WatcherStep(w) ==
  Listen(w) \/ Register(w) \/ TakeUpdate(w) \/ OfferSnapshot(w) \/ FinishOverflow(w)

WatchNext ==
  \/ HealthNext /\ Watched
  \/ \E w \in Watchers : WatcherStep(w) \/ CloseWatch(w) \/ TakeEvent(w)
  \/ CloseWatches

WatchSpec ==
  HealthInit /\ WatchInit /\ [][WatchNext]_<<healthVars, watchVars>>
-------------------------------------------------------------------------------
(* Properties. *)

\* The newest value on its way to the consumer of w.
Newest(w) ==
  IF slot[w] # NoValue THEN slot[w]
  ELSE IF hand[w] # NoValue THEN hand[w]
  ELSE IF queue[w] # <<>> THEN queue[w][Len(queue[w])]
  ELSE taken[w]

Events(w) ==
  (IF taken[w] = NoValue THEN <<>> ELSE <<taken[w]>>) \o queue[w]
    \o (IF hand[w] = NoValue THEN <<>> ELSE <<hand[w]>>)
    \o (IF slot[w] = NoValue THEN <<>> ELSE <<slot[w]>>)

\* A watcher that has its first value and is not closed has the cached health
\* on its way, or has shown it: nothing installed between listening, the first
\* read and the forwarding is missed (makeHealthSubscription, live-client.ts:371).
WatcherHasNewest ==
  \A w \in Watchers : place[w] = "live" /\ w \notin claimed => Newest(w) = health

\* What is on the way to the consumer of an open subscription never goes back.
WatcherInOrder ==
  \A w \in Watchers : place[w] \in {"refreshing", "live"} /\ w \notin claimed =>
    \A i, j \in DOMAIN Events(w) : i < j => Events(w)[i] <= Events(w)[j]

\* A watcher that fell behind is told so, and it is the last it hears.
OverflowIsTold ==
  \A w \in Watchers : \A i \in DOMAIN queue[w] :
    queue[w][i] = Status => i = Len(queue[w]) /\ w \in ended /\ w \in claimed

\* Open subscriptions are exactly those registered, and only they listen.
ClaimedIsReleased ==
  \A w \in Watchers :
    /\ w \in claimed => w \notin registered \union listening
    /\ allClosed => w \notin registered
    /\ place[w] = "closed" <=> w \in ended

WatchersAreCurrent == WatcherHasNewest /\ WatcherInOrder /\ OverflowIsTold /\ ClaimedIsReleased
===============================================================================
