---------------------------- MODULE KafkaIngress -----------------------------
(***************************************************************************)
(* The Kafka ingress of one region: a producer fiber moves messages from   *)
(* the consumer's stream into a bounded queue; the ingress fiber takes     *)
(* them in batches, decodes them, publishes their rows topic by topic and  *)
(* then commits their offsets one by one.  The process may crash between   *)
(* any two steps and be started again.                                     *)
(*                                                                         *)
(* A message is its partition and offset; offsets count from 1, and the    *)
(* committed offset of a partition is the number of messages before it.    *)
(* The consumer subscribes to the configured topics only, so no message is *)
(* of another topic or region.                                             *)
(***************************************************************************)
EXTENDS Naturals, FiniteSets, SequencesExt

CONSTANTS
  Partitions,     \* partitions of the source topics
  Topics,         \* view server topics
  TopicOf,        \* [Partitions -> Topics]
  Log,            \* [Partitions -> Seq({"ok", "bad"})]: can it be decoded
  BatchSize,      \* kafkaMessageBatchSize
  QueueCapacity,  \* kafkaMessageQueueCapacity
  MaxRestarts     \* bound on restarts of the process

ASSUME KafkaAssumption ==
  /\ IsFiniteSet(Partitions)
  /\ TopicOf \in [Partitions -> Topics]
  /\ Log \in [Partitions -> Seq({"ok", "bad"})]
  /\ BatchSize \in Nat \ {0}
  /\ QueueCapacity \in Nat \ {0}
  /\ MaxRestarts \in Nat

VARIABLES
  phase,      \* what the ingress fiber does
  startFrom,  \* the configured policy of a restart
  start,      \* where this process started to read each partition
  fetched,    \* how far the consumer's stream was read
  source,     \* the stream: open, or how it ended
  events,     \* messages and the terminal event between the two fibers
  batch,      \* messages taken
  terminal,   \* the terminal event that ended the batch
  unpublished,\* positions in the batch whose rows are yet to be published
  uncommitted,\* positions in the batch whose offsets are yet to be committed
  cause,      \* why the stream fails once what is left has been flushed
  published,  \* offsets whose rows this process published
  acked,      \* offsets this process committed
  committed,  \* the group's committed offset, at the broker
  restarts    \* restarts so far (bound)

streamVars == <<start, fetched, source, events>>
batchVars  == <<batch, terminal, unpublished, uncommitted, cause>>
vars == <<phase, startFrom, streamVars, batchVars, published, acked, committed,
          restarts>>

Offsets == [p \in Partitions |-> 1..Len(Log[p])]
Message == [partition : Partitions, offset : UNION {Offsets[p] : p \in Partitions}]
Terminals == {"end", "failed"}

\* What the two fibers exchange.
MessageEvent(m) == [tag |-> "message", message |-> m]
TerminalEvent(how) == [tag |-> how]
Live == {"taking", "decoding", "publishing", "committing"}

Nothing == [p \in Partitions |-> {}]
Beginning == [p \in Partitions |-> 0]

Init ==
  /\ phase = "taking"
  /\ startFrom \in {"committed", "earliest"}
  /\ start = Beginning
  /\ fetched = Beginning
  /\ source = "open"
  /\ events = <<>>
  /\ batch = <<>>
  /\ terminal = "none"
  /\ unpublished = {}
  /\ uncommitted = {}
  /\ cause = "none"
  /\ published = Nothing
  /\ acked = Nothing
  /\ committed = Beginning
  /\ restarts = 0
-------------------------------------------------------------------------------
(* The producer fiber.  A full queue makes it wait. *)

Producing == phase \in Live /\ source = "open" /\ Len(events) < QueueCapacity

Fetch(p) ==
  /\ Producing
  /\ fetched[p] < Len(Log[p])
  /\ fetched' = [fetched EXCEPT ![p] = @ + 1]
  /\ events' = Append(events, MessageEvent([partition |-> p, offset |-> fetched[p] + 1]))
  /\ UNCHANGED <<phase, startFrom, start, source, batchVars, published, acked,
                 committed, restarts>>

\* The consumer's stream ends or fails.
EndSource(how) ==
  /\ Producing
  /\ source' = how
  /\ events' = Append(events, TerminalEvent(how))
  /\ UNCHANGED <<phase, startFrom, start, fetched, batchVars, published, acked,
                 committed, restarts>>
-------------------------------------------------------------------------------
(* Taking a batch. *)

TakeMessage ==
  /\ phase = "taking"
  /\ events # <<>>
  /\ Head(events).tag = "message"
  /\ batch' = Append(batch, Head(events).message)
  /\ events' = Tail(events)
  /\ phase' = IF Len(batch) + 1 = BatchSize THEN "decoding" ELSE phase
  /\ UNCHANGED <<startFrom, start, fetched, source, terminal, unpublished, uncommitted,
                 cause, published, acked, committed, restarts>>

\* A terminal event ends the batch, which is processed first if it has messages.
TakeTerminal ==
  /\ phase = "taking"
  /\ events # <<>>
  /\ Head(events).tag \in Terminals
  /\ terminal' = Head(events).tag
  /\ events' = Tail(events)
  /\ phase' = IF batch # <<>> THEN "decoding"
              ELSE IF Head(events).tag = "end" THEN "ended" ELSE "failed"
  /\ cause' = IF batch = <<>> /\ Head(events).tag = "failed" THEN "stream" ELSE cause
  /\ UNCHANGED <<startFrom, start, fetched, source, batch, unpublished, uncommitted,
                 published, acked, committed, restarts>>

\* MUTANT of FlushDeadline: a message that arrives as the timeout fires is lost.
FlushLosing ==
  /\ phase = "taking"
  /\ batch # <<>>
  /\ phase' = "decoding"
  /\ events' = IF events # <<>> /\ Head(events).tag = "message" THEN Tail(events) ELSE events
  /\ UNCHANGED <<startFrom, start, fetched, source, batchVars, published, acked,
                 committed, restarts>>

\* MUTANT of FlushDeadline: a batch is flushed when the next message comes.
FlushOnMessage ==
  /\ phase = "taking"
  /\ batch # <<>>
  /\ events # <<>>
  /\ phase' = "decoding"
  /\ UNCHANGED <<startFrom, streamVars, batchVars, published, acked, committed,
                 restarts>>

\* The first message's flush interval has passed; a take that is cancelled by
\* the timeout takes nothing.
FlushDeadline ==
  /\ phase = "taking"
  /\ batch # <<>>
  /\ phase' = "decoding"
  /\ UNCHANGED <<startFrom, streamVars, batchVars, published, acked, committed,
                 restarts>>
-------------------------------------------------------------------------------
(* Processing a batch. *)

Bad(m) == Log[m.partition][m.offset] = "bad"
Broken == \E i \in 1..Len(batch) : Bad(batch[i])

\* The messages before the first that cannot be decoded or mapped.
Decodable == {i \in 1..Len(batch) : \A j \in 1..i : ~Bad(batch[j])}

\* MUTANT of Decode: the messages before one that fails are not flushed.
DecodeAllOrNothing ==
  /\ phase = "decoding"
  /\ unpublished' = IF Broken THEN {} ELSE 1..Len(batch)
  /\ uncommitted' = unpublished'
  /\ cause' = IF Broken THEN "decode" ELSE "none"
  /\ phase' = "publishing"
  /\ UNCHANGED <<startFrom, streamVars, batch, terminal, published, acked, committed,
                 restarts>>

\* When a message fails, those decoded before it are published and committed.
Decode ==
  /\ phase = "decoding"
  /\ unpublished' = Decodable
  /\ uncommitted' = Decodable
  /\ cause' = IF Broken THEN "decode" ELSE "none"
  /\ phase' = "publishing"
  /\ UNCHANGED <<startFrom, streamVars, batch, terminal, published, acked, committed,
                 restarts>>

TopicOfMessage(m) == TopicOf[m.partition]
First(positions) == CHOOSE i \in positions : \A j \in positions : i <= j
OffsetsAt(positions, p) ==
  {batch[i].offset : i \in {j \in positions : batch[j].partition = p}}

\* Topics are published in the order of their first messages.
PublishTopic ==
  /\ phase = "publishing"
  /\ unpublished # {}
  /\ LET topic == TopicOfMessage(batch[First(unpublished)])
         group == {i \in unpublished : TopicOfMessage(batch[i]) = topic}
     IN /\ published' = [p \in Partitions |-> published[p] \union OffsetsAt(group, p)]
        /\ unpublished' = unpublished \ group
  /\ UNCHANGED <<phase, startFrom, streamVars, batch, terminal, uncommitted, cause,
                 acked, committed, restarts>>

\* MUTANT of FailPublish: the topics already published are committed.
FailPublishCommitting ==
  /\ phase = "publishing"
  /\ unpublished # {}
  /\ cause' = "publish"
  /\ unpublished' = {}
  /\ UNCHANGED <<phase, startFrom, streamVars, batch, terminal, uncommitted, published,
                 acked, committed, restarts>>

\* Nothing of the batch is committed, not even the topics already published.
FailPublish ==
  /\ phase = "publishing"
  /\ unpublished # {}
  /\ cause' = "publish"
  /\ phase' = "failed"
  /\ UNCHANGED <<startFrom, streamVars, batch, terminal, unpublished, uncommitted,
                 published, acked, committed, restarts>>

AllPublished ==
  /\ phase = "publishing"
  /\ unpublished = {}
  /\ phase' = "committing"
  /\ UNCHANGED <<startFrom, streamVars, batchVars, published, acked, committed, restarts>>

\* A commit is not interrupted; it sets the offset even if that moves it back.
CommitNext ==
  /\ phase = "committing"
  /\ uncommitted # {}
  /\ LET m == batch[First(uncommitted)]
     IN /\ committed' = [committed EXCEPT ![m.partition] = m.offset]
        /\ acked' = [acked EXCEPT ![m.partition] = @ \union {m.offset}]
  /\ uncommitted' = uncommitted \ {First(uncommitted)}
  /\ UNCHANGED <<phase, startFrom, streamVars, batch, terminal, unpublished, cause,
                 published, restarts>>

FailCommit ==
  /\ phase = "committing"
  /\ uncommitted # {}
  /\ cause' = "commit"
  /\ phase' = "failed"
  /\ UNCHANGED <<startFrom, streamVars, batch, terminal, unpublished, uncommitted,
                 published, acked, committed, restarts>>

\* The failed message, or else the terminal event, surfaces after the flush.
EndBatch ==
  /\ phase = "committing"
  /\ uncommitted = {}
  /\ phase' = IF cause = "decode" \/ terminal = "failed" THEN "failed"
              ELSE IF terminal = "end" THEN "ended" ELSE "taking"
  /\ cause' = IF cause = "none" /\ terminal = "failed" THEN "stream" ELSE cause
  /\ batch' = IF phase' = "taking" THEN <<>> ELSE batch
  /\ UNCHANGED <<startFrom, streamVars, terminal, unpublished, uncommitted, published,
                 acked, committed, restarts>>
-------------------------------------------------------------------------------
(* The process. *)

\* The process crashes, or the ingress is closed: its fibers are interrupted.
Stop ==
  /\ phase # "stopped"
  /\ phase' = "stopped"
  /\ UNCHANGED <<startFrom, streamVars, batchVars, published, acked, committed, restarts>>

\* Rows and messages in memory are lost.
Restart ==
  /\ phase = "stopped"
  /\ restarts < MaxRestarts
  /\ restarts' = restarts + 1
  /\ start' = IF startFrom = "earliest" THEN Beginning ELSE committed
  /\ fetched' = start'
  /\ source' = "open"
  /\ events' = <<>>
  /\ batch' = <<>>
  /\ terminal' = "none"
  /\ unpublished' = {}
  /\ uncommitted' = {}
  /\ cause' = "none"
  /\ published' = Nothing
  /\ acked' = Nothing
  /\ phase' = "taking"
  /\ UNCHANGED <<startFrom, committed>>
-------------------------------------------------------------------------------
IngressStep ==
  \/ TakeMessage \/ TakeTerminal \/ FlushDeadline \/ Decode \/ PublishTopic
  \/ FailPublish \/ AllPublished \/ CommitNext \/ FailCommit \/ EndBatch

Next ==
  \/ \E p \in Partitions : Fetch(p)
  \/ \E how \in Terminals : EndSource(how)
  \/ IngressStep
  \/ Stop
  \/ Restart

Spec == Init /\ [][Next]_vars

\* The ingress fiber runs whenever it can; the stream and the process need not.
FairSpec == Spec /\ WF_vars(IngressStep)
-------------------------------------------------------------------------------
\* Up to where every record since the start has been published.
Applied(p) ==
  CHOOSE a \in start[p]..Len(Log[p]) :
    /\ \A k \in (start[p] + 1)..a : k \in published[p]
    /\ a < Len(Log[p]) => a + 1 \notin published[p]

Ingested == INSTANCE IngestedLog WITH applied <- [p \in Partitions |-> Applied(p)]

\* The ingress implements the promise of IngestedLog: it applies rows in log
\* order and commits an offset only after everything before it, although
\* batches mix partitions and topics, publish topic by topic, fail half way,
\* and the process crashes and resumes.
AtLeastOnce == Ingested!LogSpec

\* When a message cannot be decoded, what was taken before it is published and
\* committed before the stream fails; when the stream itself fails, everything
\* it delivered is.
FlushedBeforeFailure ==
  phase = "failed" /\ cause \in {"decode", "stream"} =>
    \A p \in Partitions :
      LET unflushed == {o \in (start[p] + 1)..fetched[p] : o \notin acked[p]}
          queued == {o \in Offsets[p] : MessageEvent([partition |-> p, offset |-> o])
                                          \in Range(events)}
          unread == OffsetsAt((1..Len(batch)) \ Decodable, p)
      IN unflushed \subseteq IF cause = "decode" THEN queued \union unread ELSE {}

\* A fetched message is committed, or the stream ends for a reason: no batch
\* waits forever for messages that do not come.
FetchedIsSettled ==
  \A p \in Partitions : \A o \in Offsets[p] :
    (phase \in Live /\ o \in (start[p] + 1)..fetched[p])
      ~> (o \in acked[p] \/ phase \notin Live)
===============================================================================
