------------------------------ MODULE KafkaHealth ------------------------------
(***************************************************************************)
(* The health ledger of the Kafka ingress.  In every region a stream fiber  *)
(* records the messages it commits and the failure that ends it, while a    *)
(* listener fiber records what the consumer says about its group and lag.   *)
(*                                                                         *)
(* A source is a topic read in a region.  It has an error of its own, from  *)
(* its last message, and one of its region.  The listener's events do not   *)
(* depend on the ledger, so the queue it takes them from is left out: an    *)
(* event is recorded at any time while the listeners are open.             *)
(***************************************************************************)
EXTENDS FiniteSets

CONSTANTS
  Sources  \* records of a topic and a region

ASSUME SourcesAssumption ==
  \A s, x \in Sources : s.topic = x.topic /\ s.region = x.region => s = x

Regions == {s.region : s \in Sources}
SourceTopics == {s.topic : s \in Sources}

VARIABLES
  ledger,  \* the health ledger
  stream,  \* what the stream fiber of a region does
  blame,   \* the topics of a region's failed messages: preserveLastErrorForSourceTopic
  unseen   \* history: the topics whose errors a region must still show

kafkaHealthVars == <<ledger, stream, blame, unseen>>

NewSource == [connected |-> FALSE, lastError |-> FALSE, regionLastError |-> FALSE]

KafkaHealthInit ==
  /\ ledger = [region |-> [r \in Regions |-> "starting"],
               source |-> [s \in Sources |-> NewSource],
               topic  |-> [t \in SourceTopics |-> "starting"]]
  /\ stream = [r \in Regions |-> "starting"]
  /\ blame = [r \in Regions |-> {}]
  /\ unseen = [r \in Regions |-> {}]
-------------------------------------------------------------------------------
(* The ledger. *)

In(r) == {s \in Sources : s.region = r}

TopicStatus(l, t) ==
  LET regions == {l.source[s] : s \in {x \in Sources : x.topic = t}}
  IN  IF \E s \in regions : s.lastError \/ s.regionLastError THEN "degraded"
      ELSE IF \A s \in regions : s.connected THEN "ready"
      ELSE "starting"

\* The sources S become what updated says, and their topics are refreshed.
UpdateSources(l, S, updated) ==
  LET next == [l EXCEPT !.source = [s \in Sources |-> IF s \in S THEN updated[s] ELSE @[s]]]
  IN  [next EXCEPT !.topic = [t \in SourceTopics |->
         IF t \in {s.topic : s \in S} THEN TopicStatus(next, t) ELSE @[t]]]

RegionConnected(l, r) == [l EXCEPT !.region[r] = "connected"]

TopicsConnected(l, r) ==
  UpdateSources(l, In(r), [s \in In(r) |->
    [l.source[s] EXCEPT !.connected = TRUE, !.regionLastError = FALSE]])

RegionDisconnected(l, r, preserveTopicErrors) ==
  UpdateSources([l EXCEPT !.region[r] = "disconnected"], In(r), [s \in In(r) |->
    [connected       |-> FALSE,
     lastError       |-> preserveTopicErrors /\ l.source[s].lastError,
     regionLastError |-> TRUE]])

RegionDegraded(l, r) ==
  UpdateSources([l EXCEPT !.region[r] = "degraded"], In(r), [s \in In(r) |->
    [l.source[s] EXCEPT !.regionLastError = TRUE]])

RegionRecovered(l, r) ==
  IF l.region[r] = "disconnected" THEN l
  ELSE UpdateSources(RegionConnected(l, r), In(r), [s \in In(r) |->
         [l.source[s] EXCEPT !.regionLastError = FALSE]])

\* A committed message clears the error of its source, unless that is to be kept.
MessageDecoded(l, s, preserveLastError) ==
  UpdateSources(l, {s}, [x \in {s} |->
    [l.source[x] EXCEPT !.lastError = preserveLastError /\ @]])

\* decodeFailed, mappingFailed, messagePublishFailed, messageCommitFailed
MessagesFailed(l, S) ==
  UpdateSources(l, S, [s \in S |-> [l.source[s] EXCEPT !.lastError = TRUE]])

\* What the ledger says of the whole runtime, laid over what the engine says.
KafkaStatus(l) ==
  LET regions == {l.region[r] : r \in Regions}
      topics  == {l.topic[t] : t \in SourceTopics}
  IN  IF regions \intersect {"disconnected", "degraded"} # {} \/ "degraded" \in topics
      THEN "degraded"
      ELSE IF "starting" \in regions \union topics THEN "starting" ELSE "ready"

HealthOverlay(status, l) ==
  IF status \in {"stopping", "degraded"} THEN status
  ELSE IF KafkaStatus(l) = "degraded" THEN "degraded"
  ELSE IF "starting" \in {status, KafkaStatus(l)} THEN "starting"
  ELSE "ready"
-------------------------------------------------------------------------------
(* The listener fiber of a region. *)

Listening(r) == stream[r] \in {"running", "flushing"}

Listener(r) == Listening(r) /\ UNCHANGED <<stream, blame>>

GroupJoin(r) ==
  /\ Listener(r)
  /\ ledger' = TopicsConnected(RegionConnected(ledger, r), r)
  /\ UNCHANGED unseen

Lag(r) ==
  /\ Listener(r)
  /\ ledger' = RegionRecovered(ledger, r)
  /\ UNCHANGED unseen

LagError(r) ==
  /\ Listener(r)
  /\ ledger' = RegionDegraded(ledger, r)
  /\ UNCHANGED unseen

\* Leaving the group forgets what was wrong with the topics.
GroupLeave(r) ==
  /\ Listener(r)
  /\ ledger' = RegionDisconnected(ledger, r, FALSE)
  /\ unseen' = [unseen EXCEPT ![r] = {}]

GroupRebalance(r) ==
  /\ Listener(r)
  /\ ledger' = RegionDisconnected(ledger, r, TRUE)
  /\ UNCHANGED unseen
-------------------------------------------------------------------------------
(* The stream fiber of a region. *)

StartRegion(r) ==
  /\ stream[r] = "starting"
  /\ stream' = [stream EXCEPT ![r] = "running"]
  /\ ledger' = TopicsConnected(RegionConnected(ledger, r), r)
  /\ UNCHANGED <<blame, unseen>>

\* MUTANT of Commit: what is flushed for a failed message clears its error.
CommitClearing(s) ==
  /\ stream[s.region] \in {"running", "flushing"}
  /\ ledger' = MessageDecoded(ledger, s, FALSE)
  /\ unseen' = IF stream[s.region] = "running"
               THEN [unseen EXCEPT ![s.region] = @ \ {s.topic}] ELSE unseen
  /\ UNCHANGED <<stream, blame>>

\* Messages before a failed one are flushed; they do not clear its topic's error.
Commit(s) ==
  /\ stream[s.region] \in {"running", "flushing"}
  /\ ledger' = MessageDecoded(ledger, s, s.topic \in blame[s.region])
  /\ unseen' = IF s.topic \in blame[s.region] THEN unseen
               ELSE [unseen EXCEPT ![s.region] = @ \ {s.topic}]
  /\ UNCHANGED <<stream, blame>>

\* A message cannot be decoded or mapped; those before it are flushed next.
FailMessage(s) ==
  /\ stream[s.region] = "running"
  /\ ledger' = MessagesFailed(ledger, {s})
  /\ stream' = [stream EXCEPT ![s.region] = "flushing"]
  /\ blame' = [blame EXCEPT ![s.region] = {s.topic}]
  /\ unseen' = [unseen EXCEPT ![s.region] = @ \union {s.topic}]

\* The failure is recorded for the region and the listeners are closed.
Fail(l, r, preserveTopicErrors) ==
  /\ ledger' = RegionDisconnected(l, r, preserveTopicErrors)
  /\ stream' = [stream EXCEPT ![r] = "failed"]
  /\ UNCHANGED blame

FinishFlush(r) ==
  /\ stream[r] = "flushing"
  /\ Fail(ledger, r, TRUE)
  /\ UNCHANGED unseen

\* The messages of one view server topic are not published, or one not committed.
FailBatch(r, S) ==
  /\ stream[r] \in {"running", "flushing"}
  /\ Fail(MessagesFailed(ledger, S), r, TRUE)
  /\ unseen' = [unseen EXCEPT ![r] = @ \union {s.topic : s \in S}]

\* The consumer's stream fails, or the fiber has a defect: then errors are not kept.
FailStream(r, preserveTopicErrors) ==
  /\ stream[r] = "running"
  /\ Fail(ledger, r, preserveTopicErrors)
  /\ unseen' = IF preserveTopicErrors THEN unseen ELSE [unseen EXCEPT ![r] = {}]

\* The stream ends, or the ingress is closed: the ledger is left as it is.
StopRegion(r) ==
  /\ stream[r] \in {"running", "flushing"}
  /\ stream' = [stream EXCEPT ![r] = "stopped"]
  /\ UNCHANGED <<ledger, blame, unseen>>

KafkaHealthNext ==
  \/ \E r \in Regions :
       \/ StartRegion(r) \/ FinishFlush(r) \/ StopRegion(r)
       \/ GroupJoin(r) \/ Lag(r) \/ LagError(r) \/ GroupLeave(r) \/ GroupRebalance(r)
       \/ \E keep \in BOOLEAN : FailStream(r, keep)
       \/ \E S \in SUBSET In(r) \ {{}} : FailBatch(r, S)
  \/ \E s \in Sources : Commit(s) \/ FailMessage(s)

KafkaHealthSpec == KafkaHealthInit /\ [][KafkaHealthNext]_kafkaHealthVars
-------------------------------------------------------------------------------
\* A region whose stream failed stays disconnected, all its topics and the runtime
\* degraded, whatever the consumer and other regions said meanwhile; and the topic
\* of a message that failed keeps its own error although messages before it were
\* committed after it (kafka-ingress.ts processKafkaMessageBatch, kafka-health.ts
\* messageDecoded).
FailureStaysVisible ==
  \A r \in Regions :
    /\ stream[r] = "failed" =>
         /\ ledger.region[r] = "disconnected"
         /\ \A s \in In(r) : ledger.topic[s.topic] = "degraded"
         /\ \A status \in {"starting", "ready"} : HealthOverlay(status, ledger) = "degraded"
    /\ \A s \in In(r) : s.topic \in unseen[r] => ledger.source[s].lastError
===============================================================================
