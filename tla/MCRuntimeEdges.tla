----------------------------- MODULE MCRuntimeEdges -----------------------------
(***************************************************************************)
(* The edges of the runtime, checked side by side: the cached health with   *)
(* readers and its scheduler, the health with a subscription in the place   *)
(* of the readers, the TCP ingress, the Kafka ingress's health, the         *)
(* materialized gRPC feeds, the remote client's subscriptions, the server's *)
(* shared health read, and the start and close of a runtime.  A behaviour   *)
(* is about one of them.                                                   *)
(***************************************************************************)
EXTENDS HealthWatch, TcpPublishIngress, KafkaHealth, MaterializedFeed,
        RemoteSubscription, SharedHealthRead, RuntimeAssembly

VARIABLE part

otherVars == <<kafkaHealthVars, feedVars, remoteVars, sharedReadVars, assemblyVars, part>>

vars == <<healthVars, watchVars, tcpVars, otherVars>>

Init ==
  /\ HealthInit /\ WatchInit /\ TcpInit
  /\ KafkaHealthInit /\ FeedInit /\ RemoteInit /\ SharedReadInit /\ AssemblyInit
  /\ part \in {"health", "watch", "tcp", "kafka", "feeds", "remote", "read", "assembly"}
  /\ part = "assembly" \/ \A p \in Parts : partState[p] = "waiting"

\* One mutation is enough where two readers interleave.
HealthPart ==
  /\ part = "health"
  /\ HealthNext
  /\ commits' <= 1
  /\ UNCHANGED <<watchVars, tcpVars, otherVars>>

WatchPart ==
  /\ part = "watch"
  /\ WatchNext
  /\ \A r \in Readers : pc'[r] = "idle"
  /\ UNCHANGED <<tcpVars, otherVars>>

TcpPart == part = "tcp" /\ TcpNext /\ UNCHANGED <<healthVars, watchVars, otherVars>>

first == <<healthVars, watchVars, tcpVars, part>>

KafkaPart ==
  /\ part = "kafka" /\ KafkaHealthNext
  /\ UNCHANGED <<first, feedVars, remoteVars, sharedReadVars, assemblyVars>>

FeedsPart ==
  /\ part = "feeds" /\ FeedNext
  /\ UNCHANGED <<first, kafkaHealthVars, remoteVars, sharedReadVars, assemblyVars>>

RemotePart ==
  /\ part = "remote" /\ RemoteNext
  /\ UNCHANGED <<first, kafkaHealthVars, feedVars, sharedReadVars, assemblyVars>>

ReadPart ==
  /\ part = "read" /\ SharedReadNext
  /\ UNCHANGED <<first, kafkaHealthVars, feedVars, remoteVars, assemblyVars>>

AssemblyPart ==
  /\ part = "assembly" /\ AssemblyNext
  /\ UNCHANGED <<first, kafkaHealthVars, feedVars, remoteVars, sharedReadVars>>

Next ==
  \/ HealthPart \/ WatchPart \/ TcpPart \/ KafkaPart
  \/ FeedsPart \/ RemotePart \/ ReadPart \/ AssemblyPart

Spec == Init /\ [][Next]_vars /\ HealthFairness

\* A topic read in two regions, and another in one of them.
KafkaSources ==
  {[topic |-> "orders", region |-> "usa"], [topic |-> "orders", region |-> "london"],
   [topic |-> "trades", region |-> "usa"]}

MaterializedFeeds == <<"orders", "trades">>
===============================================================================
