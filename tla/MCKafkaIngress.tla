---------------------------- MODULE MCKafkaIngress ----------------------------
(* Constants for the model checking runs of KafkaIngress. *)
EXTENDS KafkaIngress

CONSTANTS p1, p2, p3, ta, tb

\* Three partitions of two topics, one with a message that cannot be decoded.
MCLog == p1 :> <<"ok", "ok">> @@ p2 :> <<"ok", "bad">> @@ p3 :> <<"ok">>
MCTopicOf == p1 :> ta @@ p2 :> tb @@ p3 :> ta
===============================================================================
