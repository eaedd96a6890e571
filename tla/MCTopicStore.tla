----------------------------- MODULE MCTopicStore -----------------------------
(* Constants for the model checking runs of TopicStore. *)
EXTENDS TopicStore, TLC

CONSTANTS m1, m2, s1, s2, a1, qa

\* Two row sets, which the query tells apart.
MCContents == {"empty", "u"}
MCResults == MCContents
MCView == [q \in Queries |-> [c \in MCContents |-> c]]

SharedQuery == [s \in Subscribers |-> qa]

\* Fibers of a kind are interchangeable when all subscriptions share a query.
Symmetry == Permutations(Mutators) \union Permutations(Subscribers)
===============================================================================
