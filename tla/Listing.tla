-------------------------------- MODULE Listing --------------------------------
(***************************************************************************)
(* Lists of what is in a set, and of what is at some indices of a sequence: *)
(* what the loops, filters and sorts of the engine make.                    *)
(***************************************************************************)
EXTENDS Naturals, Sequences, FiniteSets

\* The elements of a set in the order `before`, a set of pairs: at index i the one that
\* i - 1 others are before.
Ordered(some, before) ==
  LET earlier(x) == {y \in some : <<y, x>> \in before}
  IN  [i \in 1..Cardinality(some) |-> CHOOSE x \in some : Cardinality(earlier(x)) = i - 1]

\* Some numbers in their order, and the elements of s at some indices in theirs.
InOrder(some) ==
  CHOOSE l \in [1..Cardinality(some) -> some] : \A i, j \in DOMAIN l : i < j => l[i] < l[j]
Picked(s, some) == LET at == InOrder(some) IN [n \in DOMAIN at |-> s[at[n]]]
===============================================================================
