-------------------------- MODULE MCGroupedExecution --------------------------
(***************************************************************************)
(* A small instance of GroupedExecution for TLC.                           *)
(***************************************************************************)
EXTENDS GroupedExecution

CONSTANTS k1, k2, k3

MCKeys == {k1, k2, k3}
Symmetry == Permutations(MCKeys)

\* No limit, as a limit.
MCNoLimit == -1

\* Rows 1 and 2 are in group 1, row 3 is in group 2, row 4 is not selected; rows 2
\* and 3 have one value.
MCRows     == 1..4
MCMatching == 1..3
MCGroupOf  == <<1, 1, 2, 2>>
MCValueOf  == <<1, 2, 2, 1>>

\* Nothing but the number of groups, the first group by its total, two groups by
\* their size, and every group from the second by its minimum.
MCPlans ==
  {[orderBy |-> "key", offset |-> 0, limit |-> 0],
   [orderBy |-> "total", offset |-> 0, limit |-> 1],
   [orderBy |-> "count", offset |-> 0, limit |-> 2],
   [orderBy |-> "least", offset |-> 1, limit |-> MCNoLimit]}
===============================================================================
