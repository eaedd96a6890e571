--------------------------- MODULE MCRetainedWindow ---------------------------
(***************************************************************************)
(* Small instances of RetainedWindow for TLC.  A behaviour has a profile:   *)
(* either the windows are looked at closely, or the journal is.             *)
(***************************************************************************)
EXTENDS RetainedWindow

VARIABLE profile

\* No limit, as a limit.
MCNoLimit == -1

\* Two limited windows: the second needs a larger base window than the first.
MCLimited == {[offset |-> 0, limit |-> 1], [offset |-> 1, limit |-> 1]}

\* A window that shows nothing but the total, and one that shows everything.
MCExtreme == {[offset |-> 0, limit |-> 0], [offset |-> 0, limit |-> MCNoLimit]}

MCWindows == MCLimited \union MCExtreme

Within(keys, stored, leased, maxVersion, load, batch) ==
  /\ \A k \in Keys : rows'[k] \in (IF k \in keys THEN stored \union {NoRow} ELSE {NoRow})
  /\ \A w \in Windows \ leased : windows'[w] = 0
  /\ version' < maxVersion \/ writing' = 0
  /\ writing' <= (IF version = 0 THEN load ELSE batch) \/ writing = 0

\* Rows 1 and 2 match.  Limited windows over three keys, changed row by row after a
\* load of three, and no other query; or two keys, of which the journal sees mutations
\* larger than itself, rows that stop to match, and another query.
ProfileNext ==
  /\ Next
  /\ UNCHANGED profile
  /\ IF profile = "windows"
     THEN Within(Keys, {1, 2}, MCLimited, 4, 3, 1) /\ journal'.refs <= 1
     ELSE Within({1, 2}, {2, 3}, MCExtreme, 3, 4, 4)

ProfileInit == Init /\ profile \in {"windows", "journal"}

ProfileSpec == ProfileInit /\ [][ProfileNext]_<<vars, profile>>
===============================================================================
