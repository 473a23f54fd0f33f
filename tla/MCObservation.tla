--------------------------- MODULE MCObservation ---------------------------
(***************************************************************************)
(* An instance of Observation for TLC: two polls 1 apart are linked under  *)
(* either cadence, 4 apart just so under the shorter one, 5, 6 and 7 apart *)
(* under the longer one, 9 apart just so, and 10 apart never.  A query     *)
(* looks back one deadline of the longer cadence.                          *)
(***************************************************************************)
EXTENDS Observation, TLC

CONSTANTS me, friend, home, hidden, away

ReportValue ==
  {[status |-> "active", place |-> home], [status |-> "active", place |-> hidden],
   [status |-> "offline", place |-> away]}

FirstValue == {r \in ReportValue : r.place = home}

OutcomeValue ==
  {[cadence |-> 1, success |-> TRUE], [cadence |-> 4, success |-> TRUE],
   [cadence |-> 4, success |-> FALSE]}

\* A range that begins on a poll and ends between two, cut into hours of which the
\* last is cut off, and one that looks back to the third instant only.
QueryValue == {Window(1, 11), Window(15, 17)}

=============================================================================
