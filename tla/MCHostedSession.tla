-------------------------- MODULE MCHostedSession --------------------------
(***************************************************************************)
(* Instance of HostedSession for TLC.  Sessions are interchangeable, so    *)
(* the safety runs use symmetry; the liveness runs do not.                 *)
(***************************************************************************)
EXTENDS HostedSession, FiniteSets, TLC

SessionSymmetry == Permutations(Session)

\* Bound: whoever has logged in for the last time does not disconnect any more, and the
\* credential of that login does not expire.
StopsBeforeRelogin ==
  /\ account'.state = "disconnected" => account.state = "disconnected" \/ logins < MaxLogins
  /\ expired' # expired => MaxLogins \notin expired'

\* Bound: at most one refused listener at a time is on its way out.
OneRefused == Cardinality({s \in Session : pc[s] \in {"mark", "drop", "stop"}}) <= 1

=============================================================================
