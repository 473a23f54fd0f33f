-------------------------- MODULE MCOffsiteBackup --------------------------
(***************************************************************************)
(* Instance of OffsiteBackup for TLC: the database changes between the     *)
(* first time and the second, and not between the second and the third.    *)
(***************************************************************************)
EXTENDS OffsiteBackup, TLC

MCContent(a) == a \div 2

\* Bound: one request at a time is late.
OneLate == Cardinality(late) <= 1

=============================================================================
