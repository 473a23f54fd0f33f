------------------------------ MODULE MCAccess ------------------------------
(***************************************************************************)
(* Instance of Access for TLC.  Ids and requests are interchangeable.      *)
(***************************************************************************)
EXTENDS Access, TLC

Symmetry == Permutations(Code) \cup Permutations(Session)
              \cup Permutations(Challenge) \cup Permutations(Request)

=============================================================================
