--------------------------- MODULE MCOrganization ---------------------------
(***************************************************************************)
(* Instance of Organization for TLC.                                       *)
(***************************************************************************)
EXTENDS Organization, TLC

\* Three spellings of two names.
MCFold(name) == IF name = "VIP" THEN "vip" ELSE name

Symmetry == Permutations(Device)

\* Bound: a behaviour is of the pages or of what is kept beside them.  The two share
\* no variable but the count of writes, and no property relates them.
Apart ==
  /\ docs' # docs =>
       share.version = 0 /\ tagged = {} /\ \A i \in Tag : tag[i] = None
  /\ shares' # shares \/ labels' # labels =>
       \A d \in Device : shown[d] = -1

=============================================================================
