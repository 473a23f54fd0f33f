------------------------------ MODULE MCBackup ------------------------------
(***************************************************************************)
(* Instance of Backup for TLC: two tenants, of which one has a browser.    *)
(***************************************************************************)
EXTENDS Backup, TLC

CONSTANTS n1, n2

NameSymmetry == Permutations({n1, n2})

=============================================================================
