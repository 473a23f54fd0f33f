--------------------------- MODULE MCWorldResolver ---------------------------
(***************************************************************************)
(* Instance of WorldResolver for TLC.  Worlds, tenants, askers and         *)
(* drainers are interchangeable; the safety runs use that.                 *)
(***************************************************************************)
EXTENDS WorldResolver, TLC

Symmetry == Permutations(World) \cup Permutations(Tenant)
              \cup Permutations(Asker) \cup Permutations(Drainer)

=============================================================================
