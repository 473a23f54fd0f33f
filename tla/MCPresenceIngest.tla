-------------------------- MODULE MCPresenceIngest --------------------------
(***************************************************************************)
(* Instance of PresenceIngest for TLC.  Friends are interchangeable.       *)
(***************************************************************************)
EXTENDS PresenceIngest, TLC

FriendSymmetry == Permutations(Friend)

=============================================================================
