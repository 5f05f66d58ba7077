-------------------------- MODULE MCByokConnections -------------------------
(***************************************************************************)
(* Instances of ByokConnections for TLC.                                   *)
(***************************************************************************)
EXTENDS ByokConnections, TLC

MCSymmetry == Permutations(Connection) \cup Permutations(Key) \cup Permutations(Client)
=============================================================================
