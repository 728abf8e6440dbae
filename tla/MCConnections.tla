---------------------------- MODULE MCConnections ----------------------------
(***************************************************************************)
(* Instances of Connections for TLC.                                       *)
(***************************************************************************)
EXTENDS Connections, TLC

Symmetry == Permutations(Conns) \cup Permutations(Pids)

=============================================================================
