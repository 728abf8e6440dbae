------------------------------ MODULE MCStateDir ------------------------------
(* An instance of StateDir for TLC. *)
EXTENDS StateDir, TLC
Symmetry == Permutations(Relays) \cup Permutations(Adders)
=============================================================================
