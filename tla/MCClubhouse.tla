----------------------------- MODULE MCClubhouse -----------------------------
(***************************************************************************)
(* Instances of Clubhouse for TLC.                                         *)
(***************************************************************************)
EXTENDS Clubhouse, TLC

Symmetry == Permutations(Channels)

=============================================================================
