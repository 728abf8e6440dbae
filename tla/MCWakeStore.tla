----------------------------- MODULE MCWakeStore -----------------------------
(* Small instances of WakeStore for TLC. *)
EXTENDS WakeStore, TLC

\* every session declares both capabilities, or some only acknowledge
AllCapable == {[wakeAck |-> TRUE, claim |-> TRUE]}
SomeOnlyAck == AllCapable \cup {[wakeAck |-> TRUE, claim |-> FALSE]}

Symmetry ==
    Permutations(Sessions) \cup Permutations(Seats) \cup Permutations(Tasks)
=============================================================================
