--------------------------- MODULE MCWakeDelivery ---------------------------
(* Small instances of WakeDelivery for TLC. *)
EXTENDS WakeDelivery, TLC

CONSTANTS a, s1

Both == {[wakeAck |-> TRUE, claim |-> TRUE]}

\* one connection after the other watches for the session or for the seat
OneSeat == [x \in Watches |-> a]
EitherWay == [x \in Watches |-> {s1, None}]
=============================================================================
