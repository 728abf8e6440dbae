------------------------------ MODULE TaskGrant ------------------------------
(***************************************************************************)
(* What the task ledger promises, without wakes, leases or clocks: work    *)
(* the operator granted is taken by at most one session, and its outcome   *)
(* is that session's word, given before the session retired.  WakeStore    *)
(* implements it.                                                          *)
(***************************************************************************)
CONSTANTS Tasks, Sessions, None

VARIABLES
    grant,    \* per task: its state and the session that took it
    retired   \* sessions that may act no more

Init ==
    /\ grant = [t \in Tasks |-> [state |-> "none", holder |-> None]]
    /\ retired = {}

Grant(t) ==
    /\ grant[t].state = "none"
    /\ grant' = [grant EXCEPT ![t] = [state |-> "open", holder |-> None]]
    /\ UNCHANGED retired

Take(t, s) ==
    /\ grant[t].state = "open"
    /\ s \notin retired
    /\ grant' = [grant EXCEPT ![t] = [state |-> "claimed", holder |-> s]]
    /\ UNCHANGED retired

Finish(t, outcome) ==
    /\ grant[t].state = "claimed"
    /\ grant[t].holder \notin retired
    /\ grant' = [grant EXCEPT ![t].state = outcome]
    /\ UNCHANGED retired

Withdraw(t) ==
    /\ grant[t].state \in {"open", "claimed"}
    /\ grant' = [grant EXCEPT ![t].state = "cancelled"]
    /\ UNCHANGED retired

Retire(s) ==
    /\ retired' = retired \cup {s}
    /\ UNCHANGED grant

Next ==
    \/ \E t \in Tasks :
           \/ Grant(t)
           \/ \E s \in Sessions : Take(t, s)
           \/ \E outcome \in {"completed", "failed"} : Finish(t, outcome)
           \/ Withdraw(t)
    \/ \E s \in Sessions : Retire(s)

Spec == Init /\ [][Next]_<<grant, retired>>
=============================================================================
