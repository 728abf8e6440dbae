--------------------------- MODULE WakeStoreProofs ---------------------------
(***************************************************************************)
(* Theorems about WakeStore, for every value of its constants.             *)
(***************************************************************************)
EXTENDS WakeStore, TLAPS

(***************************************************************************)
(* Type correctness.                                                       *)
(***************************************************************************)

\* the part of TypeOK about wire_wakes
WakesOK ==
    /\ wakes \in [Wakes -> WakeRow]
    /\ \A w \in Wakes : wakes[w].state # "none" => wakes[w].task \in Tasks

\* UPDATE wire_wakes SET state = ... keeps the table well typed.
LEMMA SetWakesType ==
    ASSUME TypeOK, NEW W, NEW state \in WakeStates, SetWakes(W, state),
           \A w \in W : wakes[w].state # "none"
    PROVE  WakesOK'
<1>1. \A w \in Wakes : wakes[w] \in WakeRow
    BY DEF TypeOK
<1>2. \A w \in Wakes : [wakes[w] EXCEPT !.state = state] \in WakeRow
    BY <1>1 DEF WakeRow
<1>3. wakes' \in [Wakes -> WakeRow]
    BY <1>1, <1>2 DEF SetWakes
<1>4. \A w \in Wakes : /\ wakes'[w].task = wakes[w].task
                       /\ wakes'[w].state # "none" => wakes[w].state # "none"
    BY <1>1 DEF SetWakes, WakeRow
<1> QED  BY <1>3, <1>4 DEF WakesOK, TypeOK

\* The target request_wake records is a session or NULL, in a wake state.
LEMMA ResolutionType ==
    ASSUME NEW target, NEW explicit \in Sessions \cup {None}
    PROVE  Resolution(target, explicit)
               \in [state: WakeStates, session: Sessions \cup {None}]
<1>1. \A s \in Sessions :
          Settled(s) \in [state: WakeStates, session: Sessions \cup {None}]
    BY DEF Settled, WakeStates, OpenWakeStates
<1>2. \A state \in {"ambiguous", "failed", "pending"} :
          Unsettled(state) \in [state: WakeStates, session: Sessions \cup {None}]
    BY DEF Unsettled, WakeStates, OpenWakeStates
<1>3. CASE explicit # None
    BY <1>1, <1>3 DEF Resolution
<1>4. CASE explicit = None
  <2>1. CASE \E s \in Sessions : CapableSessions(target) = {s}
    <3> DEFINE s == CHOOSE s \in Sessions : CapableSessions(target) = {s}
    <3>1. s \in Sessions
        BY <2>1
    <3>2. Resolution(target, explicit) = Settled(s)
        BY <1>4, <2>1 DEF Resolution
    <3> QED  BY <1>1, <3>1, <3>2
  <2>2. CASE ~ \E s \in Sessions : CapableSessions(target) = {s}
      BY <1>2, <1>4, <2>2 DEF Resolution
  <2> QED  BY <2>1, <2>2
<1> QED  BY <1>3, <1>4

\* UPDATE wire_sessions SET ... keeps the row well typed.
LEMMA SessionRowType ==
    ASSUME NEW row \in SessionRow, NEW lease \in Nat \cup {None},
           NEW generation \in Nat,
           NEW state \in CompletingStates \cup RetiredStates \cup {"none"}
    PROVE  /\ [row EXCEPT !.lease = lease, !.state = state] \in SessionRow
           /\ [row EXCEPT !.state = state, !.lease = lease,
                          !.generation = generation] \in SessionRow
<1> DEFINE a == [row EXCEPT !.lease = lease]
           b == [row EXCEPT !.state = state]
           d == [b EXCEPT !.lease = lease]
<1>1. a \in SessionRow /\ b \in SessionRow
    BY DEF SessionRow
<1>2. d \in SessionRow
  <2> HIDE DEF b
  <2> QED  BY <1>1 DEF SessionRow
<1>3. [a EXCEPT !.state = state] \in SessionRow
  <2> HIDE DEF a
  <2> QED  BY <1>1 DEF SessionRow
<1>4. [d EXCEPT !.generation = generation] \in SessionRow
  <2> HIDE DEF d
  <2> QED  BY <1>2 DEF SessionRow
<1> QED  BY <1>3, <1>4

\* Every step keeps the tables and the operations in flight well typed.
LEMMA TypeStep == TypeOK /\ [Next]_vars => TypeOK'
<1> SUFFICES ASSUME TypeOK, [Next]_vars PROVE TypeOK'
    OBVIOUS
<1> USE ConstantsAssumption
<1>1. ASSUME NEW s \in Sessions, NEW seat \in Seats,
             NEW seconds \in LeaseSeconds, NEW can \in Capabilities,
             RegisterSession(s, seat, seconds, can)
      PROVE  TypeOK'
  <2>1. [state |-> "ready", seat |-> seat, lease |-> now + seconds,
         leaseSeconds |-> seconds, generation |-> 1, can |-> can]
            \in SessionRow
      BY DEF SessionRow, CompletingStates, TypeOK, WakesOK
  <2> QED  BY <1>1, <2>1 DEF RegisterSession, TypeOK, WakesOK
<1>2. ASSUME NEW s \in Sessions, NEW seat \in Seats, NEW state \in Reports,
             HeartbeatSession(seat, s, state)
      PROVE  TypeOK'
  <2>1. sessions[s] \in SessionRow /\ now \in Nat
      BY DEF TypeOK
  <2> DEFINE lease == now + sessions[s].leaseSeconds
             new == IF state = None THEN sessions[s].state ELSE state
  <2>2. /\ lease \in Nat
        /\ new \in CompletingStates \cup RetiredStates \cup {"none"}
        /\ sessions[s].generation \in Nat
      BY <2>1 DEF SessionRow, CompletingStates
  <2>3. [sessions[s] EXCEPT !.lease = lease, !.state = new] \in SessionRow
    <3> HIDE DEF lease, new
    <3> QED  BY <2>1, <2>2, SessionRowType
  <2> QED  BY <1>2, <2>3 DEF HeartbeatSession, TypeOK, WakesOK
<1>3. ASSUME NEW s \in Sessions, NEW seat \in Seats, UnregisterSession(seat, s)
      PROVE  TypeOK'
  <2>1. sessions[s] \in SessionRow
      BY DEF TypeOK
  <2>2. [sessions[s] EXCEPT !.state = "offline", !.lease = None,
                            !.generation = @ + 1] \in SessionRow
    <3>1. sessions[s].generation + 1 \in Nat
        BY <2>1 DEF SessionRow
    <3>2. "offline" \in CompletingStates \cup RetiredStates \cup {"none"}
        BY DEF RetiredStates
    <3> QED  BY <2>1, <3>1, <3>2, SessionRowType
  <2> QED  BY <1>3, <2>2 DEF UnregisterSession, TypeOK, WakesOK
<1>4. ASSUME NEW t \in Tasks, AddTask(t) PROVE TypeOK'
    BY <1>4 DEF AddTask, TypeOK, WakesOK, TaskRow, TaskStates
<1>5. ASSUME NEW t \in Tasks, CancelTask(t) PROVE TypeOK'
  <2>1. WakesOK'
      BY <1>5, SetWakesType
      DEF CancelTask, WakeStates, OpenWakeStates
  <2> QED  BY <1>5, <2>1 DEF CancelTask, TypeOK, WakesOK, TaskRow, TaskStates
<1>6. ASSUME NEW t \in Tasks, NEW seat \in Seats, NEW s \in Sessions,
             NEW o \in {"completed", "failed"}, CompleteTask(t, seat, s, o)
      PROVE  TypeOK'
  <2>1. WakesOK'
      BY <1>6, SetWakesType
      DEF CompleteTask, ClaimedWakes, WakeStates
  <2> QED  BY <1>6, <2>1 DEF CompleteTask, TypeOK, WakesOK, TaskRow, TaskStates
<1>7. ASSUME NEW by \in Seats, NEW target \in Seats, NEW t \in Tasks,
             NEW explicit \in Sessions \cup {None},
             NEW key \in Keys \cup {None}, NEW priority \in Priorities,
             NEW ttl \in Ttls,
             RequestWake(by, target, t, explicit, key, priority, ttl)
      PROVE  TypeOK'
  <2> DEFINE row ==
          [state |-> Resolution(target, explicit).state, seat |-> target,
           session |-> Resolution(target, explicit).session,
           explicit |-> explicit, task |-> t, by |-> by, key |-> key,
           priority |-> priority,
           ttl |-> IF ttl = None THEN None ELSE now + ttl,
           claimant |-> None, attempts |-> 0]
  <2>1. row \in WakeRow
    <3>1. (IF ttl = None THEN None ELSE now + ttl) \in Nat \cup {None}
        BY DEF TypeOK
    <3> HIDE DEF row
    <3> QED  BY <3>1, ResolutionType DEF row, WakeRow
  <2>2. PICK w \in Wakes : wakes' = [wakes EXCEPT ![w] = row]
      BY <1>7 DEF RequestWake
  <2> QED  BY <1>7, <2>1, <2>2 DEF RequestWake, TypeOK, WakesOK
<1>8. ASSUME NEW w \in Wakes, GetWake(w) PROVE TypeOK'
  <2>1. WakesOK'
      BY <1>8, SetWakesType
      DEF GetWake, Stale, WakeStates, OpenWakeStates
  <2> QED  BY <1>8, <2>1 DEF GetWake, TypeOK, WakesOK
<1>9. ASSUME NEW w \in Wakes, RecordWakeAttempt(w) PROVE TypeOK'
    BY <1>9 DEF RecordWakeAttempt, TypeOK, WakesOK, WakeRow
<1>10. ASSUME NEW seat \in Seats, ListWakes(seat) PROVE TypeOK'
  <2>1. WakesOK'
      BY <1>10, SetWakesType
      DEF ListWakes, StaleWakesOf, Stale, WakeStates, OpenWakeStates
  <2> QED  BY <1>10, <2>1 DEF ListWakes, TypeOK, WakesOK
<1>11. ASSUME NEW c \in Callers, NEW op \in Ops \cap {"ack", "claim"},
              NEW w \in Wakes, NEW seat \in Seats, NEW s \in Sessions,
              Preflight(c, op, w, seat, s)
       PROVE  TypeOK'
  <2>1. WakesOK'
      BY <1>11, SetWakesType
      DEF Preflight, Stale, WakeStates, OpenWakeStates
  <2> QED  BY <1>11, <2>1 DEF Preflight, TypeOK, WakesOK, Admission
<1>12. ASSUME NEW c \in Callers, AcknowledgeWake(c) PROVE TypeOK'
  <2> DEFINE r == inflight[c]
  <2>1. CASE AckExpires(r) /\ SetWakes({r.wake}, "expired")
    <3>1. WakesOK'
        BY <2>1, SetWakesType DEF AckExpires, Stale, OpenWakeStates, WakeStates
    <3> QED  BY <1>12, <3>1 DEF AcknowledgeWake, TypeOK, WakesOK
  <2>2. CASE AckDelivers(r) /\ SetWakes({r.wake}, "delivered")
    <3>1. WakesOK'
        BY <2>2, SetWakesType DEF AckDelivers, OpenWakeStates, WakeStates
    <3> QED  BY <1>12, <3>1 DEF AcknowledgeWake, TypeOK, WakesOK
  <2>3. CASE UNCHANGED wakes
      BY <1>12, <2>3 DEF AcknowledgeWake, TypeOK
  <2> QED  BY <1>12, <2>1, <2>2, <2>3 DEF AcknowledgeWake
<1>13. ASSUME NEW c \in Callers, ClaimWake(c) PROVE TypeOK'
  <2> DEFINE r == inflight[c]
  <2>1. r \in Admission
      BY <1>13 DEF ClaimWake, TypeOK, Replay, Idle
  <2>2. r.wake \in Wakes /\ r.session \in Sessions
      BY <2>1 DEF Admission
  <2>3. ClaimAddressed(r) => wakes[r.wake].state # "none"
      BY DEF ClaimAddressed, OpenWakeStates
  <2>4. CASE ClaimWins(r) /\ WinTask(r)
    <3>1. sessions[r.session].generation \in Nat
        BY <2>2 DEF TypeOK, SessionRow
    <3>2. tasks' \in [Tasks -> TaskRow]
        BY <2>4, <2>2, <3>1 DEF WinTask, TypeOK, TaskRow, TaskStates
    <3>3. wakes' \in [Wakes -> WakeRow]
        BY <2>4, <2>2 DEF WinTask, TypeOK, WakeRow, WakeStates
    <3>4. \A w \in Wakes : /\ wakes'[w].task = wakes[w].task
                           /\ wakes'[w].state # "none"
                                 => wakes[w].state # "none"
        BY <2>2, <2>3, <2>4
        DEF WinTask, ClaimWins, ClaimAdmitted, TypeOK, WakeRow
    <3> QED  BY <1>13, <3>2, <3>3, <3>4 DEF ClaimWake, TypeOK
  <2>5. CASE ClaimExpires(r) /\ SetWakes({r.wake}, "expired") /\ UNCHANGED tasks
    <3>1. WakesOK'
        BY <2>3, <2>5, SetWakesType DEF ClaimExpires, WakeStates
    <3> QED  BY <1>13, <2>5, <3>1 DEF ClaimWake, TypeOK, WakesOK
  <2>6. CASE ClaimLoses(r) /\ SetWakes({r.wake}, "failed") /\ UNCHANGED tasks
    <3>1. WakesOK'
        BY <2>3, <2>6, SetWakesType DEF ClaimLoses, ClaimAdmitted, WakeStates
    <3> QED  BY <1>13, <2>6, <3>1 DEF ClaimWake, TypeOK, WakesOK
  <2>7. CASE UNCHANGED <<tasks, wakes>>
      BY <1>13, <2>7 DEF ClaimWake, TypeOK
  <2> QED  BY <1>13, <2>4, <2>5, <2>6, <2>7 DEF ClaimWake
<1>14. ASSUME NEW c \in Callers, NEW seat \in Seats,
              NEW s \in Sessions \cup {None}, StartReplay(c, seat, s)
       PROVE  TypeOK'
  <2>1. WakesOK'
      BY <1>14, SetWakesType
      DEF StartReplay, Stale, StaleWakesOf, WakeStates, OpenWakeStates
  <2> QED  BY <1>14, <2>1 DEF StartReplay, TypeOK, WakesOK, Replay
<1>15. ASSUME NEW c \in Callers, SelectReplay(c) PROVE TypeOK'
  <2>1. inflight[c] \in Replay
      BY <1>15 DEF SelectReplay, TypeOK, WakesOK, Admission, Idle
  <2>2. FirstBatch(inflight[c]) \subseteq Wakes
      BY DEF FirstBatch, Eligible
  <2>3. [inflight[c] EXCEPT !.selected = TRUE, !.rows = FirstBatch(inflight[c])]
            \in Replay
      BY <2>1, <2>2 DEF Replay
  <2> QED  BY <1>15, <2>3 DEF SelectReplay, TypeOK, WakesOK
<1>16. ASSUME NEW c \in Callers, NEW w \in Wakes, ReplayRow(c, w) PROVE TypeOK'
  <2>1. inflight[c] \in Replay
      BY <1>16 DEF ReplayRow, TypeOK, WakesOK, Admission, Idle
  <2>2. /\ [inflight[c] EXCEPT !.rows = @ \ {w}, !.failing = w] \in Replay
        /\ [inflight[c] EXCEPT !.rows = @ \ {w},
                               !.offered = @ \cup {w}] \in Replay
      BY <2>1 DEF Replay
  <2>3. inflight' \in [Callers -> {Idle} \cup Admission \cup Replay]
      BY <1>16, <2>2 DEF ReplayRow, TypeOK
  <2> QED  BY <1>16, <2>3 DEF ReplayRow, TypeOK, WakesOK
<1>17. ASSUME NEW c \in Callers, FailPendingWake(c) PROVE TypeOK'
  <2>1. inflight[c] \in Replay
      BY <1>17 DEF FailPendingWake, TypeOK, WakesOK, Admission, Idle
  <2>2. WakesOK'
      BY <1>17, SetWakesType DEF FailPendingWake, WakeStates
  <2>3. [inflight[c] EXCEPT !.failing = 0] \in Replay
      BY <2>1 DEF Replay
  <2> QED  BY <1>17, <2>2, <2>3 DEF FailPendingWake, TypeOK, WakesOK
<1>18. ASSUME NEW c \in Callers, EndReplay(c) PROVE TypeOK'
    BY <1>18 DEF EndReplay, TypeOK, WakesOK
<1>19. CASE Tick
    BY <1>19 DEF Tick, TypeOK, WakesOK
<1>20. CASE UNCHANGED vars
    BY <1>20 DEF vars, TypeOK, WakesOK
<1>21. CASE SessionNext
    BY <1>1, <1>2, <1>3, <1>21 DEF SessionNext
<1>22. CASE TaskNext
    BY <1>4, <1>5, <1>6, <1>22 DEF TaskNext
<1>23. CASE WakeNext
    BY <1>7, <1>8, <1>9, <1>10, <1>23 DEF WakeNext
<1>24. CASE CallerNext
    BY <1>11, <1>12, <1>13, <1>14, <1>15, <1>16, <1>17,
       <1>18, <1>24 DEF CallerNext
<1> QED  BY <1>19, <1>20, <1>21, <1>22, <1>23, <1>24 DEF Next

\* The three tables and the operations between two of their transactions are
\* well typed in every reachable state.
THEOREM TypeCorrect == Spec => []TypeOK
<1>1. Init => TypeOK
    BY ConstantsAssumption
    DEF Init, TypeOK, WakesOK, SessionRow, TaskRow, WakeRow, NoSession, NoTask, NoWake
<1> QED  BY <1>1, TypeStep, PTL DEF Spec

(***************************************************************************)
(* Safety.  The inductive invariant: the ledger and the queue agree, no    *)
(* wake of a cancelled task is open, and fencing tokens are current.       *)
(***************************************************************************)
LedgerSafe == ClaimsAgree /\ CancelDefeatsWakes /\ FenceCurrent
LedgerInv == TypeOK /\ ClaimsAgree /\ CancelDefeatsWakes /\ FenceCurrent

\* A wake that is still open has not been claimed by anyone.
LEMMA OpenUnclaimed ==
    ASSUME TypeOK, ClaimsAgree, NEW w \in Wakes,
           wakes[w].state \in OpenWakeStates
    PROVE  wakes[w].claimant = None
<1> DEFINE t == wakes[w].task
<1>1. t \in Tasks
    BY DEF TypeOK, OpenWakeStates
<1> SUFFICES ASSUME w \in ClaimedFor(t) PROVE FALSE
    BY DEF ClaimedFor
<1>2. tasks[t].claimant # None /\ tasks[t].state \notin {"none", "open"}
    BY <1>1 DEF ClaimsAgree
<1>3. tasks[t].state \in TaskStates
    BY <1>1, <1>2 DEF TypeOK, TaskRow
<1>4. CASE tasks[t].state \in {"claimed", "completed", "failed"}
    BY <1>1, <1>4 DEF ClaimsAgree, OpenWakeStates
<1>5. CASE tasks[t].state \in {"cancelled", "revoked"}
    BY <1>1, <1>5 DEF ClaimsAgree, OpenWakeStates
<1> QED  BY <1>2, <1>3, <1>4, <1>5 DEF TaskStates

\* What an UPDATE of wire_wakes leaves alone.
LEMMA SetWakesFrame ==
    ASSUME TypeOK, NEW W, NEW state, SetWakes(W, state), NEW w \in Wakes
    PROVE  /\ wakes'[w].task = wakes[w].task
           /\ wakes'[w].claimant = wakes[w].claimant
           /\ wakes'[w].state = IF w \in W THEN state ELSE wakes[w].state
BY DEF TypeOK, WakeRow, SetWakes

\* Settling wakes that are open, or delivering them, disturbs no claim.
LEMMA SettleOpen ==
    ASSUME LedgerInv, NEW W, NEW state \in WakeStates, SetWakes(W, state),
           \A w \in W \cap Wakes : wakes[w].state \in OpenWakeStates,
           UNCHANGED tasks
    PROVE  ClaimsAgree' /\ CancelDefeatsWakes'
<1>1. \A w \in Wakes : /\ wakes'[w].task = wakes[w].task
                       /\ wakes'[w].claimant = wakes[w].claimant
                       /\ wakes'[w].state = IF w \in W THEN state
                                           ELSE wakes[w].state
    BY SetWakesFrame DEF LedgerInv
<1>2. \A w \in W \cap Wakes : wakes[w].claimant = None
    BY OpenUnclaimed DEF LedgerInv
<1>3. \A t \in Tasks : ClaimedFor(t)' = ClaimedFor(t)
    BY <1>1 DEF ClaimedFor
<1>4. \A t \in Tasks : \A w \in ClaimedFor(t) :
          w \in Wakes /\ wakes'[w].state = wakes[w].state
                      /\ wakes'[w].claimant = wakes[w].claimant
    BY <1>1, <1>2 DEF ClaimedFor
<1>5. ClaimsAgree'
    BY <1>3, <1>4 DEF LedgerInv, ClaimsAgree
<1>6. CancelDefeatsWakes'
    BY <1>1 DEF LedgerInv, CancelDefeatsWakes
<1> QED  BY <1>5, <1>6

\* The UPDATE of claim_wake: the task and the wake are won together.
LEMMA WinTaskKeeps ==
    ASSUME LedgerInv, NEW r \in Admission, ClaimWins(r), WinTask(r),
           UNCHANGED sessions
    PROVE  ClaimsAgree' /\ CancelDefeatsWakes' /\ FenceCurrent'
<1> USE ConstantsAssumption
<1> DEFINE t == wakes[r.wake].task
<1>1. r.wake \in Wakes /\ r.session \in Sessions /\ r.session # None
    BY DEF Admission
<1>2. wakes[r.wake].state \in OpenWakeStates
    BY DEF ClaimWins, ClaimAdmitted, ClaimAddressed
<1>3. t \in Tasks /\ tasks[t].state = "open"
    BY <1>1, <1>2 DEF LedgerInv, TypeOK, ClaimWins, OpenWakeStates
<1>4. ClaimedFor(t) = {} /\ tasks[t].claimant = None
    BY <1>3 DEF LedgerInv, ClaimsAgree
<1>5. /\ tasks'[t].state = "claimed" /\ tasks'[t].claimant = r.session
      /\ tasks'[t].fence = sessions[r.session].generation
      /\ \A u \in Tasks \ {t} : tasks'[u] = tasks[u]
    BY <1>3 DEF WinTask, LedgerInv, TypeOK
<1>6. /\ wakes'[r.wake].state = "claimed"
      /\ wakes'[r.wake].claimant = r.session
      /\ wakes'[r.wake].task = t
      /\ \A w \in Wakes \ {r.wake} : wakes'[w] = wakes[w]
    BY <1>1 DEF WinTask, LedgerInv, TypeOK, WakeRow
<1>7. ClaimedFor(t)' = {r.wake}
    BY <1>1, <1>4, <1>6 DEF ClaimedFor
<1>8. \A u \in Tasks \ {t} :
          ClaimedFor(u)' = ClaimedFor(u) /\ r.wake \notin ClaimedFor(u)
    BY <1>1, <1>6 DEF ClaimedFor
<1>9. ClaimsAgree'
  <2> SUFFICES ASSUME NEW u \in Tasks
               PROVE  /\ tasks'[u].claimant = None <=> ClaimedFor(u)' = {}
                      /\ \A v, w \in ClaimedFor(u)' : v = w
                      /\ tasks'[u].state \in {"none", "open"}
                            => tasks'[u].claimant = None
                      /\ \A w \in ClaimedFor(u)' :
                            /\ wakes'[w].claimant = tasks'[u].claimant
                            /\ tasks'[u].state \in {"claimed", "completed", "failed"}
                                  => wakes'[w].state = tasks'[u].state
                            /\ tasks'[u].state \in {"cancelled", "revoked"}
                                  => wakes'[w].state \in {"claimed", "failed"}
      BY DEF ClaimsAgree
  <2>1. CASE u = t
      BY <1>1, <1>5, <1>6, <1>7, <2>1
  <2>2. CASE u # t
    <3>1. \A w \in ClaimedFor(u) : w \in Wakes \ {r.wake}
        BY <1>8, <2>2 DEF ClaimedFor
    <3> QED  BY <1>5, <1>6, <1>8, <2>2, <3>1 DEF LedgerInv, ClaimsAgree
  <2> QED  BY <2>1, <2>2
<1>10. CancelDefeatsWakes'
  <2> SUFFICES ASSUME NEW w \in Wakes, wakes'[w].state \in OpenWakeStates
               PROVE  tasks'[wakes'[w].task].state # "cancelled"
      BY DEF CancelDefeatsWakes
  <2>1. w # r.wake
      BY <1>6 DEF OpenWakeStates
  <2>2. wakes'[w] = wakes[w]
      BY <1>6, <2>1
  <2>3. wakes[w].task \in Tasks /\ tasks[wakes[w].task].state # "cancelled"
      BY <2>2 DEF LedgerInv, TypeOK, CancelDefeatsWakes, OpenWakeStates
  <2> QED  BY <1>5, <2>2, <2>3
<1>11. FenceCurrent'
  <2>1. Registered(r.session)
      BY DEF ClaimWins, ClaimAdmitted, ClaimSession, OwnSession
  <2> QED  BY <1>1, <1>5, <2>1 DEF LedgerInv, FenceCurrent, Registered
<1> QED  BY <1>9, <1>10, <1>11

\* The UPDATEs of cancel_task: no open wake of the task survives it, and the
\* wake of a claimant is left to the claimant.
LEMMA CancelTaskKeeps ==
    ASSUME LedgerInv, NEW t \in Tasks, CancelTask(t)
    PROVE  LedgerSafe'
<1> DEFINE W == {w \in Wakes : /\ wakes[w].task = t
                               /\ wakes[w].state \in OpenWakeStates}
<1>1. \A w \in Wakes : /\ wakes'[w].task = wakes[w].task
                       /\ wakes'[w].claimant = wakes[w].claimant
                       /\ wakes'[w].state = IF w \in W THEN "cancelled"
                                           ELSE wakes[w].state
    BY SetWakesFrame DEF LedgerInv, CancelTask
<1>2. /\ tasks'[t].state = "cancelled"
      /\ tasks'[t].claimant = tasks[t].claimant
      /\ \A u \in Tasks \ {t} : tasks'[u] = tasks[u]
    BY DEF CancelTask, LedgerInv, TypeOK, TaskRow
<1>3. \A w \in W : wakes[w].claimant = None
    BY OpenUnclaimed DEF LedgerInv
<1>4. \A u \in Tasks : ClaimedFor(u)' = ClaimedFor(u)
    BY <1>1 DEF ClaimedFor
<1>5. \A u \in Tasks : \A w \in ClaimedFor(u) :
          w \in Wakes /\ wakes'[w].state = wakes[w].state
                      /\ wakes'[w].claimant = wakes[w].claimant
    BY <1>1, <1>3 DEF ClaimedFor
<1>6. ClaimsAgree'
  <2>1. tasks[t].state \in {"open", "claimed"}
      BY DEF CancelTask, LedgerInv, TypeOK, TaskRow, TaskStates
  <2>2. \A w \in ClaimedFor(t) : wakes[w].state = "claimed"
      BY <2>1 DEF LedgerInv, ClaimsAgree
  <2> QED  BY <1>2, <1>4, <1>5, <2>2 DEF LedgerInv, ClaimsAgree
<1>7. CancelDefeatsWakes'
  <2> SUFFICES ASSUME NEW w \in Wakes, wakes'[w].state \in OpenWakeStates
               PROVE  tasks'[wakes'[w].task].state # "cancelled"
      BY DEF CancelDefeatsWakes
  <2>1. wakes[w].state \in OpenWakeStates /\ wakes[w].task # t
      BY <1>1 DEF OpenWakeStates
  <2>2. wakes[w].task \in Tasks
      BY <2>1 DEF LedgerInv, TypeOK, OpenWakeStates
  <2> QED  BY <1>1, <1>2, <2>1, <2>2 DEF LedgerInv, CancelDefeatsWakes
<1>8. FenceCurrent'
    BY <1>2 DEF CancelTask, LedgerInv, FenceCurrent, Registered
<1> QED  BY <1>6, <1>7, <1>8 DEF LedgerSafe

\* The UPDATEs of complete_task: the outcome of the task is the outcome of the
\* wake that won it.
LEMMA CompleteTaskKeeps ==
    ASSUME LedgerInv, NEW t \in Tasks, NEW seat \in Seats, NEW s \in Sessions,
           NEW outcome \in {"completed", "failed"},
           CompleteTask(t, seat, s, outcome)
    PROVE  LedgerSafe'
<1> USE ConstantsAssumption
<1> DEFINE W == ClaimedWakes(t, s)
<1>1. PICK state \in {"completed", "failed"} : SetWakes(W, state)
    BY DEF CompleteTask
<1>2. \A w \in Wakes : /\ wakes'[w].task = wakes[w].task
                       /\ wakes'[w].claimant = wakes[w].claimant
                       /\ wakes'[w].state = IF w \in W THEN state
                                           ELSE wakes[w].state
    BY <1>1, SetWakesFrame DEF LedgerInv
<1>3. W \subseteq ClaimedFor(t)
    BY DEF ClaimedWakes, ClaimedFor
<1>4. \A u \in Tasks : ClaimedFor(u)' = ClaimedFor(u)
    BY <1>2 DEF ClaimedFor
<1>5. \A u \in Tasks \ {t} : \A w \in ClaimedFor(u) :
          w \in Wakes /\ wakes'[w].state = wakes[w].state
                      /\ wakes'[w].claimant = wakes[w].claimant
    BY <1>2, <1>3 DEF ClaimedFor
<1>6. /\ tasks'[t].claimant = tasks[t].claimant
      /\ \A u \in Tasks \ {t} : tasks'[u] = tasks[u]
    BY DEF CompleteTask, LedgerInv, TypeOK, TaskRow
<1>7. tasks'[t].state # "claimed" /\ tasks'[t].state \notin {"none", "open"}
    BY DEF CompleteTask, LedgerInv, TypeOK, TaskRow
<1>8. \A w \in ClaimedFor(t) :
          /\ tasks'[t].state \in {"claimed", "completed", "failed"}
                => wakes'[w].state = tasks'[t].state
          /\ tasks'[t].state \in {"cancelled", "revoked"}
                => wakes'[w].state \in {"claimed", "failed"}
  <2> SUFFICES ASSUME NEW w \in ClaimedFor(t)
               PROVE  /\ tasks'[t].state \in {"claimed", "completed", "failed"}
                            => wakes'[w].state = tasks'[t].state
                      /\ tasks'[t].state \in {"cancelled", "revoked"}
                            => wakes'[w].state \in {"claimed", "failed"}
      OBVIOUS
  <2>1. w \in Wakes /\ wakes[w].claimant = tasks[t].claimant
      BY DEF ClaimedFor, LedgerInv, ClaimsAgree
  <2>2. CASE tasks[t].state \in {"cancelled", "revoked"}
    <3>1. SetWakes(W, "failed") /\ UNCHANGED tasks
        BY <2>2 DEF CompleteTask
    <3>2. wakes'[w].state = IF w \in W THEN "failed" ELSE wakes[w].state
        BY <2>1, <3>1, SetWakesFrame DEF LedgerInv
    <3>3. wakes[w].state \in {"claimed", "failed"}
        BY <2>2 DEF LedgerInv, ClaimsAgree
    <3> QED  BY <2>2, <3>1, <3>2, <3>3
  <2>3. CASE tasks[t].state = "claimed"
    <3>1. SetWakes(W, outcome) /\ tasks'[t].state = outcome
        BY <2>3 DEF CompleteTask, LedgerInv, TypeOK, TaskRow
    <3>2. w \in W
        BY <2>1, <2>3
        DEF ClaimedWakes, ClaimedFor, CompleteTask, LedgerInv, ClaimsAgree
    <3>3. wakes'[w].state = outcome
        BY <2>1, <3>1, <3>2, SetWakesFrame DEF LedgerInv
    <3> QED  BY <3>1, <3>3
  <2> QED  BY <2>2, <2>3 DEF CompleteTask
<1>9. ClaimsAgree'
  <2> SUFFICES ASSUME NEW u \in Tasks
               PROVE  /\ tasks'[u].claimant = None <=> ClaimedFor(u)' = {}
                      /\ \A v, w \in ClaimedFor(u)' : v = w
                      /\ tasks'[u].state \in {"none", "open"}
                            => tasks'[u].claimant = None
                      /\ \A w \in ClaimedFor(u)' :
                            /\ wakes'[w].claimant = tasks'[u].claimant
                            /\ tasks'[u].state \in {"claimed", "completed", "failed"}
                                  => wakes'[w].state = tasks'[u].state
                            /\ tasks'[u].state \in {"cancelled", "revoked"}
                                  => wakes'[w].state \in {"claimed", "failed"}
      BY DEF ClaimsAgree
  <2>1. CASE u = t
    <3>1. \A w \in ClaimedFor(t) : wakes'[w].claimant = tasks[t].claimant
        BY <1>2 DEF ClaimedFor, LedgerInv, ClaimsAgree
    <3> QED  BY <1>4, <1>6, <1>7, <1>8, <2>1, <3>1 DEF LedgerInv, ClaimsAgree
  <2>2. CASE u # t
      BY <1>4, <1>5, <1>6, <2>2 DEF LedgerInv, ClaimsAgree
  <2> QED  BY <2>1, <2>2
<1>10. CancelDefeatsWakes'
  <2> SUFFICES ASSUME NEW w \in Wakes, wakes'[w].state \in OpenWakeStates
               PROVE  tasks'[wakes'[w].task].state # "cancelled"
      BY DEF CancelDefeatsWakes
  <2>1. wakes[w].state \in OpenWakeStates
      BY <1>1, <1>2 DEF OpenWakeStates
  <2>2. /\ wakes[w].task \in Tasks
        /\ tasks[wakes[w].task].state # "cancelled"
      BY <2>1 DEF LedgerInv, TypeOK, CancelDefeatsWakes, OpenWakeStates
  <2>3. tasks[t].state # "cancelled" => tasks'[t].state # "cancelled"
      BY DEF CompleteTask, LedgerInv, TypeOK, TaskRow
  <2> QED  BY <1>2, <1>6, <2>2, <2>3
<1>11. FenceCurrent'
    BY <1>6, <1>7 DEF CompleteTask, LedgerInv, FenceCurrent, Registered
<1> QED  BY <1>9, <1>10, <1>11 DEF LedgerSafe

\* A step that leaves the tables alone keeps what is said about them.
LEMMA SameTables ==
    ASSUME LedgerInv, UNCHANGED <<tasks, wakes>>
    PROVE  ClaimsAgree' /\ CancelDefeatsWakes'
<1>1. \A t \in Tasks : ClaimedFor(t)' = ClaimedFor(t)
    BY DEF ClaimedFor
<1> QED  BY <1>1 DEF LedgerInv, ClaimsAgree, CancelDefeatsWakes

LEMMA SameFence ==
    ASSUME LedgerInv, UNCHANGED <<tasks, sessions>>
    PROVE  FenceCurrent'
BY DEF LedgerInv, FenceCurrent, Registered

\* A step that only changes sessions, as every session operation does, keeps
\* the claimants' tokens current.
LEMMA SessionStepKeeps ==
    ASSUME LedgerInv, SessionNext
    PROVE  LedgerSafe'
<1>1. PICK s \in Sessions, seat \in Seats :
          \/ \E seconds \in LeaseSeconds, can \in Capabilities :
                 RegisterSession(s, seat, seconds, can)
          \/ \E state \in Reports : HeartbeatSession(seat, s, state)
          \/ UnregisterSession(seat, s)
    BY DEF SessionNext
<1>2. UNCHANGED <<tasks, wakes>>
    BY <1>1 DEF RegisterSession, HeartbeatSession, UnregisterSession
<1>3. /\ \A r \in Sessions \ {s} : sessions'[r] = sessions[r]
      /\ Registered(s) => /\ sessions'[s].state # "none"
                          /\ \/ /\ sessions[s].state \notin RetiredStates
                                /\ sessions'[s].generation
                                       = sessions[s].generation
                             \/ sessions'[s].state = "offline"
  <2>1. CASE \E seconds \in LeaseSeconds, can \in Capabilities :
                 RegisterSession(s, seat, seconds, can)
      BY <2>1 DEF RegisterSession, LedgerInv, TypeOK
  <2>2. CASE \E state \in Reports : HeartbeatSession(seat, s, state)
    <3>1. PICK state \in Reports : HeartbeatSession(seat, s, state)
        BY <2>2
    <3>2. state = None \/ state # "none"
        BY ConstantsAssumption
    <3> QED  BY <3>1, <3>2
             DEF HeartbeatSession, Registered, LedgerInv, TypeOK, SessionRow
  <2>3. CASE UnregisterSession(seat, s)
      BY <2>3 DEF UnregisterSession, LedgerInv, TypeOK, SessionRow
  <2> QED  BY <1>1, <2>1, <2>2, <2>3
<1>4. FenceCurrent'
  <2> SUFFICES ASSUME NEW t \in Tasks, tasks[t].state = "claimed"
               PROVE  /\ tasks[t].claimant \in Sessions
                      /\ sessions'[tasks[t].claimant].state # "none"
                      /\ \/ sessions'[tasks[t].claimant].generation
                                = tasks[t].fence
                         \/ sessions'[tasks[t].claimant].state \in RetiredStates
      BY <1>2 DEF FenceCurrent, Registered
  <2>1. /\ tasks[t].claimant \in Sessions /\ Registered(tasks[t].claimant)
        /\ \/ sessions[tasks[t].claimant].generation = tasks[t].fence
           \/ sessions[tasks[t].claimant].state \in RetiredStates
      BY DEF LedgerInv, FenceCurrent
  <2>2. CASE tasks[t].claimant # s
      BY <1>3, <2>1, <2>2 DEF Registered
  <2>3. CASE tasks[t].claimant = s
      BY <1>3, <2>1, <2>3 DEF RetiredStates
  <2> QED  BY <2>2, <2>3
<1> QED  BY <1>2, <1>4, SameTables DEF LedgerSafe

\* A new intent is claimed by nobody, and is made only for an open task.
LEMMA RequestWakeKeeps ==
    ASSUME LedgerInv, NEW by \in Seats, NEW target \in Seats, NEW t \in Tasks,
           NEW explicit \in Sessions \cup {None}, NEW key \in Keys \cup {None},
           NEW priority \in Priorities, NEW ttl \in Ttls,
           RequestWake(by, target, t, explicit, key, priority, ttl)
    PROVE  LedgerSafe'
<1>1. PICK w \in Wakes :
          /\ wakes[w].state = "none"
          /\ wakes'[w].claimant = None /\ wakes'[w].task = t
          /\ \A v \in Wakes \ {w} : wakes'[v] = wakes[v]
    BY DEF RequestWake, LedgerInv, TypeOK
<1>2. UNCHANGED <<tasks, sessions>> /\ tasks[t].state = "open"
    BY DEF RequestWake, AcceptsWakes
<1>3. \A u \in Tasks : w \notin ClaimedFor(u)
  <2> SUFFICES ASSUME NEW u \in Tasks, w \in ClaimedFor(u) PROVE FALSE
      OBVIOUS
  <2>1. tasks[u].state \in TaskStates \cup {"none"}
      BY DEF LedgerInv, TypeOK, TaskRow
  <2> QED  BY <1>1, <2>1 DEF LedgerInv, ClaimsAgree, TaskStates
<1>4. \A u \in Tasks : ClaimedFor(u)' = ClaimedFor(u)
    BY <1>1, <1>3 DEF ClaimedFor
<1>5. \A u \in Tasks : \A v \in ClaimedFor(u) : wakes'[v] = wakes[v]
    BY <1>1, <1>3 DEF ClaimedFor
<1>6. ClaimsAgree'
    BY <1>2, <1>4, <1>5 DEF LedgerInv, ClaimsAgree
<1>7. CancelDefeatsWakes'
    BY <1>1, <1>2 DEF LedgerInv, CancelDefeatsWakes
<1> QED  BY <1>2, <1>6, <1>7, SameFence DEF LedgerSafe

\* A recorded transmission changes neither state nor claimant.
LEMMA RecordAttemptKeeps ==
    ASSUME LedgerInv, NEW w \in Wakes, RecordWakeAttempt(w)
    PROVE  LedgerSafe'
<1>1. /\ \A v \in Wakes : /\ wakes'[v].state = wakes[v].state
                          /\ wakes'[v].claimant = wakes[v].claimant
                          /\ wakes'[v].task = wakes[v].task
      /\ UNCHANGED <<tasks, sessions>>
    BY DEF RecordWakeAttempt, LedgerInv, TypeOK, WakeRow
<1>2. \A u \in Tasks : ClaimedFor(u)' = ClaimedFor(u)
                       /\ ClaimedFor(u) \subseteq Wakes
    BY <1>1 DEF ClaimedFor
<1>3. ClaimsAgree' /\ CancelDefeatsWakes'
    BY <1>1, <1>2 DEF LedgerInv, ClaimsAgree, CancelDefeatsWakes
<1> QED  BY <1>1, <1>3, SameFence DEF LedgerSafe

\* Every step keeps the inductive invariant.
LEMMA LedgerStep == LedgerInv /\ [Next]_vars => LedgerInv'
<1> SUFFICES ASSUME LedgerInv, [Next]_vars PROVE LedgerSafe'
    BY TypeStep DEF LedgerInv, LedgerSafe
<1>1. CASE SessionNext
    BY <1>1, SessionStepKeeps
<1>2. CASE TaskNext
  <2>1. ASSUME NEW t \in Tasks, AddTask(t) PROVE LedgerSafe'
    <3>1. /\ tasks[t].state = "none" /\ tasks'[t].state = "open"
          /\ tasks'[t].claimant = tasks[t].claimant
          /\ \A u \in Tasks \ {t} : tasks'[u] = tasks[u]
          /\ UNCHANGED <<wakes, sessions>>
        BY <2>1 DEF AddTask, LedgerInv, TypeOK, TaskRow
    <3>2. \A u \in Tasks : ClaimedFor(u)' = ClaimedFor(u)
        BY <3>1 DEF ClaimedFor
    <3>3. ClaimsAgree'
        BY <3>1, <3>2 DEF LedgerInv, ClaimsAgree
    <3>4. CancelDefeatsWakes'
      <4> SUFFICES ASSUME NEW w \in Wakes, wakes[w].state \in OpenWakeStates
                   PROVE  tasks'[wakes[w].task].state # "cancelled"
          BY <3>1 DEF CancelDefeatsWakes
      <4>1. wakes[w].task \in Tasks
          BY DEF LedgerInv, TypeOK, OpenWakeStates
      <4> QED  BY <3>1, <4>1 DEF LedgerInv, CancelDefeatsWakes
    <3>5. FenceCurrent'
        BY <3>1 DEF LedgerInv, FenceCurrent, Registered
    <3> QED  BY <3>3, <3>4, <3>5 DEF LedgerSafe
  <2> QED  BY <1>2, <2>1, CancelTaskKeeps, CompleteTaskKeeps DEF TaskNext
<1>3. CASE WakeNext
  <2>1. ASSUME NEW w \in Wakes, GetWake(w) PROVE LedgerSafe'
      BY <2>1, SettleOpen, SameFence
      DEF GetWake, Stale, WakeStates, OpenWakeStates, LedgerSafe
  <2>2. ASSUME NEW seat \in Seats, ListWakes(seat) PROVE LedgerSafe'
      BY <2>2, SettleOpen, SameFence
      DEF ListWakes, StaleWakesOf, Stale, WakeStates, LedgerSafe
  <2> QED  BY <1>3, <2>1, <2>2, RequestWakeKeeps, RecordAttemptKeeps DEF WakeNext
<1>4. CASE CallerNext
  <2>1. ASSUME NEW c \in Callers, NEW op, NEW w \in Wakes, NEW seat, NEW s,
               Preflight(c, op, w, seat, s)
        PROVE  LedgerSafe'
    <3>1. \A v \in {w} \cap {v \in Wakes : Stale(v)} :
              wakes[v].state \in OpenWakeStates
        BY DEF Stale
    <3> QED  BY <2>1, <3>1, SettleOpen, SameFence
             DEF Preflight, WakeStates, LedgerSafe
  <2>2. ASSUME NEW c \in Callers, AcknowledgeWake(c) PROVE LedgerSafe'
    <3> DEFINE r == inflight[c]
    <3>1. CASE AckExpires(r) /\ SetWakes({r.wake}, "expired")
        BY <2>2, <3>1, SettleOpen, SameFence
        DEF AcknowledgeWake, AckExpires, Stale, WakeStates, LedgerSafe
    <3>2. CASE AckDelivers(r) /\ SetWakes({r.wake}, "delivered")
        BY <2>2, <3>2, SettleOpen, SameFence
        DEF AcknowledgeWake, AckDelivers, WakeStates, OpenWakeStates, LedgerSafe
    <3>3. CASE UNCHANGED wakes
        BY <2>2, <3>3, SameTables, SameFence DEF AcknowledgeWake, LedgerSafe
    <3> QED  BY <2>2, <3>1, <3>2, <3>3 DEF AcknowledgeWake
  <2>3. ASSUME NEW c \in Callers, ClaimWake(c) PROVE LedgerSafe'
    <3> DEFINE r == inflight[c]
    <3>1. r \in Admission
        BY <2>3 DEF ClaimWake, LedgerInv, TypeOK, Replay, Idle
    <3>2. CASE ClaimWins(r) /\ WinTask(r)
        BY <2>3, <3>1, <3>2, WinTaskKeeps DEF ClaimWake, LedgerSafe
    <3>3. CASE ClaimExpires(r) /\ SetWakes({r.wake}, "expired") /\ UNCHANGED tasks
        BY <2>3, <3>3, SettleOpen, SameFence
        DEF ClaimWake, ClaimExpires, ClaimAddressed, WakeStates, LedgerSafe
    <3>4. CASE ClaimLoses(r) /\ SetWakes({r.wake}, "failed") /\ UNCHANGED tasks
        BY <2>3, <3>4, SettleOpen, SameFence
        DEF ClaimWake, ClaimLoses, ClaimAdmitted, ClaimAddressed, WakeStates,
            LedgerSafe
    <3>5. CASE UNCHANGED <<tasks, wakes>>
        BY <2>3, <3>5, SameTables, SameFence DEF ClaimWake, LedgerSafe
    <3> QED  BY <2>3, <3>2, <3>3, <3>4, <3>5 DEF ClaimWake
  <2>4. ASSUME NEW c \in Callers, NEW seat, NEW s, StartReplay(c, seat, s)
        PROVE  LedgerSafe'
      BY <2>4, SettleOpen, SameFence
      DEF StartReplay, StaleWakesOf, Stale, WakeStates, LedgerSafe
  <2>5. ASSUME NEW c \in Callers, FailPendingWake(c) PROVE LedgerSafe'
      BY <2>5, SettleOpen, SameFence
      DEF FailPendingWake, WakeStates, OpenWakeStates, LedgerSafe
  <2>6. ASSUME NEW c \in Callers,
               SelectReplay(c) \/ EndReplay(c) \/ \E w \in Wakes : ReplayRow(c, w)
        PROVE  LedgerSafe'
      BY <2>6, SameTables, SameFence
      DEF SelectReplay, ReplayRow, EndReplay, LedgerSafe
  <2> QED  BY <1>4, <2>1, <2>2, <2>3, <2>4, <2>5, <2>6 DEF CallerNext
<1>5. CASE Tick \/ UNCHANGED vars
    BY <1>5, SameTables, SameFence DEF Tick, vars, LedgerSafe
<1> QED  BY <1>1, <1>2, <1>3, <1>4, <1>5 DEF Next

LEMMA LedgerInitially == Init => LedgerInv
<1> SUFFICES ASSUME Init PROVE LedgerInv
    OBVIOUS
<1>1. TypeOK
    BY ConstantsAssumption
    DEF Init, TypeOK, SessionRow, TaskRow, WakeRow, NoSession, NoTask, NoWake
<1>2. \A t \in Tasks : ClaimedFor(t) = {}
    BY DEF Init, ClaimedFor, NoWake
<1> QED  BY <1>1, <1>2
         DEF Init, LedgerInv, ClaimsAgree, CancelDefeatsWakes, FenceCurrent,
             NoTask, NoWake, OpenWakeStates

LEMMA LedgerInvariant == Spec => []LedgerInv
BY LedgerInitially, LedgerStep, PTL DEF Spec

\* Task claims are exactly-once, whatever sessions, wakes, callers and the
\* operator do: the ledger row and the one wake that won it always agree.
THEOREM ExactlyOnceClaims == Spec => []ClaimsAgree
<1>1. LedgerInv => ClaimsAgree
    BY DEF LedgerInv
<1> QED  BY <1>1, LedgerInvariant, PTL

\* No wake of a cancelled task is ever left open.
THEOREM CancellationWins == Spec => []CancelDefeatsWakes
<1>1. LedgerInv => CancelDefeatsWakes
    BY DEF LedgerInv
<1> QED  BY <1>1, LedgerInvariant, PTL

\* The fencing token of a claim in work is the claimant's generation, or the
\* claimant has retired.
THEOREM FencesStayCurrent == Spec => []FenceCurrent
<1>1. LedgerInv => FenceCurrent
    BY DEF LedgerInv
<1> QED  BY <1>1, LedgerInvariant, PTL

\* Requests, listings, expiry and transmissions touch wire_wakes alone.
LEMMA WakeStepFrame == WakeNext => UNCHANGED <<now, sessions, tasks, inflight>>
<1>1. ASSUME NEW by, NEW target, NEW t, NEW explicit, NEW key, NEW priority,
             NEW ttl, RequestWake(by, target, t, explicit, key, priority, ttl)
      PROVE  UNCHANGED <<now, sessions, tasks, inflight>>
    BY <1>1 DEF RequestWake
<1>2. ASSUME NEW w, GetWake(w) \/ RecordWakeAttempt(w)
      PROVE  UNCHANGED <<now, sessions, tasks, inflight>>
    BY <1>2 DEF GetWake, RecordWakeAttempt
<1>3. ASSUME NEW seat, ListWakes(seat)
      PROVE  UNCHANGED <<now, sessions, tasks, inflight>>
    BY <1>3 DEF ListWakes
<1> QED  BY <1>1, <1>2, <1>3 DEF WakeNext

\* A completion is recorded only under the token its claim was given, by a
\* session whose lease is live in that very state.
THEOREM CompletionsAreFenced == Spec => FencedCompletion
<1> DEFINE Fenced(t) ==
        tasks[t].state = "claimed" /\ tasks'[t].state \in {"completed", "failed"}
           => LET s == tasks[t].claimant
              IN  sessions[s].generation = tasks[t].fence /\ LeaseIsLive(s)
<1>1. LedgerInv /\ [Next]_vars => \A t \in Tasks : Fenced(t)
  <2> SUFFICES ASSUME LedgerInv, [Next]_vars, NEW t \in Tasks,
                      tasks[t].state = "claimed",
                      tasks'[t].state \in {"completed", "failed"}
               PROVE  LET s == tasks[t].claimant
                      IN  sessions[s].generation = tasks[t].fence /\ LeaseIsLive(s)
      OBVIOUS
  <2> DEFINE s == tasks[t].claimant
  <2>1. \/ sessions[s].generation = tasks[t].fence
        \/ sessions[s].state \in RetiredStates
      BY DEF LedgerInv, FenceCurrent
  <2>2. tasks' # tasks
      OBVIOUS
  <2>3. MayComplete(s)
    <3>1. CASE SessionNext
        BY <2>2, <3>1
        DEF SessionNext, RegisterSession, HeartbeatSession, UnregisterSession
    <3>2. CASE TaskNext
      <4>1. ASSUME NEW u \in Tasks, AddTask(u) \/ CancelTask(u) PROVE FALSE
          BY <4>1 DEF AddTask, CancelTask, LedgerInv, TypeOK, TaskRow
      <4>2. ASSUME NEW u \in Tasks, NEW seat \in Seats, NEW r \in Sessions,
                   NEW o \in {"completed", "failed"}, CompleteTask(u, seat, r, o)
            PROVE  MayComplete(s)
          BY <4>2 DEF CompleteTask, LedgerInv, TypeOK, TaskRow
      <4> QED  BY <3>2, <4>1, <4>2 DEF TaskNext
    <3>3. CASE WakeNext
        BY <2>2, <3>3, WakeStepFrame
    <3>4. CASE CallerNext
      <4>1. PICK c \in Callers : ClaimWins(inflight[c]) /\ WinTask(inflight[c])
                                /\ inflight[c] \in Admission
        <5>1. PICK c \in Callers : ClaimWake(c)
            BY <2>2, <3>4
            DEF CallerNext, Preflight, AcknowledgeWake, StartReplay,
                SelectReplay, ReplayRow, FailPendingWake, EndReplay
        <5>2. inflight[c] \in Admission
            BY <5>1 DEF ClaimWake, LedgerInv, TypeOK, Replay, Idle
        <5> QED  BY <2>2, <5>1, <5>2 DEF ClaimWake
      <4> QED  BY <4>1 DEF WinTask, LedgerInv, TypeOK, TaskRow
    <3>5. CASE Tick \/ UNCHANGED vars
        BY <2>2, <3>5 DEF Tick, vars
    <3> QED  BY <3>1, <3>2, <3>3, <3>4, <3>5 DEF Next
  <2> QED  BY <2>1, <2>3 DEF MayComplete, CompletingStates, RetiredStates
<1>2. LedgerInv /\ [Next]_vars => [\A t \in Tasks : Fenced(t)]_vars
    BY <1>1
<1> QED  BY <1>2, LedgerInvariant, PTL DEF Spec, FencedCompletion

\* The relay's store keeps the promise of TaskGrant: its first state and each of
\* its steps is one of TaskGrant's, or leaves grants and retirements alone.
THEOREM StoreImplementsTaskGrant == Spec => ImplementsTaskGrant
<1> DEFINE g == [t \in Tasks |-> [state |-> tasks[t].state,
                                  holder |-> tasks[t].claimant]]
           R == {s \in Sessions : sessions[s].state \in RetiredStates}
<1>1. Init => Grants!Init
    BY DEF Init, Grants!Init, NoTask, NoSession, RetiredStates
<1>2. LedgerInv /\ [Next]_vars => [Grants!Next]_<<g, R>>
  <2> SUFFICES ASSUME LedgerInv, [Next]_vars
               PROVE  Grants!Next \/ UNCHANGED <<g, R>>
      OBVIOUS
  <2>1. CASE SessionNext
    <3>1. UNCHANGED g
        BY <2>1
        DEF SessionNext, RegisterSession, HeartbeatSession, UnregisterSession
    <3>2. PICK s \in Sessions, seat \in Seats :
              \/ \E seconds \in LeaseSeconds, can \in Capabilities :
                     RegisterSession(s, seat, seconds, can)
              \/ \E state \in Reports : HeartbeatSession(seat, s, state)
              \/ UnregisterSession(seat, s)
        BY <2>1 DEF SessionNext
    <3>3. \/ R' = R
          \/ R' = R \cup {s}
      <4>1. CASE \E seconds \in LeaseSeconds, can \in Capabilities :
                     RegisterSession(s, seat, seconds, can)
          BY <4>1 DEF RegisterSession, Registered, RetiredStates, LedgerInv, TypeOK
      <4>2. CASE \E state \in Reports : HeartbeatSession(seat, s, state)
        <5>1. PICK state \in Reports : HeartbeatSession(seat, s, state)
            BY <4>2
        <5>2. state = None \/ state \notin RetiredStates
            BY ConstantsAssumption DEF RetiredStates
        <5> QED  BY <5>1, <5>2 DEF HeartbeatSession, LedgerInv, TypeOK, SessionRow
      <4>3. CASE UnregisterSession(seat, s)
          BY <4>3 DEF UnregisterSession, RetiredStates, LedgerInv, TypeOK, SessionRow
      <4> QED  BY <3>2, <4>1, <4>2, <4>3
    <3> QED  BY <3>1, <3>3 DEF Grants!Next, Grants!Retire
  <2>2. CASE TaskNext
    <3>1. UNCHANGED R
        BY <2>2 DEF TaskNext, AddTask, CancelTask, CompleteTask
    <3>2. ASSUME NEW t \in Tasks, AddTask(t) PROVE Grants!Grant(t)
      <4>1. /\ tasks[t].state = "none" /\ tasks[t].claimant = None
            /\ tasks' = [tasks EXCEPT ![t].state = "open"]
          BY <3>2 DEF AddTask, LedgerInv, ClaimsAgree
      <4>2. /\ tasks'[t].state = "open" /\ tasks'[t].claimant = None
            /\ \A u \in Tasks \ {t} : tasks'[u] = tasks[u]
          BY <4>1 DEF LedgerInv, TypeOK, TaskRow
      <4>3. g' = [g EXCEPT ![t] = [state |-> "open", holder |-> None]]
          BY <4>2
      <4> QED  BY <3>1, <4>1, <4>3 DEF Grants!Grant
    <3>3. ASSUME NEW t \in Tasks, CancelTask(t) PROVE Grants!Withdraw(t)
        BY <3>1, <3>3 DEF CancelTask, Grants!Withdraw, LedgerInv, TypeOK,
                          TaskRow, TaskStates
    <3>4. ASSUME NEW t \in Tasks, NEW seat \in Seats, NEW s \in Sessions,
                 NEW o \in {"completed", "failed"}, CompleteTask(t, seat, s, o)
          PROVE  Grants!Finish(t, o) \/ UNCHANGED g
      <4>1. CASE UNCHANGED tasks
          BY <4>1
      <4>2. ASSUME tasks' # tasks PROVE Grants!Finish(t, o)
        <5>1. /\ tasks[t].state = "claimed" /\ tasks[t].claimant = s
              /\ MayComplete(s)
              /\ tasks' = [tasks EXCEPT ![t].state = o]
            BY <3>4, <4>2 DEF CompleteTask
        <5>2. /\ tasks'[t].state = o /\ tasks'[t].claimant = tasks[t].claimant
              /\ \A u \in Tasks \ {t} : tasks'[u] = tasks[u]
            BY <5>1 DEF LedgerInv, TypeOK, TaskRow
        <5>3. g' = [g EXCEPT ![t].state = o]
            BY <5>2
        <5>4. tasks[t].claimant \notin R
            BY <5>1 DEF MayComplete, CompletingStates, RetiredStates
        <5> QED  BY <3>1, <5>1, <5>3, <5>4 DEF Grants!Finish
      <4> QED  BY <4>1, <4>2
    <3> QED  BY <2>2, <3>1, <3>2, <3>3, <3>4 DEF TaskNext, Grants!Next
  <2>3. CASE WakeNext
      BY <2>3, WakeStepFrame
  <2>4. CASE CallerNext
    <3>1. CASE UNCHANGED tasks
        BY <2>4, <3>1
        DEF CallerNext, Preflight, AcknowledgeWake, ClaimWake, StartReplay,
            SelectReplay, ReplayRow, FailPendingWake, EndReplay
    <3>2. ASSUME tasks' # tasks PROVE Grants!Next
      <4>1. PICK c \in Callers : ClaimWake(c)
          BY <2>4, <3>2
          DEF CallerNext, Preflight, AcknowledgeWake, StartReplay,
              SelectReplay, ReplayRow, FailPendingWake, EndReplay
      <4> DEFINE r == inflight[c]
                 t == wakes[r.wake].task
      <4>2. r \in Admission
          BY <4>1 DEF ClaimWake, LedgerInv, TypeOK, Replay, Idle
      <4>3. ClaimWins(r) /\ WinTask(r) /\ UNCHANGED sessions
          BY <3>2, <4>1 DEF ClaimWake
      <4>4. t \in Tasks /\ r.session \in Sessions
          BY <4>2, <4>3 DEF Admission, ClaimWins, ClaimAdmitted, ClaimAddressed,
                            OpenWakeStates, LedgerInv, TypeOK
      <4>5. PICK u \in Tasks, s \in Sessions : u = t /\ s = r.session
          BY <4>4
      <4>6. Grants!Take(u, s)
          BY <4>3, <4>5
          DEF ClaimWins, ClaimAdmitted, ClaimSession, LiveStates, RetiredStates,
              WinTask, Grants!Take, LedgerInv, TypeOK, TaskRow
      <4> QED  BY <4>6 DEF Grants!Next
    <3> QED  BY <3>1, <3>2
  <2>5. CASE Tick \/ UNCHANGED vars
      BY <2>5 DEF Tick, vars
  <2> QED  BY <2>1, <2>2, <2>3, <2>4, <2>5 DEF Next
<1> QED  BY <1>1, <1>2, LedgerInvariant, PTL
         DEF Spec, ImplementsTaskGrant, Grants!Spec

(***************************************************************************)
(* What a step may do to a wake.                                           *)
(***************************************************************************)

\* The moves every UPDATE of wire_wakes makes: a wake that is refused as
\* failed announces a task that is not open in that very state.
StateMove(w) ==
    LET old == wakes[w].state  new == wakes'[w].state
    IN  \/ new = old
        \/ old = "none" /\ new \in {"pending", "failed", "ambiguous"}
        \/ old = "pending" /\ new = "delivered"
        \/ old \in OpenWakeStates /\ new \in {"claimed", "expired", "cancelled"}
        \/ /\ old \in OpenWakeStates /\ new = "failed"
           /\ tasks[wakes[w].task].state # "open"
        \/ old = "claimed" /\ new \in {"completed", "failed"}

\* The columns that say what a wake is; only the INSERT writes them.
Identity(w) == <<wakes[w].task, wakes[w].by, wakes[w].key>>

Moves == \A w \in Wakes : StateMove(w)

\* What the catch-up query knows of its batch: a wake it is about to mark
\* announces a task that was settled when it was read, and still is.
MarksAreDue ==
    \A c \in Callers : inflight[c].op = "replay" =>
        /\ \A w \in inflight[c].rows : wakes[w].state # "none"
        /\ inflight[c].failing # 0 =>
               LET w == inflight[c].failing
               IN  /\ wakes[w].state # "none"
                   /\ tasks[wakes[w].task].state \notin {"none", "open"}

\* Nothing but an INSERT writes those columns, or makes a row.
KeepsColumns == \A w \in Wakes : Identity(w)' = Identity(w)
KeepsRows ==
    KeepsColumns /\ \A w \in Wakes : wakes[w].state = "none" => wakes'[w].state = "none"

LEMMA SetWakesMoves ==
    ASSUME TypeOK, NEW W, NEW state, SetWakes(W, state)
    PROVE  /\ KeepsColumns
           /\ \A w \in Wakes : wakes'[w].state = IF w \in W THEN state ELSE wakes[w].state
BY DEF TypeOK, WakeRow, SetWakes, KeepsColumns, Identity

\* The same for open wakes that are settled, whatever for.
LEMMA SettlingMoves ==
    ASSUME TypeOK, NEW W, NEW state, SetWakes(W, state),
           \A w \in W \cap Wakes : wakes[w].state \in OpenWakeStates,
           \/ state \in {"claimed", "expired", "cancelled"}
           \/ state = "delivered" /\ \A w \in W \cap Wakes : wakes[w].state = "pending"
           \/ state = "failed" /\ \A w \in W \cap Wakes : tasks[wakes[w].task].state # "open"
    PROVE  Moves /\ KeepsRows
<1>1. /\ KeepsColumns
      /\ \A w \in Wakes : wakes'[w].state = IF w \in W THEN state ELSE wakes[w].state
    BY SetWakesMoves
<1>2. ASSUME NEW w \in Wakes PROVE StateMove(w)
  <2>1. CASE w \in W
      BY <1>1, <2>1 DEF StateMove
  <2>2. CASE w \notin W
      BY <1>1, <2>2 DEF StateMove
  <2> QED  BY <2>1, <2>2
<1>3. \A w \in Wakes : wakes[w].state = "none" => wakes'[w].state = "none"
    BY <1>1 DEF OpenWakeStates
<1> QED  BY <1>1, <1>2, <1>3 DEF Moves, KeepsRows

LEMMA StillMoves ==
    ASSUME UNCHANGED wakes
    PROVE  Moves /\ KeepsRows
BY DEF Moves, StateMove, KeepsRows, KeepsColumns, Identity

LEMMA RequestMoves ==
    ASSUME TypeOK, NEW by \in Seats, NEW target \in Seats, NEW t \in Tasks,
           NEW explicit \in Sessions \cup {None}, NEW key, NEW priority, NEW ttl,
           RequestWake(by, target, t, explicit, key, priority, ttl)
    PROVE  \E w \in Wakes : /\ wakes[w].state = "none" /\ StateMove(w)
                            /\ wakes'[w].task = t /\ wakes'[w].by = by
                            /\ wakes'[w].key = key
                            /\ \A v \in Wakes \ {w} : wakes'[v] = wakes[v]
<1>1. PICK w \in Wakes :
          /\ wakes[w].state = "none"
          /\ wakes' = [wakes EXCEPT ![w] =
                 [state |-> Resolution(target, explicit).state,
                  seat |-> target,
                  session |-> Resolution(target, explicit).session,
                  explicit |-> explicit, task |-> t, by |-> by, key |-> key,
                  priority |-> priority,
                  ttl |-> IF ttl = None THEN None ELSE now + ttl,
                  claimant |-> None, attempts |-> 0]]
    BY DEF RequestWake
<1>2. Resolution(target, explicit).state \in {"pending", "failed", "ambiguous"}
  <2>1. \A s : Settled(s).state \in {"pending", "failed", "ambiguous"}
      BY DEF Settled
  <2>2. \A state : Unsettled(state).state = state
      BY DEF Unsettled
  <2>3. CASE explicit # None
      BY <2>1, <2>3 DEF Resolution
  <2>4. CASE explicit = None /\ \E s \in Sessions : CapableSessions(target) = {s}
      BY <2>1, <2>4 DEF Resolution
  <2>5. CASE explicit = None /\ ~ \E s \in Sessions : CapableSessions(target) = {s}
      BY <2>2, <2>5 DEF Resolution
  <2> QED  BY <2>3, <2>4, <2>5
<1>3. /\ wakes'[w].state = Resolution(target, explicit).state
      /\ wakes'[w].task = t /\ wakes'[w].by = by /\ wakes'[w].key = key
      /\ \A v \in Wakes \ {w} : wakes'[v] = wakes[v]
    BY <1>1 DEF TypeOK
<1> QED  BY <1>1, <1>2, <1>3 DEF StateMove

LEMMA CallerMoves ==
    ASSUME TypeOK, MarksAreDue, CallerNext
    PROVE  Moves /\ KeepsRows
<1>1. ASSUME NEW c \in Callers, NEW op, NEW w \in Wakes, NEW seat, NEW s,
             Preflight(c, op, w, seat, s)
      PROVE  Moves /\ KeepsRows
  <2>1. SetWakes({w} \cap {v \in Wakes : Stale(v)}, "expired")
      BY <1>1 DEF Preflight
  <2>2. \A v \in {w} \cap {v \in Wakes : Stale(v)} : wakes[v].state \in OpenWakeStates
      BY DEF Stale
  <2> QED  BY <2>1, <2>2, SettlingMoves
<1>2. ASSUME NEW c \in Callers, AcknowledgeWake(c) PROVE Moves /\ KeepsRows
  <2> DEFINE r == inflight[c]
  <2>1. CASE AckExpires(r) /\ SetWakes({r.wake}, "expired")
      BY <2>1, SettlingMoves DEF AckExpires, Stale
  <2>2. CASE AckDelivers(r) /\ SetWakes({r.wake}, "delivered")
      BY <2>2, SettlingMoves DEF AckDelivers, OpenWakeStates
  <2>3. CASE UNCHANGED wakes
      BY <2>3, StillMoves
  <2> QED  BY <1>2, <2>1, <2>2, <2>3 DEF AcknowledgeWake
<1>3. ASSUME NEW c \in Callers, ClaimWake(c) PROVE Moves /\ KeepsRows
  <2> DEFINE r == inflight[c]
  <2>1. CASE ClaimWins(r) /\ WinTask(r)
    <3>1. wakes[r.wake].state \in OpenWakeStates
        BY <2>1 DEF ClaimWins, ClaimAdmitted, ClaimAddressed
    <3>2. \A w \in Wakes :
              /\ wakes'[w].state = IF w = r.wake THEN "claimed" ELSE wakes[w].state
              /\ wakes'[w].task = wakes[w].task /\ wakes'[w].by = wakes[w].by
              /\ wakes'[w].key = wakes[w].key
        BY <2>1 DEF WinTask, TypeOK, WakeRow
    <3> QED  BY <3>1, <3>2
             DEF Moves, StateMove, KeepsRows, KeepsColumns, Identity, OpenWakeStates
  <2>2. CASE ClaimExpires(r) /\ SetWakes({r.wake}, "expired")
      BY <2>2, SettlingMoves DEF ClaimExpires, ClaimAddressed
  <2>3. CASE ClaimLoses(r) /\ SetWakes({r.wake}, "failed")
      BY <2>3, SettlingMoves DEF ClaimLoses, ClaimAdmitted, ClaimAddressed
  <2>4. CASE UNCHANGED wakes
      BY <2>4, StillMoves
  <2> QED  BY <1>3, <2>1, <2>2, <2>3, <2>4 DEF ClaimWake
<1>4. ASSUME NEW c \in Callers, NEW seat, NEW s, StartReplay(c, seat, s)
      PROVE  Moves /\ KeepsRows
    BY <1>4, SettlingMoves DEF StartReplay, StaleWakesOf, Stale
<1>5. ASSUME NEW c \in Callers, FailPendingWake(c) PROVE Moves /\ KeepsRows
  <2> DEFINE W == {inflight[c].failing} \cap {v \in Wakes : wakes[v].state = "pending"}
  <2>1. SetWakes(W, "failed")
      BY <1>5 DEF FailPendingWake
  <2>2. \A v \in W \cap Wakes : /\ wakes[v].state \in OpenWakeStates
                                /\ tasks[wakes[v].task].state # "open"
      BY <1>5 DEF FailPendingWake, MarksAreDue, OpenWakeStates
  <2> HIDE DEF W
  <2> QED  BY <2>1, <2>2, SettlingMoves
<1>6. ASSUME NEW c \in Callers,
             SelectReplay(c) \/ EndReplay(c) \/ \E w \in Wakes : ReplayRow(c, w)
      PROVE  Moves /\ KeepsRows
    BY <1>6, StillMoves DEF SelectReplay, ReplayRow, EndReplay
<1> QED  BY <1>1, <1>2, <1>3, <1>4, <1>5, <1>6 DEF CallerNext

LEMMA TaskMoves ==
    ASSUME TypeOK, TaskNext
    PROVE  Moves /\ KeepsRows
<1>1. ASSUME NEW t \in Tasks, AddTask(t) PROVE Moves /\ KeepsRows
    BY <1>1, StillMoves DEF AddTask
<1>2. ASSUME NEW t \in Tasks, CancelTask(t) PROVE Moves /\ KeepsRows
    BY <1>2, SettlingMoves DEF CancelTask
<1>3. ASSUME NEW t \in Tasks, NEW seat, NEW s \in Sessions,
             NEW o \in {"completed", "failed"}, CompleteTask(t, seat, s, o)
      PROVE  Moves /\ KeepsRows
  <2>1. PICK state \in {"completed", "failed"} : SetWakes(ClaimedWakes(t, s), state)
      BY <1>3 DEF CompleteTask
  <2>2. KeepsColumns /\ \A w \in Wakes : wakes'[w].state =
            IF w \in ClaimedWakes(t, s) THEN state ELSE wakes[w].state
      BY <2>1, SetWakesMoves
  <2>3. \A w \in ClaimedWakes(t, s) : wakes[w].state = "claimed"
      BY DEF ClaimedWakes
  <2> QED  BY <2>2, <2>3 DEF Moves, StateMove, KeepsRows
<1> QED  BY <1>1, <1>2, <1>3 DEF TaskNext

\* Every step moves wakes along the state diagram, and only a request makes a
\* new one.
LEMMA StepMoves ==
    ASSUME TypeOK, MarksAreDue, [Next]_vars
    PROVE  /\ Moves
           /\ \/ KeepsRows
              \/ \E by \in Seats, target \in Seats, t \in Tasks,
                    explicit \in Sessions \cup {None}, key \in Keys \cup {None},
                    priority \in Priorities, ttl \in Ttls :
                     RequestWake(by, target, t, explicit, key, priority, ttl)
<1>1. CASE SessionNext
    BY <1>1, StillMoves
    DEF SessionNext, RegisterSession, HeartbeatSession, UnregisterSession
<1>2. CASE TaskNext
    BY <1>2, TaskMoves
<1>3. CASE WakeNext
  <2>1. ASSUME NEW by \in Seats, NEW target \in Seats, NEW t \in Tasks,
               NEW explicit \in Sessions \cup {None}, NEW key \in Keys \cup {None},
               NEW priority \in Priorities, NEW ttl \in Ttls,
               RequestWake(by, target, t, explicit, key, priority, ttl)
        PROVE  Moves
    <3>1. PICK w \in Wakes : /\ StateMove(w)
                             /\ \A v \in Wakes \ {w} : wakes'[v] = wakes[v]
        BY <2>1, RequestMoves
    <3> QED  BY <3>1 DEF Moves, StateMove
  <2>2. ASSUME NEW w \in Wakes, GetWake(w) PROVE Moves /\ KeepsRows
      BY <2>2, SettlingMoves DEF GetWake, Stale
  <2>3. ASSUME NEW w \in Wakes, RecordWakeAttempt(w) PROVE Moves /\ KeepsRows
      BY <2>3
      DEF RecordWakeAttempt, Moves, StateMove, KeepsRows, KeepsColumns, Identity,
          TypeOK, WakeRow
  <2>4. ASSUME NEW seat \in Seats, ListWakes(seat) PROVE Moves /\ KeepsRows
      BY <2>4, SettlingMoves DEF ListWakes, StaleWakesOf, Stale
  <2> QED  BY <1>3, <2>1, <2>2, <2>3, <2>4 DEF WakeNext
<1>4. CASE CallerNext
    BY <1>4, CallerMoves
<1>5. CASE Tick \/ UNCHANGED vars
    BY <1>5, StillMoves DEF Tick, vars
<1> QED  BY <1>1, <1>2, <1>3, <1>4, <1>5 DEF Next

(***************************************************************************)
(* A wake announces a task that exists, a key is bound to one wake, and    *)
(* the catch-up query marks only wakes whose task is settled.              *)
(***************************************************************************)
TasksExist ==
    \A w \in Wakes : wakes[w].state # "none" => tasks[wakes[w].task].state # "none"

QueueInv == TypeOK /\ TasksExist /\ KeyBindsOneWake /\ MarksAreDue

\* No task leaves the ledger, and none is opened twice.
LEMMA TasksStay ==
    ASSUME TypeOK, [Next]_vars, NEW t \in Tasks, tasks[t].state # "none"
    PROVE  /\ tasks'[t].state # "none"
           /\ tasks[t].state # "open" => tasks'[t].state # "open"
<1> DEFINE Stays == /\ tasks'[t].state # "none"
                    /\ tasks[t].state # "open" => tasks'[t].state # "open"
<1>1. CASE UNCHANGED tasks
    BY <1>1
<1>2. CASE TaskNext
  <2>1. ASSUME NEW u \in Tasks, AddTask(u) \/ CancelTask(u) PROVE Stays
      BY <2>1 DEF AddTask, CancelTask, TypeOK, TaskRow
  <2>2. ASSUME NEW u \in Tasks, NEW seat, NEW s, NEW o \in {"completed", "failed"},
               CompleteTask(u, seat, s, o)
        PROVE  Stays
      BY <2>2 DEF CompleteTask, TypeOK, TaskRow
  <2> QED  BY <1>2, <2>1, <2>2 DEF TaskNext
<1>3. ASSUME NEW c \in Callers, ClaimWake(c) PROVE Stays
    BY <1>3 DEF ClaimWake, WinTask, TypeOK, TaskRow
<1>4. CASE SessionNext
    BY <1>1, <1>4
    DEF SessionNext, RegisterSession, HeartbeatSession, UnregisterSession
<1>5. CASE WakeNext
    BY <1>1, <1>5, WakeStepFrame
<1>6. CASE CallerNext
    BY <1>1, <1>3, <1>6
    DEF CallerNext, Preflight, AcknowledgeWake, StartReplay, SelectReplay,
        ReplayRow, FailPendingWake, EndReplay
<1> QED  BY <1>1, <1>2, <1>4, <1>5, <1>6 DEF Next, Tick, vars

\* No wake leaves the queue or announces another task.
LEMMA WakesStay ==
    ASSUME TypeOK, MarksAreDue, [Next]_vars, NEW w \in Wakes, wakes[w].state # "none"
    PROVE  wakes'[w].state # "none" /\ wakes'[w].task = wakes[w].task
<1>1. wakes'[w].state # "none"
    BY StepMoves DEF Moves, StateMove
<1>2. CASE KeepsRows
    BY <1>1, <1>2 DEF KeepsRows, KeepsColumns, Identity
<1>3. ASSUME NEW by \in Seats, NEW target \in Seats, NEW t \in Tasks,
             NEW explicit \in Sessions \cup {None}, NEW key \in Keys \cup {None},
             NEW priority \in Priorities, NEW ttl \in Ttls,
             RequestWake(by, target, t, explicit, key, priority, ttl)
      PROVE  wakes'[w].task = wakes[w].task
    BY <1>3, RequestMoves
<1> QED  BY <1>1, <1>2, <1>3, StepMoves

\* The catch-up query comes to mark a wake only through reading its task, and
\* reads only wakes of its batch.
LEMMA MarksStep ==
    ASSUME TypeOK, TasksExist, MarksAreDue, [Next]_vars
    PROVE  MarksAreDue'
<1> SUFFICES ASSUME NEW c \in Callers, inflight'[c].op = "replay"
             PROVE  /\ \A w \in inflight'[c].rows : wakes'[w].state # "none"
                    /\ inflight'[c].failing # 0 =>
                           /\ wakes'[inflight'[c].failing].state # "none"
                           /\ tasks'[wakes'[inflight'[c].failing].task].state
                                  \notin {"none", "open"}
    BY DEF MarksAreDue
<1> DEFINE r == inflight[c]
           q == inflight'[c]
           Row(w) == wakes[w].state # "none"
           RowNow(w) == wakes'[w].state # "none"
           Due(w) == Row(w) /\ tasks[wakes[w].task].state \notin {"none", "open"}
           DueNow(w) == RowNow(w) /\ tasks'[wakes'[w].task].state \notin {"none", "open"}
           Goal == /\ \A w \in q.rows : RowNow(w)
                   /\ q.failing # 0 => DueNow(q.failing)
<1>1. \A w \in Wakes : Row(w) => RowNow(w)
    BY WakesStay
<1>2. ASSUME NEW w \in Wakes, Due(w) PROVE DueNow(w)
  <2>1. wakes'[w].task = wakes[w].task /\ wakes[w].task \in Tasks
      BY <1>2, WakesStay DEF TypeOK
  <2> QED  BY <1>1, <1>2, <2>1, TasksStay
<1>3. r.op = "replay" => /\ r.rows \subseteq Wakes /\ r.failing \in {0} \cup Wakes
                         /\ \A w \in r.rows : Row(w)
                         /\ r.failing # 0 => Due(r.failing)
    BY DEF TypeOK, Replay, Admission, Idle, MarksAreDue
<1>4. ASSUME r.op = "replay", q.rows \subseteq r.rows, q.failing \in {0, r.failing}
      PROVE  Goal
  <2>1. \A w \in q.rows : RowNow(w)
      BY <1>1, <1>3, <1>4
  <2>2. q.failing # 0 => q.failing \in Wakes /\ Due(q.failing)
      BY <1>3, <1>4
  <2> HIDE DEF Due, DueNow, q
  <2> QED  BY <1>2, <2>1, <2>2
<1>5. ASSUME NEW seat, NEW s, StartReplay(c, seat, s) PROVE q.rows = {} /\ q.failing = 0
    BY <1>5 DEF StartReplay, TypeOK
<1>6. ASSUME SelectReplay(c) PROVE Goal
  <2>1. \A w \in FirstBatch(r) : w \in Wakes /\ Row(w)
      BY DEF FirstBatch, Eligible
  <2>2. q.rows = FirstBatch(r) /\ q.failing = r.failing /\ r.op = "replay"
      BY <1>6 DEF SelectReplay, TypeOK, Replay, Admission, Idle
  <2>3. q.rows \subseteq Wakes /\ \A w \in q.rows : RowNow(w)
      BY <1>1, <2>1, <2>2
  <2>4. q.failing # 0 => q.failing \in Wakes /\ Due(q.failing)
      BY <1>3, <2>2
  <2> HIDE DEF Due, DueNow, q
  <2> QED  BY <1>2, <2>3, <2>4
<1>7. ASSUME NEW w \in Wakes, ReplayRow(c, w)
      PROVE  Goal
  <2>1. r.op = "replay" /\ w \in r.rows /\ r.failing = 0 /\ r \in Replay
      BY <1>7 DEF ReplayRow, TypeOK, Admission, Idle
  <2>2. q = IF tasks[wakes[w].task].state = "open"
            THEN [r EXCEPT !.rows = @ \ {w}, !.offered = @ \cup {w}]
            ELSE [r EXCEPT !.rows = @ \ {w}, !.failing = w]
      BY <1>7 DEF ReplayRow, TypeOK
  <2>3. q.rows \subseteq r.rows
        /\ q.failing = IF tasks[wakes[w].task].state = "open" THEN 0 ELSE w
      BY <2>1, <2>2 DEF Replay
  <2>4. q.failing # 0 => q.failing \in Wakes /\ Due(q.failing)
      BY <1>3, <1>7, <2>1, <2>3 DEF TasksExist
  <2>5. \A v \in q.rows : RowNow(v)
      BY <1>1, <1>3, <2>1, <2>3
  <2> HIDE DEF Due, DueNow, q
  <2> QED  BY <1>2, <2>4, <2>5
<1>8. ASSUME FailPendingWake(c) PROVE Goal
  <2>1. r \in Replay /\ q = [r EXCEPT !.failing = 0]
      BY <1>8 DEF FailPendingWake, TypeOK, Admission, Idle
  <2> QED  BY <1>4, <2>1 DEF Replay
<1>9. ASSUME q = r PROVE Goal
    BY <1>4, <1>9
<1>10. CASE CallerNext
  <2>1. PICK d \in Callers :
            \/ \E op \in Ops \cap {"ack", "claim"}, w \in Wakes, seat \in Seats,
                  s \in Sessions : Preflight(d, op, w, seat, s)
            \/ AcknowledgeWake(d) \/ ClaimWake(d) \/ EndReplay(d)
            \/ \E seat \in Seats, s \in Sessions \cup {None} : StartReplay(d, seat, s)
            \/ SelectReplay(d)
            \/ \E w \in Wakes : ReplayRow(d, w)
            \/ FailPendingWake(d)
      BY <1>10 DEF CallerNext
  <2>2. \E v : inflight' = [inflight EXCEPT ![d] = v]
      BY <2>1 DEF Preflight, AcknowledgeWake, ClaimWake, StartReplay, SelectReplay,
                  ReplayRow, FailPendingWake, EndReplay
  <2>3. CASE c # d
      BY <1>9, <2>2, <2>3 DEF TypeOK
  <2>4. ~(AcknowledgeWake(c) \/ ClaimWake(c) \/ EndReplay(c))
      BY DEF AcknowledgeWake, ClaimWake, EndReplay, TypeOK, Idle
  <2>5. ASSUME NEW op \in {"ack", "claim"}, NEW w, NEW seat, NEW s
        PROVE  ~Preflight(c, op, w, seat, s)
      BY DEF Preflight, TypeOK
  <2> QED  BY <2>1, <2>3, <2>4, <2>5, <1>5, <1>6, <1>7, <1>8
<1>11. CASE SessionNext
    BY <1>9, <1>11
    DEF SessionNext, RegisterSession, HeartbeatSession, UnregisterSession
<1>12. CASE TaskNext
    BY <1>9, <1>12 DEF TaskNext, AddTask, CancelTask, CompleteTask
<1>13. CASE WakeNext
    BY <1>9, <1>13, WakeStepFrame
<1> QED  BY <1>9, <1>10, <1>11, <1>12, <1>13 DEF Next, Tick, vars

LEMMA QueueStep == QueueInv /\ [Next]_vars => QueueInv'
<1> SUFFICES ASSUME QueueInv, [Next]_vars PROVE TasksExist' /\ KeyBindsOneWake'
    BY TypeStep, MarksStep DEF QueueInv
<1>1. ASSUME NEW w \in Wakes, wakes[w].state # "none", wakes'[w].task = wakes[w].task
      PROVE  tasks'[wakes'[w].task].state # "none"
  <2>1. wakes[w].task \in Tasks /\ tasks[wakes[w].task].state # "none"
      BY <1>1 DEF QueueInv, TypeOK, TasksExist
  <2> QED  BY <1>1, <2>1, TasksStay DEF QueueInv
<1>2. CASE KeepsRows
  <2>1. \A w \in Wakes : /\ wakes'[w].task = wakes[w].task
                         /\ wakes'[w].by = wakes[w].by /\ wakes'[w].key = wakes[w].key
      BY <1>2 DEF KeepsRows, KeepsColumns, Identity
  <2>2. KeyBindsOneWake'
      BY <2>1 DEF QueueInv, KeyBindsOneWake
  <2> QED  BY <1>1, <1>2, <2>1, <2>2 DEF TasksExist, KeepsRows
<1>3. ASSUME NEW by \in Seats, NEW target \in Seats, NEW t \in Tasks,
             NEW explicit \in Sessions \cup {None}, NEW key \in Keys \cup {None},
             NEW priority \in Priorities, NEW ttl \in Ttls,
             RequestWake(by, target, t, explicit, key, priority, ttl)
      PROVE  TasksExist' /\ KeyBindsOneWake'
  <2>1. PICK w \in Wakes : /\ wakes[w].state = "none"
                           /\ wakes'[w].task = t /\ wakes'[w].by = by
                           /\ wakes'[w].key = key
                           /\ \A v \in Wakes \ {w} : wakes'[v] = wakes[v]
      BY <1>3, RequestMoves DEF QueueInv
  <2>2. /\ tasks[t].state # "none" /\ tasks' = tasks
        /\ \A v \in Wakes : key # None => ~(wakes[v].by = by /\ wakes[v].key = key)
      BY <1>3 DEF RequestWake, AcceptsWakes, Keyed
  <2>3. TasksExist'
      BY <1>1, <2>1, <2>2 DEF TasksExist
  <2>4. KeyBindsOneWake'
      BY <2>1, <2>2 DEF QueueInv, KeyBindsOneWake
  <2> QED  BY <2>3, <2>4
<1> QED  BY <1>2, <1>3, StepMoves DEF QueueInv

LEMMA QueueInvariant == Spec => []QueueInv
<1>1. Init => TasksExist /\ KeyBindsOneWake /\ MarksAreDue
    BY DEF TasksExist, KeyBindsOneWake, MarksAreDue, Init, NoWake, Idle
<1>2. TypeOK /\ TasksExist /\ KeyBindsOneWake /\ MarksAreDue /\ [Next]_vars
          => TasksExist' /\ KeyBindsOneWake' /\ MarksAreDue'
    BY QueueStep DEF QueueInv
<1>3. QueueInv <=> TypeOK /\ TasksExist /\ KeyBindsOneWake /\ MarksAreDue
    BY DEF QueueInv
<1> QED  BY <1>1, <1>2, <1>3, TypeCorrect, PTL DEF Spec

\* A wake is never revived, never returned to pending, and never expired or
\* cancelled once a session has claimed it, for any number of wakes, callers,
\* sessions and tasks.
THEOREM WakesFollowTheDiagram == Spec => WakeLifecycle
<1> DEFINE Legal(w) ==
          LET old == wakes[w].state  new == wakes'[w].state
          IN  old # new =>
                 \/ old = "none" /\ new \in {"pending", "failed", "ambiguous"}
                 \/ old = "pending" /\ new \in {"delivered", "claimed", "failed",
                                                "expired", "cancelled"}
                 \/ old = "delivered" /\ new \in {"claimed", "failed",
                                                  "expired", "cancelled"}
                 \/ old = "claimed" /\ new \in {"completed", "failed"}
<1>1. ASSUME QueueInv, [Next]_vars, NEW w \in Wakes PROVE Legal(w)
    BY <1>1, StepMoves DEF QueueInv, Moves, StateMove, OpenWakeStates
<1>2. QueueInv /\ [Next]_vars => [\A w \in Wakes : Legal(w)]_vars
    BY <1>1
<1> QED  BY <1>2, QueueInvariant, PTL DEF Spec, WakeLifecycle

\* A requester that retries with the same key never gets a second wake, however
\* many requesters, wakes and keys there are and whatever became of the first
\* wake and of its task (request_wake's lookup on the idempotency key).
THEOREM OneWakePerKey == Spec => []KeyBindsOneWake
<1>1. QueueInv => KeyBindsOneWake
    BY DEF QueueInv
<1> QED  BY <1>1, QueueInvariant, PTL

\* A wake nobody has claimed is refused as failed only while it is queued and
\* its task can no longer be won in the very state the mark commits in, although
\* the catch-up query marks on a task it read in an earlier transaction: what
\* the operator cancels and the relay expires in between stays as it is.
THEOREM RefusalsAreHonest == Spec => HonestRefusal
<1> DEFINE Honest(w) ==
          /\ wakes[w].state \notin {"none", "claimed", "failed"}
          /\ wakes'[w].state = "failed"
          => /\ wakes[w].state \in OpenWakeStates
             /\ tasks[wakes[w].task].state \notin {"none", "open"}
<1>1. ASSUME QueueInv, [Next]_vars, NEW w \in Wakes,
             wakes[w].state \notin {"none", "claimed", "failed"},
             wakes'[w].state = "failed"
      PROVE  /\ wakes[w].state \in OpenWakeStates
             /\ tasks[wakes[w].task].state \notin {"none", "open"}
  <2>1. StateMove(w)
      BY <1>1, StepMoves DEF Moves, QueueInv
  <2>2. wakes[w].state \in OpenWakeStates /\ tasks[wakes[w].task].state # "open"
      BY <1>1, <2>1 DEF StateMove
  <2>3. tasks[wakes[w].task].state # "none"
      BY <1>1 DEF QueueInv, TasksExist
  <2> QED  BY <2>2, <2>3
<1>2. QueueInv /\ [Next]_vars => [\A w \in Wakes : Honest(w)]_vars
    BY <1>1
<1> QED  BY <1>2, QueueInvariant, PTL DEF Spec, HonestRefusal

(***************************************************************************)
(* Admission.                                                              *)
(***************************************************************************)

\* Only its own second transaction ends an acknowledgement or a claim.
LEMMA OnlyAdmissionEnds ==
    ASSUME TypeOK, [Next]_vars, NEW c \in Callers,
           inflight[c].op \in {"ack", "claim"}, inflight'[c] = Idle
    PROVE  AcknowledgeWake(c) \/ ClaimWake(c)
<1>1. inflight'[c] # inflight[c]
    BY DEF Idle
<1>2. CASE CallerNext
  <2>1. PICK d \in Callers :
            \/ \E op \in Ops \cap {"ack", "claim"}, w \in Wakes, seat \in Seats,
                  s \in Sessions : Preflight(d, op, w, seat, s)
            \/ AcknowledgeWake(d)
            \/ ClaimWake(d)
            \/ \E seat \in Seats, s \in Sessions \cup {None} : StartReplay(d, seat, s)
            \/ SelectReplay(d)
            \/ \E w \in Wakes : ReplayRow(d, w)
            \/ FailPendingWake(d)
            \/ EndReplay(d)
      BY <1>2 DEF CallerNext
  <2>2. \E v : inflight' = [inflight EXCEPT ![d] = v]
      BY <2>1 DEF Preflight, AcknowledgeWake, ClaimWake, StartReplay, SelectReplay,
                  ReplayRow, FailPendingWake, EndReplay
  <2>3. c = d
      BY <1>1, <2>2 DEF TypeOK
  <2>4. inflight[c] # Idle /\ inflight[c].op # "replay"
      BY DEF Idle
  <2>5. \A op, w, seat, s : ~Preflight(c, op, w, seat, s)
      BY <2>4 DEF Preflight
  <2>6. \A seat, s, w : ~StartReplay(c, seat, s) /\ ~SelectReplay(c)
                          /\ ~ReplayRow(c, w) /\ ~FailPendingWake(c) /\ ~EndReplay(c)
      BY <2>4 DEF StartReplay, SelectReplay, ReplayRow, FailPendingWake, EndReplay
  <2> QED  BY <2>1, <2>3, <2>5, <2>6
<1>3. CASE SessionNext
    BY <1>1, <1>3
    DEF SessionNext, RegisterSession, HeartbeatSession, UnregisterSession
<1>4. CASE TaskNext
    BY <1>1, <1>4 DEF TaskNext, AddTask, CancelTask, CompleteTask
<1>5. CASE WakeNext
    BY <1>1, <1>5, WakeStepFrame
<1>6. CASE Tick \/ UNCHANGED vars
    BY <1>1, <1>6 DEF Tick, vars
<1> QED  BY <1>2, <1>3, <1>4, <1>5, <1>6 DEF Next

\* What the admitting transaction has checked when it writes delivered or
\* claimed.
LEMMA AdmissionChecks ==
    ASSUME TypeOK, NEW c \in Callers, AcknowledgeWake(c) \/ ClaimWake(c),
           wakes'[inflight[c].wake].state # wakes[inflight[c].wake].state,
           wakes'[inflight[c].wake].state \in {"delivered", "claimed"}
    PROVE  \/ AcknowledgeWake(c) /\ AckDelivers(inflight[c])
           \/ ClaimWake(c) /\ ClaimWins(inflight[c])
<1> DEFINE r == inflight[c]
<1>1. r.wake \in Wakes
    BY DEF TypeOK, AcknowledgeWake, ClaimWake, Idle, Admission, Replay
<1>2. ASSUME NEW state, SetWakes({r.wake}, state) PROVE wakes'[r.wake].state = state
    BY <1>1, <1>2, SetWakesMoves
<1>3. CASE AcknowledgeWake(c)
    BY <1>2, <1>3 DEF AcknowledgeWake
<1>4. CASE ClaimWake(c)
    BY <1>2, <1>4 DEF ClaimWake
<1> QED  BY <1>3, <1>4

\* Every acknowledgement and every claim, of any number of callers, is admitted
\* by what holds at that moment and not by what the preflight saw: the ttl
\* runs, and the session is addressed, live and capable.
THEOREM AdmissionIsInTime == Spec => AdmittedInTime
<1> DEFINE Due(c) ==
          LET r == inflight[c]
          IN  r.op \in {"ack", "claim"} /\ inflight'[c] = Idle
              /\ wakes'[r.wake].state # wakes[r.wake].state
              /\ wakes'[r.wake].state \in {"delivered", "claimed"}
                 => /\ wakes[r.wake].ttl # None => now < wakes[r.wake].ttl
                    /\ r.session \in LiveSessions(wakes[r.wake].seat)
                    /\ wakes[r.wake].session \in {None, r.session}
                    /\ IF r.op = "ack" THEN sessions[r.session].can.wakeAck
                                       ELSE sessions[r.session].can.claim
<1>1. ASSUME TypeOK, [Next]_vars, NEW c \in Callers PROVE Due(c)
  <2> DEFINE r == inflight[c]
  <2> SUFFICES ASSUME r.op \in {"ack", "claim"}, inflight'[c] = Idle,
                      wakes'[r.wake].state # wakes[r.wake].state,
                      wakes'[r.wake].state \in {"delivered", "claimed"}
               PROVE  /\ wakes[r.wake].ttl # None => now < wakes[r.wake].ttl
                      /\ r.session \in LiveSessions(wakes[r.wake].seat)
                      /\ wakes[r.wake].session \in {None, r.session}
                      /\ IF r.op = "ack" THEN sessions[r.session].can.wakeAck
                                         ELSE sessions[r.session].can.claim
      OBVIOUS
  <2>1. \/ AcknowledgeWake(c) /\ AckDelivers(r)
        \/ ClaimWake(c) /\ ClaimWins(r)
      BY <1>1, OnlyAdmissionEnds, AdmissionChecks
  <2>2. r.wake \in Wakes /\ r.session \in Sessions
      BY <1>1 DEF TypeOK, Idle, Admission, Replay
  <2>3. wakes[r.wake].ttl \in Nat \cup {None} /\ now \in Nat
      BY <1>1, <2>2 DEF TypeOK, WakeRow
  <2>4. /\ Addressed(r) /\ OwnSession(r) /\ Live(r.session) /\ ~TtlPassed(r.wake)
        /\ IF r.op = "ack" THEN sessions[r.session].can.wakeAck
                           ELSE sessions[r.session].can.claim
      BY <2>1 DEF AckDelivers, ClaimWins, ClaimAdmitted, ClaimAddressed, ClaimSession,
                  Stale, OpenWakeStates, Live, AcknowledgeWake, ClaimWake
  <2> QED  BY <2>2, <2>3, <2>4 DEF Addressed, OwnSession, LiveSessions, TtlPassed
<1>2. TypeOK /\ [Next]_vars => [\A c \in Callers : Due(c)]_vars
    BY <1>1
<1> QED  BY <1>2, TypeCorrect, PTL DEF Spec, AdmittedInTime
=============================================================================
