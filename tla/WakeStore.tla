------------------------------ MODULE WakeStore ------------------------------
(***************************************************************************)
(* The durable wake queue, session registry and task ledger of the relay   *)
(* (src/aivengers_wire/wake.py).  The three tables are the variables       *)
(* sessions, tasks and wakes; an action is one committed BEGIN IMMEDIATE   *)
(* transaction.  Operations that commit more than one transaction          *)
(* (wake_ack, wake_claim, the catch-up query of a watch) keep their        *)
(* request in inflight between two of them, so the clock, the operator's   *)
(* CLI and the other callers of the database interleave there.             *)
(*                                                                         *)
(* A refusal that writes nothing changes no table; when it ends an         *)
(* operation in flight it is an action that only clears inflight.          *)
(***************************************************************************)
EXTENDS Naturals, FiniteSets

CONSTANTS
    Seats,          \* seat names that exist in the seats table
    Sessions,       \* uuid4 values register_session may draw
    Tasks,          \* task ids the operator may add
    Keys,           \* idempotency keys requesters use
    Callers,        \* processes with a connection to the database
    None,           \* SQL NULL
    LeaseSeconds,   \* lease lengths a session may ask for
    Capabilities,   \* capability declarations a session may register with
    Reports,        \* states a heartbeat may report (None: keep the state)
    Ops,            \* multi-transaction operations the callers issue
    Ttls,           \* wake ttls a requester may ask for (None: no ttl)
    Priorities,     \* wake priorities (1 is served first)
    ReplayBatch,    \* PENDING_REPLAY_BATCH
    MaxWakes,       \* bound: rows in wire_wakes
    MaxGeneration,  \* bound: times a session is unregistered, plus one
    MaxAttempts,    \* bound: recorded transmissions of one wake
    MaxNow          \* bound: the clock

ASSUME ConstantsAssumption ==
    /\ None \notin Nat \cup Seats \cup Sessions \cup Keys
    /\ LeaseSeconds \subseteq Nat \ {0}
    /\ Capabilities \subseteq [wakeAck: BOOLEAN, claim: BOOLEAN]
    /\ Reports \subseteq {"ready", "busy", "draining", None}
    /\ Ops \subseteq {"ack", "claim", "replay"}
    /\ Ttls \subseteq (Nat \ {0}) \cup {None}
    /\ Priorities \subseteq Nat
    /\ ReplayBatch \in Nat \ {0}
    /\ MaxWakes \in Nat /\ MaxGeneration \in Nat
    /\ MaxAttempts \in Nat /\ MaxNow \in Nat

VARIABLES
    now,       \* the wall clock both processes read
    sessions,  \* wire_sessions
    tasks,     \* wire_tasks, and the fencing token the claim reply carried
    wakes,     \* wire_wakes
    inflight   \* per caller: the operation between two of its transactions

vars == <<now, sessions, tasks, wakes, inflight>>

(***************************************************************************)
(* Rows.  A row whose state is "none" is not in the table.  Wakes are      *)
(* numbered in the order of (created_at, wake_id).                         *)
(***************************************************************************)
Wakes == 1..MaxWakes

LiveStates == {"ready", "busy"}
CompletingStates == {"ready", "busy", "draining"}
RetiredStates == {"offline", "expired", "revoked"}
OpenWakeStates == {"pending", "delivered"}
WakeStates == OpenWakeStates \cup
    {"claimed", "completed", "failed", "expired", "cancelled", "ambiguous"}
TaskStates ==
    {"open", "claimed", "completed", "failed", "cancelled", "revoked"}

SessionRow ==
    [state: CompletingStates \cup RetiredStates \cup {"none"},
     seat: Seats \cup {None}, lease: Nat \cup {None},
     leaseSeconds: Nat, generation: Nat,
     can: [wakeAck: BOOLEAN, claim: BOOLEAN]]

TaskRow ==
    [state: TaskStates \cup {"none"}, claimant: Sessions \cup {None},
     fence: Nat \cup {None}]

WakeRow ==
    [state: WakeStates \cup {"none"}, seat: Seats \cup {None},
     session: Sessions \cup {None}, explicit: Sessions \cup {None},
     task: Tasks \cup {None}, by: Seats \cup {None}, key: Keys \cup {None},
     priority: Nat, ttl: Nat \cup {None},
     claimant: Sessions \cup {None}, attempts: Nat]

NoSession == [state |-> "none", seat |-> None, lease |-> None,
              leaseSeconds |-> 0, generation |-> 0,
              can |-> [wakeAck |-> FALSE, claim |-> FALSE]]
NoTask == [state |-> "none", claimant |-> None, fence |-> None]
NoWake == [state |-> "none", seat |-> None, session |-> None,
           explicit |-> None, task |-> None, by |-> None, key |-> None,
           priority |-> 0, ttl |-> None, claimant |-> None, attempts |-> 0]

Idle == [op |-> "idle"]
Admission ==
    [op: {"ack", "claim"}, wake: Wakes, seat: Seats, session: Sessions]
Replay ==
    [op: {"replay"}, seat: Seats, session: Sessions \cup {None},
     rows: SUBSET Wakes, selected: BOOLEAN, offered: SUBSET Wakes,
     failing: {0} \cup Wakes]

TypeOK ==
    /\ now \in Nat
    /\ sessions \in [Sessions -> SessionRow]
    /\ tasks \in [Tasks -> TaskRow]
    /\ wakes \in [Wakes -> WakeRow]
    \* task_ref is NOT NULL
    /\ \A w \in Wakes : wakes[w].state # "none" => wakes[w].task \in Tasks
    /\ inflight \in [Callers -> {Idle} \cup Admission \cup Replay]

Init ==
    /\ now = 0
    /\ sessions = [s \in Sessions |-> NoSession]
    /\ tasks = [t \in Tasks |-> NoTask]
    /\ wakes = [w \in Wakes |-> NoWake]
    /\ inflight = [c \in Callers |-> Idle]

(***************************************************************************)
(* Reading the tables.                                                     *)
(***************************************************************************)

\* _lease_is_live: a NULL lease never lapses
LeaseIsLive(s) == sessions[s].lease # None => sessions[s].lease > now

Registered(s) == sessions[s].state # "none"
Live(s) == sessions[s].state \in LiveStates /\ LeaseIsLive(s)

\* live_sessions_for_seat, and the wake_ack candidates among them
LiveSessions(seat) == {s \in Sessions : sessions[s].seat = seat /\ Live(s)}
CapableSessions(seat) == {s \in LiveSessions(seat) : sessions[s].can.wakeAck}

TtlPassed(w) == wakes[w].ttl # None /\ wakes[w].ttl <= now
\* seeded bug: expiry that forgets which states may expire (WakeLifecycle)
StaleInAnyState(w) == TtlPassed(w)

Stale(w) == wakes[w].state \in OpenWakeStates /\ TtlPassed(w)

\* ORDER BY priority ASC, created_at ASC, wake_id ASC
Precedes(v, w) ==
    \/ wakes[v].priority < wakes[w].priority
    \/ wakes[v].priority = wakes[w].priority /\ v < w

\* UPDATE wire_wakes SET state = ... WHERE <the wakes of W>
SetWakes(W, state) ==
    wakes' = [w \in Wakes |->
                 IF w \in W THEN [wakes[w] EXCEPT !.state = state]
                            ELSE wakes[w]]

(***************************************************************************)
(* Sessions.                                                               *)
(***************************************************************************)
RegisterSession(s, seat, seconds, can) ==
    /\ ~Registered(s)
    /\ sessions' = [sessions EXCEPT ![s] =
           [state |-> "ready", seat |-> seat, lease |-> now + seconds,
            leaseSeconds |-> seconds, generation |-> 1, can |-> can]]
    /\ UNCHANGED <<now, tasks, wakes, inflight>>

\* seeded bug: a heartbeat writes the state it was not given (TypeOK)
HeartbeatOverwrites(seat, s, state) ==
    /\ Registered(s) /\ sessions[s].seat = seat
    /\ sessions[s].state \notin RetiredStates
    /\ sessions' = [sessions EXCEPT
           ![s].lease = now + sessions[s].leaseSeconds, ![s].state = state]
    /\ UNCHANGED <<now, tasks, wakes, inflight>>

\* seeded bug: a heartbeat brings a retired session back (ImplementsTaskGrant)
HeartbeatRevives(seat, s, state) ==
    /\ Registered(s) /\ sessions[s].seat = seat
    /\ sessions' = [sessions EXCEPT
           ![s].lease = now + sessions[s].leaseSeconds,
           ![s].state = IF state = None THEN @ ELSE state]
    /\ UNCHANGED <<now, tasks, wakes, inflight>>

\* state: the requested state, None to keep the present one
HeartbeatSession(seat, s, state) ==
    /\ Registered(s)
    /\ sessions[s].seat = seat
    /\ sessions[s].state \notin RetiredStates
    /\ sessions' = [sessions EXCEPT
           ![s].lease = now + sessions[s].leaseSeconds,
           ![s].state = IF state = None THEN @ ELSE state]
    /\ UNCHANGED <<now, tasks, wakes, inflight>>

\* seeded bug: a new generation that does not retire the old one (FenceCurrent)
UnregisterKeepsState(seat, s) ==
    /\ Registered(s) /\ sessions[s].seat = seat
    /\ sessions[s].generation < MaxGeneration
    /\ sessions' = [sessions EXCEPT ![s].lease = None, ![s].generation = @ + 1]
    /\ UNCHANGED <<now, tasks, wakes, inflight>>

\* no guard on the state: an offline session may be unregistered again
UnregisterSession(seat, s) ==
    /\ Registered(s)
    /\ sessions[s].seat = seat
    /\ sessions[s].generation < MaxGeneration
    /\ sessions' = [sessions EXCEPT
           ![s].state = "offline",
           ![s].lease = None,
           ![s].generation = @ + 1]
    /\ UNCHANGED <<now, tasks, wakes, inflight>>

(***************************************************************************)
(* Tasks: only the operator, from a process of their own, adds and         *)
(* cancels them.                                                           *)
(***************************************************************************)
AddTask(t) ==
    /\ tasks[t].state = "none"
    /\ tasks' = [tasks EXCEPT ![t].state = "open"]
    /\ UNCHANGED <<now, sessions, wakes, inflight>>

CancelTask(t) ==
    /\ tasks[t].state \notin
           {"none", "completed", "failed", "cancelled", "revoked"}
    /\ tasks' = [tasks EXCEPT ![t].state = "cancelled"]
    /\ SetWakes({w \in Wakes : /\ wakes[w].task = t
                               /\ wakes[w].state \in OpenWakeStates},
                "cancelled")
    /\ UNCHANGED <<now, sessions, inflight>>

(***************************************************************************)
(* request_wake.                                                           *)
(***************************************************************************)

\* the state and target_session_id recorded once a session is resolved
Settled(s) ==
    [state |-> IF sessions[s].can.wakeAck THEN "pending" ELSE "failed",
     session |-> s]

Unsettled(state) == [state |-> state, session |-> None]

\* how the target is resolved: the explicit session, or the only capable one
Resolution(target, explicit) ==
    LET capable == CapableSessions(target)
    IN  IF explicit # None
        THEN Settled(explicit)
        ELSE IF \E s \in Sessions : capable = {s}
        THEN Settled(CHOOSE s \in Sessions : capable = {s})
        ELSE Unsettled(IF capable # {} THEN "ambiguous"
                       ELSE IF LiveSessions(target) # {} THEN "failed"
                       ELSE "pending")

\* seeded bug: a key is forgotten once its wake is settled (KeyBindsOneWake)
KeyedWhileOpen(by, key) ==
    {w \in Wakes : /\ key # None /\ wakes[w].by = by /\ wakes[w].key = key
                   /\ wakes[w].state \in OpenWakeStates}

\* the persisted intent a retry with this key finds
Keyed(by, key) ==
    {w \in Wakes : key # None /\ wakes[w].by = by /\ wakes[w].key = key}

\* seeded bug: a wake may announce any task that exists (CancelDefeatsWakes)
TaskExists(t) == tasks[t].state # "none"

\* the task refusals of a new intent
AcceptsWakes(t) == tasks[t].state = "open"

\* a retry that matches (a duplicate) or conflicts writes nothing
RequestWake(by, target, t, explicit, key, priority, ttl) ==
    /\ Keyed(by, key) = {}
    /\ AcceptsWakes(t)
    /\ explicit # None => /\ Registered(explicit)
                          /\ sessions[explicit].seat = target
    /\ \E w \in Wakes :
           /\ wakes[w].state = "none"
           /\ \A v \in 1..(w - 1) : wakes[v].state # "none"
           /\ wakes' = [wakes EXCEPT ![w] =
                  [state |-> Resolution(target, explicit).state,
                   seat |-> target,
                   session |-> Resolution(target, explicit).session,
                   explicit |-> explicit, task |-> t, by |-> by, key |-> key,
                   priority |-> priority,
                   ttl |-> IF ttl = None THEN None ELSE now + ttl,
                   claimant |-> None, attempts |-> 0]]
    /\ UNCHANGED <<now, sessions, tasks, inflight>>

(***************************************************************************)
(* Expiry, transmission attempts.                                          *)
(***************************************************************************)

\* _expire_stale_wake, the whole effect of get_wake
GetWake(w) ==
    /\ Stale(w)
    /\ SetWakes({w}, "expired")
    /\ UNCHANGED <<now, sessions, tasks, inflight>>

\* what _expire_stale_batch(seat) selects
StaleWakesOf(seat) ==
    {w \in Wakes : Stale(w) /\ seat \in {wakes[w].seat, wakes[w].by}}

ListWakes(seat) ==
    /\ StaleWakesOf(seat) # {}
    /\ SetWakes(StaleWakesOf(seat), "expired")
    /\ UNCHANGED <<now, sessions, tasks, inflight>>

\* called for any wake the relay wrote to a socket; only a pending row counts
RecordWakeAttempt(w) ==
    /\ wakes[w].state = "pending"
    /\ wakes[w].attempts < MaxAttempts
    /\ wakes' = [wakes EXCEPT ![w].attempts = @ + 1]
    /\ UNCHANGED <<now, sessions, tasks, inflight>>

(***************************************************************************)
(* pending_wakes_for_watch: expire the seat's stale wakes, select a batch, *)
(* then read the task of each row, and mark the wake of a task that is no  *)
(* longer open in a transaction of its own.  Neither SELECT holds a lock:  *)
(* anything may commit before the read, and between the read and the mark. *)
(***************************************************************************)
StartReplay(c, seat, session) ==
    /\ inflight[c] = Idle /\ "replay" \in Ops
    \* _handle_watch bound the watch to a live session of the seat; by now the
    \* session may have lapsed or retired
    /\ session # None => sessions[session].seat = seat
    /\ SetWakes(StaleWakesOf(seat), "expired")
    /\ inflight' = [inflight EXCEPT ![c] =
           [op |-> "replay", seat |-> seat, session |-> session,
            rows |-> {}, selected |-> FALSE, offered |-> {}, failing |-> 0]]
    /\ UNCHANGED <<now, sessions, tasks>>

\* the pending wakes this watcher is eligible for
Eligible(r) ==
    {w \in Wakes : /\ wakes[w].state = "pending"
                   /\ wakes[w].seat = r.seat
                   /\ wakes[w].session \in {None, r.session}}

\* LIMIT ReplayBatch, in serving order
FirstBatch(r) ==
    {w \in Eligible(r) :
        Cardinality({v \in Eligible(r) : Precedes(v, w)}) < ReplayBatch}

SelectReplay(c) ==
    LET r == inflight[c]
    IN  /\ r.op = "replay" /\ ~r.selected
        /\ inflight' = [inflight EXCEPT ![c] =
               [r EXCEPT !.selected = TRUE, !.rows = FirstBatch(r)]]
        /\ UNCHANGED <<now, sessions, tasks, wakes>>

\* the task of the first row left is read: the wake is offered if it is open
ReplayRow(c, w) ==
    LET r == inflight[c]
    IN  /\ r.op = "replay" /\ r.failing = 0
        /\ w \in r.rows
        /\ \A v \in r.rows \ {w} : Precedes(w, v)
        /\ inflight' = [inflight EXCEPT ![c] =
               IF tasks[wakes[w].task].state = "open"
               THEN [r EXCEPT !.rows = @ \ {w}, !.offered = @ \cup {w}]
               ELSE [r EXCEPT !.rows = @ \ {w}, !.failing = w]]
        /\ UNCHANGED <<now, sessions, tasks, wakes>>

\* seeded bug: the mark without its WHERE state = 'pending' (HonestRefusal)
FailAnyWake(c) ==
    LET r == inflight[c]
    IN  /\ r.op = "replay" /\ r.failing # 0
        /\ SetWakes({r.failing}, "failed")
        /\ inflight' = [inflight EXCEPT ![c] = [r EXCEPT !.failing = 0]]
        /\ UNCHANGED <<now, sessions, tasks>>

\* _fail_pending_wake: the wake may have been settled since it was selected
FailPendingWake(c) ==
    LET r == inflight[c]
    IN  /\ r.op = "replay" /\ r.failing # 0
        /\ SetWakes({r.failing} \cap {v \in Wakes : wakes[v].state = "pending"},
                    "failed")
        /\ inflight' = [inflight EXCEPT ![c] = [r EXCEPT !.failing = 0]]
        /\ UNCHANGED <<now, sessions, tasks>>

EndReplay(c) ==
    /\ inflight[c].op = "replay" /\ inflight[c].selected
    /\ inflight[c].rows = {} /\ inflight[c].failing = 0
    /\ inflight' = [inflight EXCEPT ![c] = Idle]
    /\ UNCHANGED <<now, sessions, tasks, wakes>>

(***************************************************************************)
(* acknowledge_wake and claim_wake: the preflight expiry commits first,    *)
(* the admitting transaction checks everything again.                      *)
(***************************************************************************)
Preflight(c, op, w, seat, s) ==
    /\ inflight[c] = Idle
    /\ wakes[w].state # "none"
    /\ SetWakes({w} \cap {v \in Wakes : Stale(v)}, "expired")
    /\ inflight' = [inflight EXCEPT ![c] =
           [op |-> op, wake |-> w, seat |-> seat, session |-> s]]
    /\ UNCHANGED <<now, sessions, tasks>>

\* the wake is addressed to this seat, and to this session or the seat at large
Addressed(r) ==
    /\ wakes[r.wake].seat = r.seat
    /\ wakes[r.wake].session \in {None, r.session}

OwnSession(r) == Registered(r.session) /\ sessions[r.session].seat = r.seat

AckExpires(r) == Addressed(r) /\ Stale(r.wake)

AckDelivers(r) ==
    /\ Addressed(r) /\ ~Stale(r.wake)
    /\ OwnSession(r) /\ Live(r.session) /\ sessions[r.session].can.wakeAck
    /\ wakes[r.wake].state = "pending"

AcknowledgeWake(c) ==
    LET r == inflight[c]
    IN  /\ r.op = "ack"
        /\ \/ AckExpires(r) /\ SetWakes({r.wake}, "expired")
           \/ AckDelivers(r) /\ SetWakes({r.wake}, "delivered")
           \* refused, or delivered already: nothing is written
           \/ ~AckExpires(r) /\ ~AckDelivers(r) /\ UNCHANGED wakes
        /\ inflight' = [inflight EXCEPT ![c] = Idle]
        /\ UNCHANGED <<now, sessions, tasks>>

\* the checks that refuse a claim without writing
ClaimAddressed(r) == Addressed(r) /\ wakes[r.wake].state \in OpenWakeStates
ClaimSession(r) ==
    /\ OwnSession(r)
    /\ sessions[r.session].state \in LiveStates
    /\ sessions[r.session].can.claim

ClaimExpires(r) ==
    /\ ClaimAddressed(r)
    /\ TtlPassed(r.wake) \/ (ClaimSession(r) /\ ~LeaseIsLive(r.session))

\* seeded bug: the ttl is judged by the preflight alone (AdmittedInTime)
ClaimAdmittedOnPreflight(r) ==
    ClaimAddressed(r) /\ ClaimSession(r) /\ LeaseIsLive(r.session)

\* every check passed but the one on the task
ClaimAdmitted(r) ==
    /\ ClaimAddressed(r) /\ ~TtlPassed(r.wake)
    /\ ClaimSession(r) /\ LeaseIsLive(r.session)

\* seeded bug: the UPDATE without its WHERE state = 'open' (ClaimsAgree)
ClaimWinsUnguarded(r) == ClaimAdmitted(r)

ClaimWins(r) ==
    ClaimAdmitted(r) /\ tasks[wakes[r.wake].task].state = "open"

ClaimLoses(r) ==
    ClaimAdmitted(r) /\ tasks[wakes[r.wake].task].state # "open"

\* the claim reply hands the claimant the fencing token: its generation
WinTask(r) ==
    /\ tasks' = [tasks EXCEPT ![wakes[r.wake].task] =
           [state |-> "claimed", claimant |-> r.session,
            fence |-> sessions[r.session].generation]]
    /\ wakes' = [wakes EXCEPT ![r.wake].state = "claimed",
                              ![r.wake].claimant = r.session]

ClaimWake(c) ==
    LET r == inflight[c]
    IN  /\ r.op = "claim"
        /\ \/ ClaimWins(r) /\ WinTask(r)
           \/ /\ ClaimExpires(r)
              /\ SetWakes({r.wake}, "expired") /\ UNCHANGED tasks
           \/ /\ ClaimLoses(r)
              /\ SetWakes({r.wake}, "failed") /\ UNCHANGED tasks
           \/ /\ ~ClaimAdmitted(r) /\ ~ClaimExpires(r)
              /\ UNCHANGED <<tasks, wakes>>
        /\ inflight' = [inflight EXCEPT ![c] = Idle]
        /\ UNCHANGED <<now, sessions>>

(***************************************************************************)
(* complete_task.                                                          *)
(***************************************************************************)
ClaimedWakes(t, s) ==
    {w \in Wakes : /\ wakes[w].task = t /\ wakes[w].claimant = s
                   /\ wakes[w].state = "claimed"}

\* seeded bug: a NULL lease never lapses, so this admits a retired session
\* (FencedCompletion)
MayCompleteOnLease(s) == LeaseIsLive(s)

\* only a current incarnation with a live lease may report the outcome
MayComplete(s) ==
    sessions[s].state \in CompletingStates /\ LeaseIsLive(s)

CompleteTask(t, seat, s, outcome) ==
    /\ tasks[t].state # "none"
    /\ tasks[t].claimant = s
    /\ sessions[s].seat = seat
    /\ \/ /\ tasks[t].state \in {"cancelled", "revoked"}
          /\ ClaimedWakes(t, s) # {}
          /\ SetWakes(ClaimedWakes(t, s), "failed")
          /\ UNCHANGED tasks
       \/ /\ tasks[t].state = "claimed"
          /\ MayComplete(s)
          /\ tasks' = [tasks EXCEPT ![t].state = outcome]
          /\ SetWakes(ClaimedWakes(t, s), outcome)
    /\ UNCHANGED <<now, sessions, inflight>>

(***************************************************************************)
(* The clock runs through every lock wait; no caller waits for another     *)
(* between its transactions.                                               *)
(***************************************************************************)
Tick ==
    /\ now < MaxNow
    /\ now' = now + 1
    /\ UNCHANGED <<sessions, tasks, wakes, inflight>>

SessionNext ==
    \E s \in Sessions, seat \in Seats :
        \/ \E seconds \in LeaseSeconds, can \in Capabilities :
               RegisterSession(s, seat, seconds, can)
        \/ \E state \in Reports : HeartbeatSession(seat, s, state)
        \/ UnregisterSession(seat, s)

TaskNext ==
    \E t \in Tasks :
        \/ AddTask(t)
        \/ CancelTask(t)
        \/ \E seat \in Seats, s \in Sessions, o \in {"completed", "failed"} :
               CompleteTask(t, seat, s, o)

WakeNext ==
    \/ \E by, target \in Seats, t \in Tasks, explicit \in Sessions \cup {None},
          key \in Keys \cup {None}, priority \in Priorities, ttl \in Ttls :
           RequestWake(by, target, t, explicit, key, priority, ttl)
    \/ \E w \in Wakes : GetWake(w) \/ RecordWakeAttempt(w)
    \/ \E seat \in Seats : ListWakes(seat)

CallerNext ==
    \E c \in Callers :
        \/ \E op \in Ops \cap {"ack", "claim"}, w \in Wakes, seat \in Seats,
              s \in Sessions : Preflight(c, op, w, seat, s)
        \/ AcknowledgeWake(c)
        \/ ClaimWake(c)
        \/ \E seat \in Seats, s \in Sessions \cup {None} :
               StartReplay(c, seat, s)
        \/ SelectReplay(c)
        \/ \E w \in Wakes : ReplayRow(c, w)
        \/ FailPendingWake(c)
        \/ EndReplay(c)

Next == SessionNext \/ TaskNext \/ WakeNext \/ CallerNext \/ Tick

Spec == Init /\ [][Next]_vars

(***************************************************************************)
(* Properties.                                                             *)
(***************************************************************************)

\* the wakes some session has claimed for task t
ClaimedFor(t) == {w \in Wakes : wakes[w].task = t /\ wakes[w].claimant # None}

\* Exactly-once claims: a task that is being worked on has exactly one wake
\* that won it, held by the same session as the task; the outcome of the task
\* is the outcome of that wake; an open task was never won by anyone.  A
\* cancelled task leaves the winner's wake claimed until the claimant reports
\* back and learns of it (claim_wake and complete_task, racing the operator).
ClaimsAgree ==
    \A t \in Tasks :
        /\ tasks[t].claimant = None <=> ClaimedFor(t) = {}
        /\ \A v, w \in ClaimedFor(t) : v = w
        /\ tasks[t].state \in {"none", "open"} => tasks[t].claimant = None
        /\ \A w \in ClaimedFor(t) :
               /\ wakes[w].claimant = tasks[t].claimant
               /\ tasks[t].state \in {"claimed", "completed", "failed"}
                      => wakes[w].state = tasks[t].state
               /\ tasks[t].state \in {"cancelled", "revoked"}
                      => wakes[w].state \in {"claimed", "failed"}

\* Operator cancellation defeats every wake that is still to be claimed, those
\* a concurrent request_wake commits included: none of them is left pending or
\* delivered once the task is cancelled (cancel_task against request_wake).
CancelDefeatsWakes ==
    \A w \in Wakes : wakes[w].state \in OpenWakeStates
                         => tasks[wakes[w].task].state # "cancelled"

\* The claimant of a task in work is the incarnation the claim was granted to,
\* or has retired: no sequence of heartbeats, registrations and unregistrations
\* makes another incarnation the claimant, or a retired one current again.
FenceCurrent ==
    \A t \in Tasks :
        tasks[t].state = "claimed" =>
            LET s == tasks[t].claimant
            IN  /\ s \in Sessions /\ Registered(s)
                /\ \/ sessions[s].generation = tasks[t].fence
                   \/ sessions[s].state \in RetiredStates

\* Fencing: the token the claim reply handed out (the session's generation) is
\* still current whenever that claimant's completion is recorded, although
\* complete_task looks at the session's state and lease and never compares
\* the token.
FencedCompletion ==
    [][\A t \in Tasks :
          tasks[t].state = "claimed" /\ tasks'[t].state \in {"completed", "failed"}
             => LET s == tasks[t].claimant
                IN  sessions[s].generation = tasks[t].fence /\ LeaseIsLive(s)]_vars

\* What a step may never do to a wake: revive a terminal one, let expiry or
\* cancellation take one a session has claimed, or return one to pending.
\* This is the state diagram the code implements (every wire_wakes UPDATE).
WakeLifecycle ==
    [][\A w \in Wakes :
          LET old == wakes[w].state  new == wakes'[w].state
          IN  old # new =>
                 \/ old = "none" /\ new \in {"pending", "failed", "ambiguous"}
                 \/ old = "pending" /\ new \in {"delivered", "claimed", "failed",
                                                "expired", "cancelled"}
                 \/ old = "delivered" /\ new \in {"claimed", "failed",
                                                  "expired", "cancelled"}
                 \/ old = "claimed" /\ new \in {"completed", "failed"}]_vars

\* A wake is acknowledged or claimed only while its ttl runs, by a session it
\* is addressed to that is live at that very moment and declared the
\* capability: what the preflight saw before the lock wait does not count.
AdmittedInTime ==
    [][\A c \in Callers :
          LET r == inflight[c]
          IN  r.op \in {"ack", "claim"} /\ inflight'[c] = Idle
              /\ wakes'[r.wake].state # wakes[r.wake].state
              /\ wakes'[r.wake].state \in {"delivered", "claimed"}
                 => /\ wakes[r.wake].ttl # None => now < wakes[r.wake].ttl
                    /\ r.session \in LiveSessions(wakes[r.wake].seat)
                    /\ wakes[r.wake].session \in {None, r.session}
                    /\ IF r.op = "ack" THEN sessions[r.session].can.wakeAck
                                       ELSE sessions[r.session].can.claim]_vars

\* A wake nobody has claimed is refused as failed only while it is queued, and
\* only if its task can no longer be won in the state the mark commits in: the
\* catch-up query marks on what it read in an earlier transaction, and what
\* the operator settles in between is never overwritten.
HonestRefusal ==
    [][\A w \in Wakes :
          /\ wakes[w].state \notin {"none", "claimed", "failed"}
          /\ wakes'[w].state = "failed"
          => /\ wakes[w].state \in OpenWakeStates
             /\ tasks[wakes[w].task].state \notin {"none", "open"}]_vars

\* One wake per idempotency key and requester, whatever has become of the
\* first one and of its task by the time the retry arrives.
KeyBindsOneWake ==
    \A v, w \in Wakes :
        /\ wakes[v].key # None
        /\ wakes[v].key = wakes[w].key /\ wakes[v].by = wakes[w].by
        => v = w

\* The promise made to the operator (TaskGrant): a granted task is taken once,
\* by a session that has not retired, and finished by that session only while
\* it has not retired, whatever becomes of the wakes that announce it.
Grants == INSTANCE TaskGrant WITH
    grant <- [t \in Tasks |-> [state |-> tasks[t].state,
                               holder |-> tasks[t].claimant]],
    retired <- {s \in Sessions : sessions[s].state \in RetiredStates}
ImplementsTaskGrant == Grants!Spec
=============================================================================
