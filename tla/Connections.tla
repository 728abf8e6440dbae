----------------------------- MODULE Connections -----------------------------
(***************************************************************************)
(* The life of a connection to the relay (server.py): admission under the  *)
(* limits on connections that have not authenticated, eviction, the        *)
(* authentication deadline, the request loop, the ways it is closed, and   *)
(* the shutdown of the relay.  Everything runs on one event loop: a        *)
(* handler runs without interruption between two awaits, so a stretch of   *)
(* handler between awaits is one action.  A connection has a handler (the  *)
(* _handle_client task) and a transport, which end at different times.     *)
(***************************************************************************)
EXTENDS Naturals, Sequences, FiniteSets

CONSTANTS
    Conns,         \* connection slots; a finished one is used again
    Pids,          \* peer processes
    None,          \* no connection, no process
    MaxPending,    \* MAX_UNAUTHENTICATED_CONNECTIONS
    MaxPerPeer,    \* MAX_UNAUTHENTICATED_PER_PEER
    Grace,         \* UNAUTH_EVICTION_GRACE_SECONDS
    AuthTimeout    \* AUTH_TIMEOUT_SECONDS

ASSUME ConnectionsAssumption ==
    /\ None \notin Conns \cup Pids
    /\ MaxPending \in Nat \ {0} /\ MaxPerPeer \in Nat \ {0}
    /\ Grace \in Nat /\ AuthTimeout \in Nat \ {0}

VARIABLES
    pending,    \* _pending: connections waiting to authenticate, oldest first
    pid,        \* the peer's process, reported by the kernel
    age,        \* time since the connection was accepted, up to MaxAge
    frame,      \* what the first frame's reader has: "none", "part", a frame, "eof"
    handler,    \* "none", "authenticating", "serving" or "closing"
    transport,  \* "open", "flushing" after close() with output left, "closed"
    refused,    \* the relay refused it: turned away, evicted or at its shutdown
    shutdown    \* "no", "waiting" for connections to end, "down"

vars == <<pending, pid, age, frame, handler, transport, refused, shutdown>>

MaxAge == IF Grace > AuthTimeout THEN Grace ELSE AuthTimeout

\* A queue without a connection that is in it once, or not at all.
Without(w, c) ==
    IF \E i \in DOMAIN w : w[i] = c
    THEN LET k == CHOOSE i \in DOMAIN w : w[i] = c
         IN  [i \in 1..(Len(w) - 1) |-> IF i < k THEN w[i] ELSE w[i + 1]]
    ELSE w

IsPending(c) == \E i \in DOMAIN pending : pending[i] = c
SamePeer(p) == {c \in Conns : IsPending(c) /\ pid[c] = p}

\* The first of the pending connections S in the queue.
Oldest(S) ==
    pending[CHOOSE i \in DOMAIN pending :
                pending[i] \in S /\ \A j \in 1..(i - 1) : pending[j] \notin S]

Init ==
    /\ pending = <<>>
    /\ pid = [c \in Conns |-> None]
    /\ age = [c \in Conns |-> 0]
    /\ frame = [c \in Conns |-> "none"]
    /\ handler = [c \in Conns |-> "none"]
    /\ transport = [c \in Conns |-> "closed"]
    /\ refused = [c \in Conns |-> FALSE]
    /\ shutdown = "no"

(***************************************************************************)
(* Admission: _admit runs in one step when the handler of a new            *)
(* connection starts.                                                      *)
(***************************************************************************)

\* Seeded bug: a limit is reached only once it is exceeded.
CandidateBeyondLimit(p) ==
    IF Cardinality(SamePeer(p)) > MaxPerPeer THEN Oldest(SamePeer(p))
    ELSE IF Len(pending) > MaxPending THEN pending[1]
    ELSE None

\* The connection that would have to go to admit a newcomer of process p.
Candidate(p) ==
    IF Cardinality(SamePeer(p)) >= MaxPerPeer THEN Oldest(SamePeer(p))
    ELSE IF Len(pending) >= MaxPending THEN pending[1]
    ELSE None

Opens(c) == shutdown = "no" /\ handler[c] = "none" /\ UNCHANGED <<age, frame, shutdown>>

Enters(c, p) == Opens(c) /\ pid' = [pid EXCEPT ![c] = p]

Admit(c, p) ==
    /\ Enters(c, p)
    /\ Candidate(p) = None
    /\ pending' = Append(pending, c)
    /\ handler' = [handler EXCEPT ![c] = "authenticating"]
    /\ transport' = [transport EXCEPT ![c] = "open"]
    /\ UNCHANGED refused

\* Seeded bug: the oldest makes room however short it has waited.
OldEnoughAlways(c) == c \in Conns

OldEnough(c) == age[c] >= Grace

\* The oldest pending connection makes room.  Its refusal is tiny and its
\* socket fresh, so its transport closes at once; its handler finds out later.
Evict(c, p) ==
    /\ Enters(c, p)
    /\ Candidate(p) # None
    /\ OldEnough(Candidate(p))
    /\ pending' = Append(Without(pending, Candidate(p)), c)
    /\ handler' = [handler EXCEPT ![c] = "authenticating"]
    /\ transport' = [transport EXCEPT ![c] = "open", ![Candidate(p)] = "closed"]
    /\ refused' = [refused EXCEPT ![Candidate(p)] = TRUE]

\* The candidate is too young to go, so the newcomer is turned away.
TurnAway(c, p) ==
    /\ Opens(c)
    /\ Candidate(p) # None
    /\ ~OldEnough(Candidate(p))
    /\ handler' = [handler EXCEPT ![c] = "closing"]
    /\ transport' = [transport EXCEPT ![c] = "closed"]
    /\ refused' = [refused EXCEPT ![c] = TRUE]
    /\ UNCHANGED <<pending, pid>>

(***************************************************************************)
(* The first frame arrives in pieces, or not at all, while the handler     *)
(* waits; the handler resumes some time after it is complete.              *)
(***************************************************************************)
ReceiveFrame(c, received) ==
    /\ handler[c] = "authenticating" /\ transport[c] = "open"
    /\ frame[c] \in {"none", "part"} /\ frame[c] # received
    /\ frame' = [frame EXCEPT ![c] = received]
    /\ UNCHANGED <<pending, pid, age, handler, transport, refused, shutdown>>

\* A connection past its handshake has no first frame and no clock.
Forgets(c) ==
    /\ pid' = [pid EXCEPT ![c] = None]
    /\ age' = [age EXCEPT ![c] = 0]
    /\ frame' = [frame EXCEPT ![c] = "none"]

\* Seeded bug: the finally clause forgets the admission record.
EndKeepsPending(c) ==
    /\ handler' = [handler EXCEPT ![c] = "closing"]
    /\ \E left \in {"flushing", "closed"} :
           /\ transport[c] # "open" => left = transport[c]
           /\ transport' = [transport EXCEPT ![c] = left]
    /\ Forgets(c)
    /\ UNCHANGED <<pending, refused, shutdown>>

\* The finally clause: the connection stops being pending, and its writer is
\* closed, at once unless output is left that the peer has not read.
End(c) ==
    /\ pending' = Without(pending, c)
    /\ handler' = [handler EXCEPT ![c] = "closing"]
    /\ \E left \in {"flushing", "closed"} :
           /\ transport[c] # "open" => left = transport[c]
           /\ transport' = [transport EXCEPT ![c] = left]
    /\ Forgets(c)
    /\ UNCHANGED <<refused, shutdown>>

AuthEof(c) ==
    /\ handler[c] = "authenticating"
    /\ \/ frame[c] = "eof"
       \/ frame[c] \in {"none", "part"} /\ transport[c] = "closed"
    /\ End(c)

\* Evicted while its frame was in flight: the refusal is already on the wire.
AuthLate(c) ==
    /\ handler[c] = "authenticating" /\ frame[c] \in {"valid", "invalid"}
    /\ ~IsPending(c)
    /\ End(c)

AuthInvalid(c) ==
    /\ handler[c] = "authenticating" /\ frame[c] = "invalid" /\ IsPending(c)
    /\ End(c)

\* Seeded bug: the handler does not look whether it was evicted meanwhile.
AuthenticatedAnyway(c) ==
    /\ handler[c] = "authenticating" /\ frame[c] = "valid"
    /\ pending' = Without(pending, c)
    /\ handler' = [handler EXCEPT ![c] = "serving"]
    /\ Forgets(c)
    /\ UNCHANGED <<transport, refused, shutdown>>

Authenticated(c) ==
    /\ handler[c] = "authenticating" /\ frame[c] = "valid" /\ IsPending(c)
    /\ pending' = Without(pending, c)
    /\ handler' = [handler EXCEPT ![c] = "serving"]
    /\ Forgets(c)
    /\ UNCHANGED <<transport, refused, shutdown>>

\* Seeded bug: any byte from the peer stops the deadline.
AuthTimesOutIfSilent(c) ==
    /\ handler[c] = "authenticating" /\ age[c] >= AuthTimeout
    /\ frame[c] = "none"
    /\ End(c)

\* The deadline covers the whole frame, and wins over a frame that is
\* complete but has not been taken yet.
AuthTimesOut(c) ==
    /\ handler[c] = "authenticating" /\ age[c] >= AuthTimeout
    /\ End(c)

(***************************************************************************)
(* The request loop and its end.                                           *)
(***************************************************************************)

\* The peer leaves, or a request of its fails: the handler ends.
Leave(c) ==
    /\ handler[c] = "serving" /\ transport[c] = "open"
    /\ End(c)

\* _drop_subscriber: a watch that stopped draining is told and closed.  Its
\* output is what made it overflow; the handler still waits for a request.
DropSubscriber(c) ==
    /\ handler[c] = "serving" /\ transport[c] = "open"
    /\ transport' = [transport EXCEPT ![c] = "flushing"]
    /\ UNCHANGED <<pending, pid, age, frame, handler, refused, shutdown>>

\* The peer reads what was left, or closes its end.
Flush(c) ==
    /\ transport[c] = "flushing"
    /\ transport' = [transport EXCEPT ![c] = "closed"]
    /\ UNCHANGED <<pending, pid, age, frame, handler, refused, shutdown>>

\* Only the loss of the transport lets the handler of a dropped watch resume.
ServeEof(c) ==
    /\ handler[c] = "serving" /\ transport[c] = "closed"
    /\ End(c)

\* _close_writer: the handler waits at most CLOSE_TIMEOUT_SECONDS.
AbortClose(c) ==
    /\ handler[c] = "closing" /\ transport[c] = "flushing"
    /\ transport' = [transport EXCEPT ![c] = "closed"]
    /\ UNCHANGED <<pending, pid, age, frame, handler, refused, shutdown>>

Finish(c) ==
    /\ handler[c] = "closing" /\ transport[c] = "closed"
    /\ handler' = [handler EXCEPT ![c] = "none"]
    \* the slot is free for the next connection
    /\ refused' = [refused EXCEPT ![c] = FALSE]
    /\ UNCHANGED <<pending, pid, age, frame, transport, shutdown>>

Tick ==
    /\ age' = [c \in Conns |-> IF handler[c] = "authenticating" /\ age[c] < MaxAge
                                THEN age[c] + 1 ELSE age[c]]
    /\ UNCHANGED <<pending, pid, frame, handler, transport, refused, shutdown>>

(***************************************************************************)
(* Shutdown.  An interrupt cancels the main task inside asyncio's          *)
(* Server.serve_forever, which closes the listening socket and awaits      *)
(* wait_closed before it lets the cancellation out; only then does         *)
(* WireServer.close run and refuse what is pending.                        *)
(***************************************************************************)
Interrupt ==
    /\ shutdown = "no"
    /\ shutdown' = "waiting"
    /\ UNCHANGED <<pending, pid, age, frame, handler, transport, refused>>

Close ==
    /\ shutdown = "waiting" /\ \A c \in Conns : transport[c] = "closed"
    /\ shutdown' = "down"
    /\ refused' = [c \in Conns |-> refused[c] \/ IsPending(c)]
    /\ pending' = <<>>
    /\ UNCHANGED <<pid, age, frame, handler, transport>>

Resume(c) ==
    \/ AuthEof(c) \/ AuthLate(c) \/ AuthInvalid(c) \/ Authenticated(c)
    \/ ServeEof(c) \/ Finish(c)

Next ==
    \/ \E c \in Conns :
           \/ \E p \in Pids : Admit(c, p) \/ Evict(c, p) \/ TurnAway(c, p)
           \/ \E received \in {"part", "valid", "invalid", "eof"} :
                  ReceiveFrame(c, received)
           \/ Resume(c) \/ AuthTimesOut(c)
           \/ Leave(c) \/ DropSubscriber(c) \/ Flush(c) \/ AbortClose(c)
    \/ Tick \/ Interrupt \/ Close

Spec == Init /\ [][Next]_vars

\* The event loop runs what is ready and fires what is due.  The peers owe
\* nothing: they need not send, read or leave.
Fairness ==
    /\ WF_vars(Tick)
    /\ \A c \in Conns : WF_vars(Resume(c) \/ AuthTimesOut(c) \/ AbortClose(c))

FairSpec == Spec /\ Fairness

(***************************************************************************)
(* Properties.                                                             *)
(***************************************************************************)

\* Every variable has its shape.
TypeOK ==
    /\ \A i, j \in DOMAIN pending : pending[i] = pending[j] => i = j
    /\ \A i \in DOMAIN pending : handler[pending[i]] = "authenticating"
    /\ pid \in [Conns -> Pids \cup {None}]
    /\ age \in [Conns -> 0..MaxAge]
    /\ frame \in [Conns -> {"none", "part", "valid", "invalid", "eof"}]
    /\ handler \in [Conns -> {"none", "authenticating", "serving", "closing"}]
    /\ transport \in [Conns -> {"open", "flushing", "closed"}]
    /\ refused \in [Conns -> BOOLEAN]
    /\ shutdown \in {"no", "waiting", "down"}

\* No flood of newcomers and no order of evictions and deadlines takes the
\* relay past a limit, in all or per process; and the queue that picks the
\* oldest connection is in order of age.
PendingIsBounded ==
    /\ Len(pending) <= MaxPending
    /\ \A p \in Pids : Cardinality(SamePeer(p)) <= MaxPerPeer
    /\ \A i, j \in DOMAIN pending : i < j => age[pending[i]] >= age[pending[j]]

\* A connection the relay refused is never served, even when its valid frame
\* was in flight at the time, and a served connection is never refused for
\* room however long it idles.
RefusedNeverServed ==
    \A c \in Conns : refused[c] => handler[c] # "serving"

\* A young handshake is not sacrificed.  A connection that stops being pending
\* was either ended by its own handler, which has its frame or its EOF or finds
\* its deadline passed; or was taken away while its handler waited, a complete
\* frame or not, and then it is past the grace, is told so, and is the oldest
\* of those that fill the limit that makes it go.
YoungAreSpared ==
    [][\A c \in Conns : IsPending(c) /\ ~IsPending(c)' =>
          IF handler'[c] = "authenticating"
          THEN /\ age[c] >= Grace /\ refused'[c]
               /\ \/ /\ Cardinality(SamePeer(pid[c])) >= MaxPerPeer
                     /\ \A d \in SamePeer(pid[c]) : age[d] <= age[c]
                  \/ /\ Len(pending) >= MaxPending
                     /\ \A d \in Conns : IsPending(d) => age[d] <= age[c]
          ELSE frame[c] \in {"valid", "invalid", "eof"} \/ age[c] >= AuthTimeout]_vars

\* Nobody waits to authenticate for ever, whatever the peer sends or omits.
HandshakesEnd ==
    \A c \in Conns : handler[c] = "authenticating" ~> handler[c] # "authenticating"

\* As CLOSE_TIMEOUT_SECONDS is documented: the relay gives up on a closing
\* socket that does not flush, so a peer that never reads cannot pin it.
ClosedIsReleased ==
    \A c \in Conns : transport[c] = "flushing" ~> transport[c] = "closed"

\* As the README says of shutdown: it does not wait for a connection that is
\* still authenticating.
ShutdownWaitsForNoHandshake ==
    shutdown = "waiting" => pending = <<>>

=============================================================================
