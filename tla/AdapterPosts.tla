----------------------------- MODULE AdapterPosts -----------------------------
(***************************************************************************)
(* Posting through the two MCP adapters (integrations/claude-code/server/  *)
(* wire_mcp.py and integrations/codex/src/wire_codex/adapter.py), over the *)
(* message table of Board.  A call makes at most two attempts under one    *)
(* client_id and reports what it knows: the post is stored, it is not, or  *)
(* the outcome is unknown and the user may call again with the same key.   *)
(*                                                                         *)
(* The copy an attempt has sent outlives the attempt: it is handled, or    *)
(* lost, at any later time.  Truncated, oversized and malformed answers    *)
(* count as no answer.                                                     *)
(***************************************************************************)
EXTENDS Board

CONSTANTS
    Calls,       \* tool calls: post or reply
    AdapterOf,   \* the adapter that serves a call
    RequestOf    \* the post a call asks for, its client_id included

ASSUME AdapterAssumption ==
    /\ AdapterOf \in [Calls -> {"claude", "codex"}]
    /\ RequestOf \in [Calls -> Requests]
    /\ \A c \in Calls : RequestOf[c].key # None
    /\ Listeners = {}

VARIABLES
    call,     \* where a call is, its attempt, what it knows, its outcome
    flying,   \* attempts of a call whose copy is on its way
    stored,   \* calls of which a copy was stored
    broken    \* calls that were answered with internal_error

adapters == <<call, flying, stored, broken>>
postVars == <<vars, adapters>>

MaxAttempts == 2

\* How an attempt can fail: nothing was written, for want of a relay or by a
\* refused authentication; a refusal; an internal_error; no usable answer.
Failures == {"unavailable", "unauthenticated", "refused", "internal", "silent"}

Fresh == [stage |-> "ready", attempt |-> 1, uncertain |-> FALSE,
          outcome |-> "none", id |-> 0]

PostInit ==
    /\ Init
    /\ call = [c \in Calls |-> Fresh]
    /\ flying = [c \in Calls |-> {}]
    /\ stored = {} /\ broken = {}

\* What is not a post leaves the board's other state alone.
Beside == <<sent, copies, cursors, filter, out, closed, listening, restarts>>

(***************************************************************************)
(* Classifying a failed attempt: _classify and _post of the Claude Code    *)
(* adapter, Transport.request and wire_post of the Codex adapter.          *)
(***************************************************************************)

\* Failures that may hide a stored post.
MayHaveSent(c) ==
    IF AdapterOf[c] = "claude" THEN {"silent", "internal"} ELSE {"silent"}

Retried(c) ==
    IF AdapterOf[c] = "claude" THEN {"silent", "internal", "unavailable"}
    ELSE {"silent"}

\* Seeded bug: the last attempt settles the outcome (OutcomeIsTrue).
UncertainNow(c, failure) == failure \in MayHaveSent(c)

\* Once an attempt may have reached the relay, no later failure settles it.
Uncertain(c, failure) == call[c].uncertain \/ failure \in MayHaveSent(c)

\* Tried again, or reported.
AttemptFails(c, failure) ==
    call' = [call EXCEPT ![c] =
        IF failure \in Retried(c) /\ call[c].attempt < MaxAttempts
        THEN [Fresh EXCEPT !.attempt = call[c].attempt + 1,
                           !.uncertain = Uncertain(c, failure)]
        ELSE [@ EXCEPT !.stage = "done", !.uncertain = Uncertain(c, failure),
                       !.outcome = IF Uncertain(c, failure) THEN "unknown"
                                   ELSE "not_stored"]]

AttemptSucceeds(c, id) ==
    call' = [call EXCEPT ![c].stage = "done", ![c].outcome = "confirmed", ![c].id = id]

(***************************************************************************)
(* An attempt: it fails before the operation is written, or writes it.     *)
(***************************************************************************)
FailEarly(c) ==
    /\ call[c].stage = "ready"
    /\ \E failure \in {"unavailable", "unauthenticated"} : AttemptFails(c, failure)
    /\ UNCHANGED <<vars, flying, stored, broken>>

Send(c) ==
    /\ call[c].stage = "ready"
    /\ call' = [call EXCEPT ![c].stage = "waiting"]
    /\ flying' = [flying EXCEPT ![c] = @ \cup {call[c].attempt}]
    /\ UNCHANGED <<vars, stored, broken>>

\* A timeout, a reset or a closed connection: the copy may still be handled.
GiveUp(c) ==
    /\ call[c].stage = "waiting"
    /\ AttemptFails(c, "silent")
    /\ UNCHANGED <<vars, flying, stored, broken>>

LoseCopy(c, n) ==
    /\ n \in flying[c]
    /\ flying' = [flying EXCEPT ![c] = @ \ {n}]
    /\ UNCHANGED <<vars, call, stored, broken>>

(***************************************************************************)
(* The relay handles a copy and answers the attempt, if it still waits.    *)
(***************************************************************************)
Awaits(c, n) == call[c].stage = "waiting" /\ call[c].attempt = n

\* Seeded bug: a retry draws a new client_id (StoredOnce).
FreshKeyOnRetry(c, n) ==
    IF n = 1 THEN RequestOf[c] ELSE [RequestOf[c] EXCEPT !.key = None]

\* Every attempt carries the same payload.
Payload(c, n) == RequestOf[c]

Hears(c, n, reply) ==
    /\ Awaits(c, n)
    /\ told' = [told EXCEPT ![RequestOf[c]] = reply]
    /\ IF reply.result = "stored" THEN AttemptSucceeds(c, reply.id)
       ELSE AttemptFails(c, "refused")

TakesCopy(c, n) ==
    /\ n \in flying[c]
    /\ flying' = [flying EXCEPT ![c] = @ \ {n}]

Handle(c, n) ==
    LET r == Payload(c, n)
    IN  /\ TakesCopy(c, n)
        /\ StoreAndRing(r)
        /\ stored' = IF Stores(r) THEN stored \cup {c} ELSE stored
        /\ Hears(c, n, Answer(r)) \/ (~Awaits(c, n) /\ UNCHANGED <<told, call>>)
        /\ UNCHANGED <<sent, copies, cursors, listening, restarts, broken>>

\* An exception in the relay, before or after the row is committed; nothing
\* rings.  Before the commit, nothing is stored.
HandleBreaks(c, n) ==
    LET r == Payload(c, n)
    IN  /\ TakesCopy(c, n)
        /\ \/ UNCHANGED <<messages, stored>>
           \/ /\ Stores(r) /\ Len(messages) < MaxMessages
              /\ messages' = Append(messages, r)
              /\ stored' = stored \cup {c}
        /\ \/ /\ Awaits(c, n)
              /\ AttemptFails(c, "internal")
              /\ broken' = broken \cup {c}
           \/ ~Awaits(c, n) /\ UNCHANGED <<call, broken>>
        /\ UNCHANGED <<Beside, told>>

PostNext ==
    \E c \in Calls :
        \/ FailEarly(c) \/ Send(c) \/ GiveUp(c)
        \/ \E n \in 1..MaxAttempts : LoseCopy(c, n) \/ Handle(c, n) \/ HandleBreaks(c, n)

PostSpec == PostInit /\ [][PostNext]_postVars

(***************************************************************************)
(* Properties.                                                             *)
(***************************************************************************)

\* What a call reports stays true, whatever copies are handled later: a
\* confirmed post is the message of that id, whole, and of a post reported as
\* not stored no copy was stored or still can be.  The Codex adapter takes an
\* internal_error for a refusal; that is the only way it can be wrong.
OutcomeIsTrue ==
    \A c \in Calls :
        /\ call[c].outcome = "confirmed" => messages[call[c].id] = RequestOf[c]
        /\ call[c].outcome = "not_stored" =>
               /\ flying[c] = {}
               /\ c \in stored => AdapterOf[c] = "codex" /\ c \in broken

\* However often a post is attempted, and whoever finishes it with a later
\* call under its client_id, it is on the board once.
StoredOnce ==
    \A i, j \in Ids :
        /\ messages[i].content = messages[j].content
        /\ messages[i].channel = messages[j].channel
        /\ messages[i].reply = messages[j].reply
        => i = j
=============================================================================
