-------------------------------- MODULE Inbox --------------------------------
(***************************************************************************)
(* Reading and acknowledging through the MCP adapters of one seat, over    *)
(* the message table and the cursors of Board.  A tool call is a series of *)
(* requests, each on a connection of its own; between two of them messages *)
(* arrive and other processes of the seat move its cursors.                *)
(*                                                                         *)
(* The Codex adapter acknowledges only what it returned completely since   *)
(* it started, the Claude Code adapter whatever it is asked to.  A body    *)
(* is a number of slices, of which a result holds one; a page and a result *)
(* are cut to a byte budget, that is, to any nonempty prefix.              *)
(***************************************************************************)
EXTENDS Board, SequencesExt

CONSTANTS
    Seat,          \* the seat of all agents
    Agents,        \* processes that run an adapter
    CodexAgents,   \* those that run the Codex adapter
    Slices,        \* the number of slices of a body
    Limits,        \* the limits an agent's reads ask for
    MaxTracked,    \* MAX_TRACKED: messages the delivered ledger holds
    MaxWalk        \* messages one wire_advance goes through

ASSUME InboxAssumption ==
    /\ Seat \in Seats /\ CodexAgents \subseteq Agents
    /\ Slices \in [Contents -> Nat \ {0}]
    /\ Limits \in [Agents -> SUBSET (Nat \ {0})]
    /\ MaxTracked \in Nat \ {0} /\ MaxWalk \in Nat \ {0}
    /\ Listeners = {} /\ \A r \in Requests : r.key = None

VARIABLES
    task,       \* the tool call an agent is in, or the answer to its last read
    delivered,  \* Adapter.delivered: message ids and how far, least recent first
    shown       \* the slices a Codex adapter returned since it started

inbox == <<task, delivered, shown>>
inboxVars == <<vars, inbox>>

\* What reading leaves alone.
Rest == <<messages, sent, copies, told, filter, out, closed, listening, restarts>>

Idle == [op |-> "idle"]

InboxInit ==
    /\ Init
    /\ task = [p \in Agents |-> Idle]
    /\ delivered = [p \in CodexAgents |-> <<>>]
    /\ shown = [p \in CodexAgents |-> {}]

Arrive(r) ==
    /\ Stores(r)
    /\ StoreAndRing(r)
    /\ UNCHANGED <<sent, copies, told, cursors, listening, restarts, inbox>>

(***************************************************************************)
(* The relay's answer to a read of n messages after an id.                 *)
(***************************************************************************)
Sorted(ids) == [i \in 1..Cardinality(ids) |->
    CHOOSE id \in ids : Cardinality({k \in ids : k < id}) = i - 1]

\* Seeded bug: has_more tells of the limit and forgets what was trimmed.
PagesBySentinel(c, start, n) ==
    LET all == Sorted({id \in In(c) : id > start})
        page(k) == [rows |-> SubSeq(all, 1, k), more |-> n < Len(all)]
    IN  IF all = <<>> THEN {page(0)} ELSE {page(k) : k \in 1..Min({n, Len(all)})}

\* At most n messages, fewer if they are large, and whether there are more.
Pages(c, start, n) ==
    LET all == Sorted({id \in In(c) : id > start})
        page(k) == [rows |-> SubSeq(all, 1, k), more |-> k < Len(all)]
    IN  IF all = <<>> THEN {page(0)} ELSE {page(k) : k \in 1..Min({n, Len(all)})}

(***************************************************************************)
(* The ledger of the Codex adapter.                                        *)
(***************************************************************************)
SizeOf(id) == Slices[messages[id].content]

Entries(ledger, id) == {i \in DOMAIN ledger : ledger[i].id = id}

Prior(ledger, id) ==
    LET at == Entries(ledger, id)
    IN  IF at = {} THEN 0 ELSE ledger[CHOOSE i \in at : TRUE].upto

\* The ledger in which the entry of id, if it has one, is the most recent.
Noted(ledger, id, upto) ==
    LET at == Entries(ledger, id)
        others == IF at = {} THEN ledger ELSE RemoveAt(ledger, CHOOSE i \in at : TRUE)
    IN  Append(others, [id |-> id, upto |-> upto])

Extended(ledger, id, offset) ==
    Noted(ledger, id, Max({Prior(ledger, id), Min({offset + 1, SizeOf(id)})}))

\* Seeded bug: a slice counts although the ones before it were not returned.
ObserveAnyOffset(ledger, id, offset) ==
    LET all == Extended(ledger, id, offset)
    IN  IF Len(all) > MaxTracked THEN Tail(all) ELSE all

\* Seeded bug: the ledger is never cut (InboxTypeOK).
ObserveForever(ledger, id, offset) ==
    IF offset > Prior(ledger, id) THEN ledger ELSE Extended(ledger, id, offset)

\* A slice that continues what was returned extends the entry and makes it the
\* most recent one; the least recent entry goes when there are too many.
Observe(ledger, id, offset) ==
    LET all == Extended(ledger, id, offset)
    IN  IF offset > Prior(ledger, id) THEN ledger
        ELSE IF Len(all) > MaxTracked THEN Tail(all) ELSE all

\* The bodies a read returns are observed one after the other.
ObserveAll(ledger, ids) ==
    LET observed[i \in 0..Len(ids)] ==
            IF i = 0 THEN ledger ELSE Observe(observed[i - 1], ids[i], 0)
    IN  observed[Len(ids)]

(***************************************************************************)
(* Reading: wire_read and read, over _window and read_window.              *)
(***************************************************************************)
Free(p) == task[p].op \in {"idle", "answered"}

\* A read of n messages of c above start that has the rows up to an id.
Reading(c, n, start, upto, rows) ==
    [op |-> "read", step |-> "page", channel |-> c, limit |-> n, from |-> start,
     after |-> upto, rows |-> rows]

\* From the cursor, or from an id the caller kept.
StartRead(p, c, n) ==
    /\ Free(p)
    /\ \/ task' = [task EXCEPT ![p] = [op |-> "read", step |-> "cursor", channel |-> c,
                                       limit |-> n]]
       \/ \E start \in Ids \cup {0} :
              task' = [task EXCEPT ![p] = Reading(c, n, start, start, <<>>)]
    /\ UNCHANGED <<vars, delivered, shown>>

ReadCursor(p) ==
    LET t == task[p]
        start == cursors[Seat][t.channel]
    IN  /\ t.op = "read" /\ t.step = "cursor"
        /\ task' = [task EXCEPT ![p] = Reading(t.channel, t.limit, start, start, <<>>)]
        /\ UNCHANGED <<vars, delivered, shown>>

\* What is returned starts every body; the Codex adapter takes note of it.
Return(p, rows, more) ==
    /\ task' = [task EXCEPT ![p] = [op |-> "answered", channel |-> @.channel, from |-> @.from,
                                    rows |-> rows, more |-> more, asof |-> Len(messages)]]
    /\ IF p \in CodexAgents
       THEN /\ delivered' = [delivered EXCEPT ![p] = ObserveAll(@, rows)]
            /\ shown' = [shown EXCEPT ![p] = @ \cup (Range(rows) \X {1})]
       ELSE UNCHANGED <<delivered, shown>>

\* One page, with a sentinel beyond what is wanted.  A page that was cut is
\* followed from its last message; the result is cut again before it returns.
FetchPage(p) ==
    LET t == task[p]
        want == t.limit - Len(t.rows)
    IN  /\ t.op = "read" /\ t.step = "page"
        /\ \E page \in Pages(t.channel, t.after, want + 1) :
               LET got == t.rows \o SubSeq(page.rows, 1, Min({want, Len(page.rows)}))
                   more == page.more \/ Len(page.rows) > want
               IN  IF more /\ Len(got) < t.limit
                   THEN /\ task' = [task EXCEPT ![p] =
                               Reading(t.channel, t.limit, t.from, Last(got), got)]
                        /\ UNCHANGED <<delivered, shown>>
                   ELSE \E k \in Min({1, Len(got)})..Len(got) :
                            Return(p, SubSeq(got, 1, k), more \/ k < Len(got))
        /\ UNCHANGED vars

\* wire_get: one slice of one message, anywhere in its body.
Get(p, id, offset) ==
    /\ Free(p) /\ p \in CodexAgents
    /\ id \in Ids /\ offset <= SizeOf(id)
    /\ delivered' = [delivered EXCEPT ![p] = Observe(@, id, offset)]
    /\ shown' = [shown EXCEPT ![p] = @ \cup ({id} \X ({offset + 1} \cap (1..SizeOf(id))))]
    /\ task' = [task EXCEPT ![p] = Idle]
    /\ UNCHANGED vars

(***************************************************************************)
(* Acknowledging: wire_advance walks from the cursor to its target, one    *)
(* message a request, and stops at the first that was not delivered.       *)
(***************************************************************************)
StartAdvance(p, c, id) ==
    /\ Free(p) /\ p \in CodexAgents /\ id \in Ids
    /\ task' = [task EXCEPT ![p] = [op |-> "advance", step |-> "cursor", channel |-> c,
                                    target |-> id]]
    /\ UNCHANGED <<vars, delivered, shown>>

\* The walk of an acknowledgement has gone through so many messages.
Walking(c, target, upto, walked) ==
    [op |-> "advance", step |-> "walk", channel |-> c, target |-> target,
     after |-> upto, walked |-> walked]

AdvanceFrom(p) ==
    LET t == task[p]
        start == cursors[Seat][t.channel]
    IN  /\ t.op = "advance" /\ t.step = "cursor"
        /\ task' = [task EXCEPT ![p] =
               IF t.target <= start THEN Idle
               ELSE Walking(t.channel, t.target, start, 0)]
        /\ UNCHANGED <<vars, delivered, shown>>

Complete(p, id) == Prior(delivered[p], id) = SizeOf(id)

Walk(p) ==
    LET t == task[p]
        next == {id \in In(t.channel) :
                    id > t.after /\ \A k \in In(t.channel) : k > t.after => id <= k}
        passes == \E id \in next : id <= t.target /\ Complete(p, id)
    IN  /\ t.op = "advance" /\ t.step = "walk"
        /\ task' = [task EXCEPT ![p] =
               IF ~passes THEN Idle
               ELSE IF t.target \in next THEN [@ EXCEPT !.step = "commit"]
               ELSE IF t.walked + 1 = MaxWalk THEN Idle
               ELSE Walking(t.channel, t.target, CHOOSE id \in next : TRUE, t.walked + 1)]
        /\ UNCHANGED <<vars, delivered, shown>>

Acknowledge(p) ==
    LET t == task[p]
    IN  /\ t.op = "advance" /\ t.step = "commit"
        /\ AdvanceCursor(Seat, t.channel, t.target)
        /\ task' = [task EXCEPT ![p] = Idle]
        /\ UNCHANGED <<Rest, delivered, shown>>

\* The Claude Code adapter's advance is one request.
AdvanceUnread(p, c, id) ==
    /\ Free(p) /\ p \notin CodexAgents
    /\ AdvanceCursor(Seat, c, id)
    /\ task' = [task EXCEPT ![p] = Idle]
    /\ UNCHANGED <<Rest, delivered, shown>>

(***************************************************************************)
(* A request fails and ends the call; an adapter restarts and has          *)
(* delivered nothing.                                                      *)
(***************************************************************************)
Fail(p) ==
    /\ ~Free(p)
    /\ task' = [task EXCEPT ![p] = Idle]
    /\ UNCHANGED <<vars, delivered, shown>>

Restart(p) ==
    /\ p \in CodexAgents
    /\ task' = [task EXCEPT ![p] = Idle]
    /\ delivered' = [delivered EXCEPT ![p] = <<>>]
    /\ shown' = [shown EXCEPT ![p] = {}]
    /\ UNCHANGED vars

InboxNext ==
    \/ \E r \in Requests : Arrive(r)
    \/ \E p \in Agents :
           \/ ReadCursor(p) \/ FetchPage(p) \/ AdvanceFrom(p) \/ Walk(p)
           \/ Acknowledge(p) \/ Fail(p) \/ Restart(p)
           \/ \E c \in Channels :
                  \/ \E n \in Limits[p] : StartRead(p, c, n)
                  \/ \E id \in 1..MaxMessages : StartAdvance(p, c, id) \/ AdvanceUnread(p, c, id)
           \/ \E id \in 1..MaxMessages : \E offset \in 0..2 : Get(p, id, offset)

InboxSpec == InboxInit /\ [][InboxNext]_inboxVars

(***************************************************************************)
(* Properties.                                                             *)
(***************************************************************************)

\* Every variable has its shape; the ledger is bounded, names a message once,
\* and never claims more of a message than was returned.
InboxTypeOK ==
    /\ TypeOK
    /\ \A p \in Agents : task[p].op \in {"idle", "answered", "read", "advance"}
    /\ \A p \in CodexAgents :
           /\ Len(delivered[p]) <= MaxTracked
           /\ IsInjective([i \in DOMAIN delivered[p] |-> delivered[p][i].id])
           /\ \A i \in DOMAIN delivered[p] :
                  \A n \in 1..delivered[p][i].upto : <<delivered[p][i].id, n>> \in shown[p]

\* When the Codex adapter moves a cursor, every message it moves it over was
\* returned to its client completely since the adapter started, whatever
\* arrived, and whoever else moved the cursor, while it was checking.
AcknowledgedWasShown ==
    [][\A p \in CodexAgents, c \in Channels :
           task'[p] # task[p] =>
               \A id \in In(c) :
                   cursors[Seat][c] < id /\ id <= cursors'[Seat][c] =>
                       {id} \X (1..SizeOf(id)) \subseteq shown[p]]_inboxVars

\* A read returns the messages from its start on, none left out, and has_more
\* is the truth: FALSE if nothing lay beyond when the last page was made.
WindowIsTruthful ==
    \A p \in Agents :
        task[p].op = "answered" =>
            LET t == task[p]
                last == IF t.rows = <<>> THEN t.from ELSE Last(t.rows)
                beyond == {id \in In(t.channel) : id > last /\ id <= t.asof}
            IN  /\ t.rows = Sorted({id \in In(t.channel) : t.from < id /\ id <= last})
                /\ t.more <=> (beyond # {})
=============================================================================
