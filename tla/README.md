# AIvengers Wire in TLA+

This directory specifies the core of AIvengers Wire, a message relay and work
dispatcher for AI agents on one machine: a single-process asyncio relay over a
Unix socket, an SQLite database that the relay and the operator's command line
both write, and clients (a CLI, a Tk window, two MCP integrations). The modules
are translated from `src/aivengers_wire/`; source paths below are relative to
the repository's root.

## The system

| Part | State it keeps | Operations | What is hard, and what makes it correct |
|---|---|---|---|
| Wake queue, sessions, tasks (`wake.py`) | tables `wire_sessions`, `wire_tasks`, `wire_wakes` | register, heartbeat, unregister; task add, cancel; wake, ack, claim, complete; expiry; catch-up of a watch | The relay and the operator's CLI write one database; acks, claims and catch-up span several transactions; leases and ttls lapse during lock waits. One winner per task, cancellation defeats wakes, only a current incarnation reports an outcome, retries under one key make one wake. |
| Message table, cursors (`storage.py`) | tables `messages`, `cursors` | post, read, advance, list | Answers are lost and posts repeated under a `client_id`; processes of a seat share a cursor. A post is stored once, every answer stays true, a cursor hides nothing. |
| Seats, socket path (`storage.py`, `server.py`) | table `seats`, token files, `wire.sock` | add seat; start, close | Two resources that are checked in one system call and changed in another, by processes that may die in between. A row goes with its token; a relay that is up is the one clients reach. |
| Watches and fan-out (`server.py`) | `_subscribers`, timers, transport buffers | watch, fan-out, overflow, timeout, unsubscribe; wake delivery | Subscribe against post, disconnecting posters, slow listeners, timers, crashes. No lost and no double wake-up, order by id, everything arrives in the end. |
| Connections (`server.py`) | `_pending`, one handler task and one transport per connection | admit, evict, refuse, authenticate, serve, drop, close; shutdown | Eviction races a frame in flight, drip-fed frames, peers that never read, shutdown. Limits hold, refused is never served, handshakes end, resources are released. |
| Client library, CLI (`client.py`, `cli.py`) | none that is durable; an iterator per watch | one-shot requests, `watch`, paging | A lost answer leaves the outcome open; subscribe-then-read. |
| Clubhouse (`clubhouse.py`) | message cache per channel, current channel, busy flag, timers | refresh, select, post, close | Results applied after the user moved on, timers, trimmed pages, posts of others. Order, no gaps, the refresh never stops. |
| Claude Code and Codex integrations (`integrations/`) | last notice per session; which bodies were shown | post, reply, read, get, advance; notice hooks | Retries with unknown outcomes, trimmed pages, cursors that other processes move during a call, hooks that run at once. A reported outcome is true, only what was shown in full is acknowledged, a quiet hook swallows nothing. |
| Framing, peer credentials (`protocol.py`, `peercred.py`) | none | encode, decode, validate | Pure functions. |

Calls run client -> socket -> connection handler -> `_dispatch` -> store. A
handler runs without an await from its database call to the frames it queues
for subscribers; that is what makes one request one step. The operator's `wire task` commands open
the same database from another process, so they interleave between the relay's
transactions.

## Modules

- `WakeStore.tla` is `wake.py`. `sessions`, `tasks` and `wakes` are the tables
  (a row in state "none" does not exist), `now` is the wall clock both processes
  read. An action is one committed `BEGIN IMMEDIATE` transaction. `wake_ack`,
  `wake_claim` and the catch-up query commit several; between two of them the
  request is in `inflight`, and anything else may happen. `Preflight` is the
  expiry transaction of ack and claim; `AcknowledgeWake` and `ClaimWake` are the
  admitting ones. `StartReplay` (expiry), `SelectReplay` (the batch), `ReplayRow` (the
  read of one row's task), `FailPendingWake` (the mark, if that task is not open) and
  `EndReplay` are `pending_wakes_for_watch`; all but the last are transactions of their own. The
  operator's process comes between them, and so may a second relay on the same state directory
  (see *A closing relay unlinks* below). `tasks[t].fence` records the fencing token the claim
  reply hands out: the code returns it and never stores it, and no guard of the
  model reads it.
- `TaskGrant.tla` is what the ledger promises the operator: work that was granted
  is taken once, by a session that has not retired, and finished by it only while
  it has not retired. `WakeStore` implements it with `grant <- state and claimant
  of a task` and `retired <- the offline, expired and revoked sessions`.
- `WakeDelivery.tla` extends `WakeStore` with what `server.py` does with the wakes:
  binding a watch to a session, `_fanout_wake`, and the loop of
  `_deliver_pending_wakes` with its drains and re-checks. `stage` is where the
  handler of a connection awaits; `LoopIsFree` is the event loop: no other handler
  runs until the one that runs awaits, while the operator's process and the clock
  (`Beside`) go on. `out` is a transport's buffer, `owed` a write whose
  `record_wake_attempt` is to follow, `frames` counts writes.
- `Board.tla` is the message table, posting, cursors and message watches
  (`storage.py`, `server.py`), with the posters and listeners as `client.py` and
  `cli.py` write them. `copies` are requests on their way; `told` is the last answer a client got. A
  listener's `out` is the socket with its buffer; `filter` is its `_Subscription`.
  `stage`, `mark`, `after`, `handled` are the listener's own: they follow the
  subscribe-then-read pattern `WireClient.watch` documents.
- `AdapterPosts.tla` extends `Board` with the posts of the two MCP adapters: `_post`
  and `_classify` of `wire_mcp.py`, `wire_post` and `Transport.request` of the
  Codex `adapter.py`. The two differ in `MayHaveSent` and `Retried` only. `flying`
  holds the copies on their way, which outlive the attempts that sent them.
- `Inbox.tla` extends `Board` with reading and acknowledging through the adapters:
  `Pages` is the relay's answer to a read after `_fit_listing_response`, `FetchPage`
  the loop of `read_window` and `_window`, `delivered` the Codex ledger, `Walk` the
  loop of `wire_advance`. `shown` is what the agent was really given.
- `Notices.tla` extends `Inbox` with the two notice hooks, `notice.py` of Codex (a
  fingerprint in SQLite, one transaction) and `wire_notice.py` of Claude Code (a
  JSON file, read in one step and replaced in another).
- `Connections.tla` is a connection's life in `server.py`. The handler and the
  transport end at different times; that difference is what two of the findings are about.
- `StateDir.tla` is what processes do to the socket path and to a seat's token file,
  one action per system call: `start`, `_prepare_socket_path` and `close` of the relay,
  `add_seat` with the transaction of `connect`.
- `Clubhouse.tla` is `clubhouse.py`: the cache, the one background job, the
  refresh callbacks (`tracked` is the one in `refresh_after_id`, `strays` are those that
  nobody can cancel any more) and the relay's pages.
- `WakeStoreProofs`, `WakeDeliveryProofs`, `BoardProofs`, `AdapterPostsProofs`, `InboxProofs`
  (with the theorems of Notices), `ConnectionsProofs`, `StateDirProofs` and `ClubhouseProofs`
  have the theorems.
- The `MC...` modules only define constants, a state constraint and symmetry sets for TLC.

Operators that carry the words "seeded bug" are not part of any specification.
Each is a plausible mistake in the definition that follows it; substituting it
makes the property named for it fail, which shows that the property depends on
that line of the code.

## Runs

| Run | Instance | Shows |
|---|---|---|
| `WakeStoreClaims` | 1 seat, 2 sessions (with both capabilities or only `wake_ack`), 1 task, 2 wakes, clock 0..1, generations to 3 | `TypeOK`, `ClaimsAgree`, `CancelDefeatsWakes`, `FenceCurrent`, `FencedCompletion`, `WakeLifecycle`, `AdmittedInTime`, and that `TaskGrant` is implemented |
| `WakeStoreReplay` | 2 tasks, 2 wakes, 2 priorities, 1 key, batch of 1 | `KeyBindsOneWake`, `HonestRefusal` |
| `WakeDelivery` | 1 connection that watches for a session or for its seat, 2 wakes, batch of 2, buffer of 1 frame, 1 break, fair | `DeliveryTypeOK`, `AttemptsWereWritten`, `OnlyItsSession`, `NeverReplaysSettled`, `ReplaySparesItsWatch`, `QueuedWakesArrive` |
| `BoardWatch` | 1 listener of 2 channels, buffer of 2 frames, pages of 1, 3 rows, 1 crash, fair | `TypeOK`, `EventsInOrder`, `NoLostWakeup`, `AckedWereSeen`, `EveryMessageArrives` |
| `AdapterPosts` | 3 calls: one post by either adapter, another text under its `client_id`; 3 rows | `ReplyIsHonest`, `OutcomeIsTrue`, `StoredOnce` |
| `Connections` | 3 connections, 3 processes, limits 2 and 1, grace 1, deadline 1, fair | `TypeOK`, `PendingIsBounded`, `RefusedNeverServed`, `YoungAreSpared`, `HandshakesEnd` |
| `Clubhouse` | 2 channels, pages of 2, refreshes of 3, 4 rows, 2 stray callbacks | `TypeOK`, `CacheInOrder`, `GapsOnlyBeforeOwnPosts`, `NeverStalls`, no deadlock |
| `Inbox` | 2 channels, 3 messages of 1 and 2 slices, ledger of 2, walks of 2, reads of 2; 1 Codex hook and 2 Claude Code hooks that inspect 1 channel, 2 starts | `InboxTypeOK`, `WindowIsTruthful`, `QuietSwallowsNothing`, `AcknowledgedWasShown`, `HistoryOnlyGrows` |
| `StateDir` | 3 relays, 3 processes that add one seat | `ListenerIsReached`, `RowHasItsToken` |
| `ConnectionsRelease` | 1 connection, fair | violates `ClosedIsReleased` (finding 1) |
| `ConnectionsShutdown` | 1 connection | violates `ShutdownWaitsForNoHandshake` (finding 2) |
| `ClubhouseGap` | 1 channel, 3 rows | violates `NothingSkipped` (finding 3) |

Why the bounds are enough. A race over a task needs two claimants and two wakes;
a third one repeats the second. A ttl and a lease lapse independently because they
start at different times. Generation 3 lets a session unregister twice.
Idempotency needs one key, a second task to conflict with and a wake that was settled before the
retry. Catch-up needs two wakes in a batch, so that one is written after a drain. A third one,
which waits behind the batch, is not in `WakeDelivery`, where it would take the liveness check out
of reach: `QueuedWakesArrive` speaks of wakes in the batch (`Due`), so one behind it
owes its arrival to those before it being settled, which nobody promises. That a batch is
cut off is in `WakeStoreReplay`, whose batch is of one. A buffer of one
frame makes every write wait for the client, and overflow at the second. A post needs two
attempts and a second call to be retried, a second text to conflict. A
listener needs one page more than fits, one frame more than its buffer holds, and one crash.
The limits need one connection more than are allowed, of the same and of
another process. A Clubhouse refresh needs a message beyond its limit, and a trimmed page.
A ledger of two entries evicts at the third message; a body of two slices can be
returned in part; a walk of two ends before a target that is three messages away. The socket path
needs two relays that start and a third that is up; a token file needs an add that
crashes, one that meets its file, and one beside it.

`Inbox` has a state constraint, `OneBesideQ`: either the Codex agent works or the
hooks run, each beside the agent `q` that moves the cursors. The two meet in nothing
but those cursors, which `q` moves in every way they could.

Every other bound is a CONSTANT named `Max...`, and stands in the guard of the actions
that grow what it bounds. Three counters need no bound in the guards: `age` stops at
`MaxAge`, past which no guard tells it apart, `frames` at `MaxAttempts`, and `Preflight` and its like hold
one request per caller.

Deadlock is checked for Clubhouse, whose window always goes on. In the others a run
ends when the clock, the rows, the copies, the relays or the restarts are used
up, and in Connections when the relay is down, so there `CHECK_DEADLOCK FALSE`
is set. Symmetry is used over sessions, seats and tasks, channels, relays and adds, and the
Claude Code hooks, in runs without liveness properties only.

### Fairness

`Board!FairSpec`: a listener that is off comes back, and one that is connected
receives, reads its backlog and ends it. That is the loop of a client that wants
to keep listening, for which the pattern in `client.py` is written; nothing else
needs to happen: neither posts, nor timers, nor the relay's restarts, nor the acknowledgements.
`Connections!FairSpec`: time passes, and of each connection something that is due
happens: its handler resumes, its deadline or its abort timer fires. The event loop
guarantees that. Peers owe nothing: no fairness on `ReceiveFrame`, `Leave` or `Flush`.
`WakeDelivery!FairDelivery`: the relay finishes the request it is in and resumes
handlers that can go on; strong fairness is needed because the loop may be taken by
another handler again and again, and asyncio serves its ready handlers in turn. The client
reads, watches again after its watch has ended, and watches with a timeout, so that a
watch that has fallen silent ends and the next one catches up; that is how the
adapters' listeners are meant to run. Requests, other sessions, the operator and
early breaks owe nothing.

## Findings

1. *A dropped watch can stay open for ever* (`server.py:1009-1028`). `_drop_subscriber`
   closes the writer and leaves the rest to the connection's handler, which is the
   only one that runs `_close_writer` and its abort timer. That handler awaits the
   next request; `transport.close()` stops reading and reports the loss only
   after the buffer is flushed. A peer that stays connected and never reads keeps
   the socket, the task and the buffer, which the comment on
   `CLOSE_TIMEOUT_SECONDS` (`server.py:184-186`) excludes.
2. *Shutdown does wait for connections that authenticate* (`server.py:267-284`,
   `1166-1173`). The interrupt cancels asyncio's `Server.serve_forever`, which from
   Python 3.12 on awaits `wait_closed` itself before `WireServer.close` can refuse the
   pending connections. `README.md:184-185` says otherwise. The wait is bounded
   by the authentication deadline (`HandshakesEnd`) for those connections;
   authenticated ones are waited for without a bound.
3. *Clubhouse can skip a message of a peer for good* (`clubhouse.py:625`). An own
   post is appended to the cache, and the next refresh continues after the last
   cached id (`clubhouse.py:458-459`), so what a peer posted between the last refresh and the own
   post is never loaded. `GapsOnlyBeforeOwnPosts` shows that there is no other
   cause: not the trimmed pages, the limit, failures or channel changes.

### What the runs show besides

These are behaviours of the code that the properties had to allow for. The
properties name them as exceptions, so the runs show that they are the only ones.

- *The Codex adapter reports an `internal_error` as a refusal* (`adapter.py:187`:
  `wire_rejected`, outcome `not_confirmed`), although the relay may send it after its
  commit, as `wire_mcp.py:133-136` notes. `integrations/codex/README.md:100` asks never
  to translate an unknown outcome into a definite rejection. `OutcomeIsTrue`
  excludes exactly these calls (`broken`), so it does not catch their misreport; the
  Claude Code adapter is right in every case.
- *A closing relay unlinks whatever socket is at its path* (`server.py:290-294`), and
  so does a start that has found a stale one (`server.py:317`). A relay that came up between
  the look and the unlink goes on serving a socket nobody can reach.
  `ListenerIsReached` excludes relays that were up beside such an intruder (`disturbed`),
  so it does not say that start and close never cut a relay off: it says that nothing else
  does.
- *The advice to remove an orphaned token* (`storage.py:212-216`) is given as well while
  another add of the seat is between its file and its row. An operator who follows it
  then leaves a row without its token. `RowHasItsToken` excludes that (`meddled`). A
  crash, a failing commit or a failing insert only ever leaves a file without a row.
- *The first wake of a batch is written without a re-check* (`server.py:1134`): a
  cancellation between query and write slips through. `NeverReplaysSettled` allows
  "cancelled" for that and nothing else, as claims and expiry need the relay's loop.
- A hook that dies after it has recorded a notice and before it prints loses the
  notice; `QuietSwallowsNothing` speaks of what a hook *set out* to print. The Codex
  hook treats SessionStart like any prompt and stays quiet about what it has announced;
  the Claude Code hook repeats it (`wire_notice.py:194-196`).

## Proofs

Every invariant and every action property that a passing run checks is also a theorem,
for all values of the constants that satisfy the named assumptions, and so is the
refinement of `TaskGrant`. The assumptions give the constants their shape: null
values that are no members, input sets of the right types, positive batches and
limits. AdapterPosts and Inbox run Board without listeners, and Inbox with posts that have no
`client_id`: what posts and listeners do to each other is Board's subject. The one theorem
with a further hypothesis is `PostsAreStoredOnce`. There is no
bound on seats, sessions, tasks, wakes, rows, listeners, connections, hooks or
time in the proofs beyond the `Max...` constants, which may have any value.

Each module states an inductive invariant, proves that the initial states have it and
that every action keeps it, one step per action, and draws the properties from it.

### `WakeStoreProofs`

- `TypeCorrect`: `Spec => []TypeOK`.
- `ExactlyOnceClaims`, `CancellationWins`, `FencesStayCurrent`: the invariants
  `ClaimsAgree`, `CancelDefeatsWakes` and `FenceCurrent`, through
  `LedgerInv`, their conjunction with `TypeOK`. None of the three is inductive alone. That a
  claim keeps one winner needs that an open task has no claimed wake and that a
  claimable wake has no claimant (`OpenUnclaimed`); that cancellation reaches
  every open wake needs that a claim cannot reopen a task; that the fence is
  current needs the claimant recorded with the task to be the one whose wake won.
- `CompletionsAreFenced`: the action property `FencedCompletion`. In the step that
  records an outcome, `MayComplete` excludes the second disjunct of `FenceCurrent`
  (retired), so the token is current although the code never compares it.
- `StoreImplementsTaskGrant`: initial states map to initial states, every step to a
  step of `TaskGrant` or a stutter, under `LedgerInv`.
- `WakesFollowTheDiagram`: `WakeLifecycle`. Each action is shown to be a `StateMove` for
  every wake, whichever wakes it updates together.
- `OneWakePerKey`: `KeyBindsOneWake`, through `QueueInv`, which adds that the task of a wake
  is never removed (`TasksExist`) and `MarksAreDue`: when a catch-up query has read that a
  task is not open, and has yet to mark its wake, that task is still not open, because none
  ever opens again.
- `RefusalsAreHonest`: `HonestRefusal`. The mark tests the wake and not the task, which was read
  in an earlier transaction; `MarksAreDue` carries that reading over to the commit of the
  mark, whatever other processes did in between. For every other transaction `StateMove` says
  that it finds the task of a wake it marks failed not open in that very state.
- `AdmissionIsInTime`: `AdmittedInTime`. Only its own second transaction ends a request
  (`OnlyAdmissionEnds`), and that one checks ttl, session and task itself (`AdmissionChecks`).

Lemmas state what an UPDATE of the wakes does (`SetWakesType`, `SetWakesFrame`,
`SettleOpen`), what a resolution returns (`ResolutionType`), and what each ledger
operation keeps (`WinTaskKeeps`, `CancelTaskKeeps`, `CompleteTaskKeeps`, ...).

### `WakeDeliveryProofs`

The invariant is `DeliveryInv`: the store's `TypeOK`; one handler runs, and the relay's
transactions are its own (`OneRuns`); what the catch-up query has found is queued still, but for
the operator's cancellations (`QueryOK`); what a handler has yet to write and what a buffer
holds (`WatchOK`); attempts recorded and owed are covered by frames (`Written`).

- `DeliveryKeepsTheStore`: `DeliverySpec => Spec`, so each theorem about the store
  is one about delivery. It needs `OneRuns`: that no handler starts a
  request while another is in a query is what makes the requests of the relay one caller's.
- `DeliveryTypes`, `RecordsFollowWrites`: `DeliveryTypeOK` and `AttemptsWereWritten`.
- `WakesKeepTheirSession`: `OnlyItsSession`. A batch is of wakes for the session the
  watch was bound to when it was queried, and that binding only changes to "unwatched".
- `NothingSettledIsReplayed`: `NeverReplaysSettled`. Between query and first write the
  handler holds the loop (`fresh`), so only the operator's process moves its wakes.
- `CatchUpSparesItsWatch`: `ReplaySparesItsWatch`. While a handler sends, everything above the
  high-water mark was written by the fan-out.

### `BoardProofs`

- `PostsAreAnsweredHonestly`: `ReplyIsHonest`, through `BoardInv`: a `client_id` is
  bound to one row (`KeysAreUnique`), and each conflict that was answered names a row that is
  still there (`AnswersHold`). The property says of a conflict only what is
  *not* on the board, which a later copy could undo if the binding row were not known.
- `EventsStayInOrder`: `EventsInOrder`, through `QueuesInv`: no queued frame is ahead of
  the table, so that the next event is higher than any frame before it. `HandlePost` is
  the one action that adds an event; the others are shown to be a `QueueStep`.
- `BoardTypes`: `TypeOK`, through `ShapeInv`, on which the next two rest.
- `NoWakeupIsLost` and `CursorsHideNothing`: `NoLostWakeup` and `AckedWereSeen`, through one
  invariant, `WakeupInv`. A message is *accounted for* at a position of a listener's
  queue when the seat has handled it, when the listener is still to read it in its
  backlog, or when a frame before that position leads to it. `WatchMissesNothing` says so
  of every message a subscribed listener can see; `EventsAreNext` says it of those below
  each queued event, without which taking an event could step over an older message;
  `ConsumedInOrder` says that nothing below a listener's own position is unhandled, and
  `CursorsAreBehind` the same of the seat's cursor, which other listeners move as well.
  `ToldOfTheEnd` covers the listeners whose subscription is gone.

### `AdapterPostsProofs`

- `OutcomesAreTrue` and `RepliesAreHonest`: `OutcomeIsTrue` and
  `ReplyIsHonest`, through `PostInv`, which is `BoardInv` and, for each call,
  `CallOK`. That a post reported as not stored stays so needs `Accounted`: a
  call that is not uncertain has no copy on its way but the one it waits for, and no copy
  stored. What the store does comes from the lemmas of `BoardProofs`.
- `PostsAreStoredOnce`: `StoredOnce` under `KeysAreKept`: whoever repeats a post keeps
  its `client_id`. That is what both adapters tell the caller of an uncertain post to
  do; without it a post is stored twice, as the code intends. The run's calls satisfy it.

### `InboxProofs`

For Inbox the invariant is `InboxInv`. A page is a prefix of the messages after an id, so a
read has at any time exactly the window from its start to where it is (`ReadOK`, lemma
`JoinWindows`); a ledger claims only slices that were returned (`LedgerOK`); a walk has found
everything between the *current* cursor and where it is returned in full (`Returned`). The last
one is what survives when another process moves the cursor forward.

- `LedgersAreHonest`, `WindowsAreTruthful`: `InboxTypeOK` and `WindowIsTruthful`.
- `AcknowledgedIsRead`, `CursorsOnlyAdvance`: `AcknowledgedWasShown` and `HistoryOnlyGrows`.
- `HooksOnlyRead`: `NoticeSpec => InboxSpec`, which carries the four to Notices.
- `QuietHooksSwallowNothing`: `QuietSwallowsNothing`, through `NoticeInv`. A hook has the
  inventory of *some* earlier moment (`AskedOK`), so what it learnt must not
  grow stale: cursors only advance, and an announcement is never taken back. What is recorded in
  the file of the Claude Code hooks is backed by an announcement (`SeenIsAnnounced`),
  although hooks that run at once replace that file by what they read earlier. The
  fingerprint of the Codex hook is either of announced ids or of an inventory whose inspected
  channels had all been read (`FingerprintOK`); that no unread finding equals a fingerprint of the
  second kind is lemma `SameFinding`, since a quiet channel only sinks in the
  inventory (`RowsSink`).

### `ConnectionsProofs`

`ConnInv` has the shape of the variables and `Admitted`: the queue holds each connection
once, all of them authenticating, open and not refused (`Queue`), in order of age; a connection
outside its handshake is neither aged nor refused (`IdleAreFresh`); and the two limits.
Removing one from the queue keeps order and places (`WithoutFacts`).

- `ConnectionTypes`, `AdmissionIsBounded`, `RefusalsAreFinal`: `TypeOK`, `PendingIsBounded`,
  `RefusedNeverServed`. Without `IdleAreFresh` a newcomer might not be the youngest, nor
  unrefused.
- `TheYoungStay`: the action property `YoungAreSpared`. Only eviction reaches into
  another connection's handshake (`Close` finds every connection closed already, finding
  2); it takes the head of a queue that is in order of age, which is what makes it the oldest
  of those that fill the limit (`CandidateFacts`), whatever frame it has in flight.

### `StateDirProofs`

- `ListenersAreReached`: `ListenerIsReached`, through `SocketInv`. It adds that
  every relay past its probe saw nobody answer (`SawNobody`), and `PathIsHeld`: from
  its bind on, a relay has the path and nobody is about to unlink it, unless it counts
  as disturbed. The property alone speaks of listening relays and says nothing
  of a start that has looked and not yet unlinked.
- `RowsHaveTheirTokens`: `RowHasItsToken`, through `SeatInv`. The insert
  happens inside the writer's transaction (`OneWriter`), a row is never replaced (`RowIsFinal`),
  and an add between its file and its commit owns the file (`FileIsOwned`):
  without the last, the commit could not be known to meet the right token.

### `ClubhouseProofs`

`WindowInv` says that every cache is in order with gaps only before own posts (`CacheOK`), and
that a refresh has loaded what continues the cache *of its own channel* and stands where that ends
(`RefreshOK`), whatever was selected or posted since. A page is defined by the
rank of its rows; that it continues where the last one ended follows from
`RankIsOrdered` and `EveryRankIsTaken`.

- `WindowTypes`, `ChannelsShowInOrder`, `RefreshesLeaveNoGap`, `RefreshingGoesOn`: `TypeOK`,
  `CacheInOrder`, `GapsOnlyBeforeOwnPosts`, `NeverStalls`.

### Model-checked only

`EveryMessageArrives`, `QueuedWakesArrive` and `HandshakesEnd` are liveness under fairness:
they need ENABLED, which the provers do not reason about. So they are shown for
the instances of their runs alone. That Clubhouse cannot deadlock is checked by TLC
for the same reason. The three findings are counterexamples and need no proof.

To be proved about, the models avoid operators that are defined by recursion over data: the sorted
rows of a page are `Sorted`, each place chosen by its rank, a queue without one of its
members is `Without`, a limit is on a `Cardinality`. The one
recursive function, `ObserveAll`, folds the bodies a read returns into the ledger; that
it keeps the ledger honest is lemma `ObserveAllKeeps`.

## What is left out

- Wording, notes, titles, timestamps other than leases and ttls, `last_error`,
  logging, and the read-only listings.
- Bytes: `SUBSCRIBER_BUFFER_LIMIT` counts frames, a page counts messages and may
  be trimmed to any nonempty prefix (`_fit_listing_response` never goes below one row),
  a body is a number of slices. So are the pages of older relays, which lack
  `has_more`, and answers beyond an adapter's frame cap: a current relay sends neither.
- The listings of channels, sessions and wakes. Their rows change between two pages
  by design, so a complete listing is not promised.
- Message events on a watch that also gets wakes, and requests pipelined on a
  connection that is closing: Board has the former alone, the latter's answers reach nobody.
  The branch of `_fanout_wake` for a wake without a session is never taken, because
  `request_wake` resolves such wakes to a session or queues them.
- Requests the store refuses before it opens a transaction (validation).
- A listener's answer to its own post on a watched connection; posts come from
  other connections.
- Disk failures other than those of `add_seat`. A transaction commits or is rolled back as a whole.
- The Codex hook has one fingerprint for unread ids and one for uninspected
  channels, both hashed lists of integers. Hash collisions are left out, a list that is both
  is not (`InboxProofs`, `SameFinding`). Whose posts are unread is not told
  apart: neither hook looks at the sender.
- Framing, peer credentials, argument parsing, JSON-RPC loops, widgets: pure functions or output.
- A claimant that dies keeps its task until the operator cancels it, a user who posts
  again in Clubhouse after a failure posts twice, and `read --advance` acknowledges
  before it prints: by design, so no property is stated against them.

## Plan

Built so far, in this order: the wake store with its proofs, the board,
connections, Clubhouse; then wake delivery, the adapters' posts, inbox and
notices, the state directory; then the proofs of every invariant and action property.
What is left:

1. An abstract specification of the read cursor, what a seat has consumed and what it may
   skip, that Board and Inbox both implement.
2. The safety half of the three liveness properties as invariants of their own: what a
   connection in its handshake, a queued frame and a queued wake still have ahead of them.
3. Shorter proofs where the provers leave room: the steps of `InboxProofs` that unfold a whole
   record where one field is needed.
