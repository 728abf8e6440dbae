-------------------------- MODULE WakeDeliveryProofs --------------------------
(***************************************************************************)
(* Theorems about WakeDelivery, for any watches, sessions, wakes, batch    *)
(* and buffer sizes.                                                       *)
(***************************************************************************)
EXTENDS WakeDelivery, WakeStoreProofs

(***************************************************************************)
(* The inductive invariant.                                                *)
(***************************************************************************)

\* Frames that really are queued: a wake, or the end of the watch.
Frames == {End} \cup [wake: Wakes, live: BOOLEAN]

WatchShape ==
    /\ stage \in [Watches -> Stages]
    /\ bound \in [Watches -> Sessions \cup {None, Unwatched}]
    /\ out \in [Watches -> Seq(Frames)]
    /\ rest \in [Watches -> SUBSET Wakes]
    /\ fresh \in [Watches -> BOOLEAN]
    /\ owed \in {0} \cup Wakes
    /\ frames \in [Wakes -> 0..MaxAttempts] /\ seen \subseteq Wakes
    /\ breaks \in 0..MaxBreaks

\* The handler of x runs, or will go on to write without another drain.
Runs(x) == stage[x] \in {"catchup", "querying", "writing"}
Sends(x) == Runs(x) \/ stage[x] \in {"flushed", "drained"}

\* One handler runs at a time, and the relay's transactions are its own.
OneRuns ==
    /\ \A x, y \in Watches : Runs(x) /\ Runs(y) => x = y
    /\ \A x \in Watches :
           /\ stage[x] \in {"catchup", "writing"} => inflight[Relay] = Idle
           /\ stage[x] = "querying" =>
                  /\ inflight[Relay].op = "replay" /\ inflight[Relay].seat = SeatOf[x]
                  /\ inflight[Relay].session = bound[x] /\ bound[x] # Unwatched

\* Unsettled but for the operator.
Queued(w) == wakes[w].state \in {"pending", "cancelled"}

\* What the query has found, and what it has yet to look at.
QueryOK ==
    LET r == inflight[Relay]
    IN  r.op = "replay" =>
            /\ r.rows \cap r.offered = {}
            /\ ~r.selected => r.rows = {} /\ r.offered = {} /\ r.failing = 0
            /\ r.failing \notin r.rows \cup r.offered
            /\ \A w \in r.rows \cup r.offered :
                   /\ Queued(w) /\ wakes[w].seat = r.seat
                   /\ wakes[w].session \in {None, r.session}

\* The batch of a handler, no wake of which is settled before its first write.
BatchOK(x) ==
    /\ rest[x] # {} => stage[x] \in {"writing", "draining", "drained"}
    /\ \A w \in rest[x] :
           /\ wakes[w].state # "none" /\ wakes[w].seat = SeatOf[x]
           /\ bound[x] # Unwatched => wakes[w].session \in {None, bound[x]}
    /\ fresh[x] => /\ stage[x] = "writing" /\ bound[x] # Unwatched
                   /\ \A w \in rest[x] : Queued(w)

\* A buffer is within its limit until its watch ends.  What a catch-up finds
\* there beyond the high-water mark the fan-out has written.
BufferOK(x) ==
    /\ Len(out[x]) <= BufferLimit + 1
    /\ ~Ended(x) => Len(out[x]) <= BufferLimit
    /\ bound[x] # Unwatched => ~Ended(x)
    /\ Sends(x) /\ bound[x] # Unwatched =>
           \A i \in DOMAIN out[x] : i > HighWater => out[x][i].live

\* A transmission yet to be recorded is one that no attempt stands for.
Written(w) ==
    /\ wakes[w].attempts <= frames[w]
    /\ owed = w => wakes[w].attempts < frames[w] \/ frames[w] = MaxAttempts

WatchOK(x) == BatchOK(x) /\ BufferOK(x)

DeliveryInv ==
    /\ TypeOK /\ WatchShape /\ OneRuns /\ QueryOK
    /\ \A x \in Watches : WatchOK(x)
    /\ \A w \in Wakes : Written(w)

(***************************************************************************)
(* What the store does to the rows of wakes.                               *)
(***************************************************************************)

\* A row stays, and stays addressed as it is.
RowsStay ==
    \A w \in Wakes : wakes[w].state # "none" =>
        /\ wakes'[w].state # "none"
        /\ wakes'[w].seat = wakes[w].seat /\ wakes'[w].session = wakes[w].session
CountsStay == \A w \in Wakes : wakes'[w].attempts <= wakes[w].attempts
QueuedStay == \A w \in Wakes : Queued(w) => Queued(w)'

LEMMA SameRows ==
  ASSUME TypeOK, UNCHANGED wakes
  PROVE  RowsStay /\ CountsStay /\ QueuedStay
BY DEF RowsStay, CountsStay, QueuedStay, Queued, TypeOK, WakeRow

LEMMA SetWakesRows ==
  ASSUME TypeOK, NEW W, NEW state, SetWakes(W, state), state # "none"
  PROVE  RowsStay /\ CountsStay
BY DEF TypeOK, WakeRow, SetWakes, RowsStay, CountsStay

LEMMA RequestRows ==
  ASSUME TypeOK, NEW by, NEW target, NEW t, NEW explicit, NEW key, NEW priority, NEW ttl,
         RequestWake(by, target, t, explicit, key, priority, ttl)
  PROVE  RowsStay /\ CountsStay
<1>1. PICK w \in Wakes :
          /\ wakes[w].state = "none"
          /\ \E row : row.attempts = 0 /\ wakes' = [wakes EXCEPT ![w] = row]
  BY DEF RequestWake
<1>2. wakes[w].attempts \in Nat /\ wakes'[w].attempts = 0
  BY <1>1 DEF TypeOK, WakeRow
<1>3. \A v \in Wakes \ {w} : wakes'[v] = wakes[v] /\ wakes[v].attempts \in Nat
  BY <1>1 DEF TypeOK, WakeRow
<1> QED  BY <1>1, <1>2, <1>3 DEF RowsStay, CountsStay

LEMMA AdmissionRows ==
  ASSUME TypeOK, NEW c, AcknowledgeWake(c) \/ ClaimWake(c)
  PROVE  RowsStay /\ CountsStay
<1>1. CASE AcknowledgeWake(c)
  BY <1>1, SameRows, SetWakesRows DEF AcknowledgeWake
<1>2. CASE ClaimWake(c)
  <2> DEFINE r == inflight[c]
  <2>1. CASE WinTask(r)
    BY <2>1 DEF WinTask, TypeOK, WakeRow, RowsStay, CountsStay
  <2>2. ~WinTask(r) => UNCHANGED wakes \/ SetWakes({r.wake}, "expired")
                          \/ SetWakes({r.wake}, "failed")
    BY <1>2 DEF ClaimWake
  <2> QED  BY <2>1, <2>2, SameRows, SetWakesRows
<1> QED  BY <1>1, <1>2

\* Whatever runs beside the relay leaves what is queued to it queued.
LEMMA BesideRows ==
  ASSUME TypeOK, Beside
  PROVE  RowsStay /\ CountsStay /\ QueuedStay
<1>1. CASE UNCHANGED wakes
  BY <1>1, SameRows
<1>2. CASE \E t \in Tasks : CancelTask(t)
  <2>1. PICK W : SetWakes(W, "cancelled")
    BY <1>2 DEF CancelTask
  <2>2. QueuedStay
    BY <2>1 DEF TypeOK, WakeRow, SetWakes, QueuedStay, Queued
  <2> QED  BY <2>1, <2>2, SetWakesRows
<1> QED  BY <1>1, <1>2 DEF Beside, Tick, AddTask

LEMMA ServeRows ==
  ASSUME TypeOK, ServeStore
  PROVE  RowsStay /\ CountsStay /\ UNCHANGED inflight
<1>1. CASE SessionNext
  <2>1. UNCHANGED <<wakes, inflight>>
    BY <1>1 DEF SessionNext, RegisterSession, HeartbeatSession, UnregisterSession
  <2> QED  BY <2>1, SameRows
<1>2. CASE \E seat \in Seats : ListWakes(seat)
  BY <1>2, SetWakesRows DEF ListWakes
<1>3. CASE \E t \in Tasks, seat \in Seats, s \in Sessions,
             o \in {"completed", "failed"} : CompleteTask(t, seat, s, o)
  <2>1. UNCHANGED inflight
        /\ \E W, o : o # "none" /\ SetWakes(W, o)
    BY <1>3 DEF CompleteTask
  <2> QED  BY <2>1, SetWakesRows
<1> QED  BY <1>1, <1>2, <1>3 DEF ServeStore

(***************************************************************************)
(* Each step is one of the store's, or leaves it alone.                    *)
(***************************************************************************)
LEMMA FollowsTheStore ==
  ASSUME WatchShape, [DeliveryNext]_deliveryVars
  PROVE  [Next]_vars
<1>1. Relay \in Callers
  BY DeliveryAssumption
<1>2. CASE UNCHANGED store
  BY <1>2 DEF store, vars
<1>3. ASSUME NEW by \in Seats, NEW target \in Seats, NEW t \in Tasks,
             NEW explicit \in Sessions \cup {None}, NEW key \in Keys \cup {None},
             NEW priority \in Priorities, NEW ttl \in Ttls,
             Request(by, target, t, explicit, key, priority, ttl)
      PROVE  Next
  BY <1>3 DEF Request, Next, WakeNext
<1>4. CASE RecordAttempt
  <2>1. CASE RecordWakeAttempt(owed)
    <3>1. owed \in Wakes
      BY <1>4 DEF RecordAttempt, WatchShape
    <3> QED  BY <2>1, <3>1 DEF Next, WakeNext
  <2> QED  BY <1>2, <1>4, <2>1 DEF RecordAttempt
<1>5. ASSUME NEW x \in Watches, StartCatchUp(x)
      PROVE  [Next]_vars
  <2>1. CASE bound[x] = Unwatched
    BY <1>2, <1>5, <2>1 DEF StartCatchUp
  <2>2. CASE bound[x] # Unwatched
    <3>1. SeatOf[x] \in Seats /\ bound[x] \in Sessions \cup {None}
      BY <2>2, DeliveryAssumption DEF WatchShape
    <3> QED  BY <1>1, <1>5, <2>2, <3>1 DEF StartCatchUp, Next, CallerNext
  <2> QED  BY <2>1, <2>2
<1>6. ASSUME NEW x \in Watches, QueryBatch(x)
      PROVE  Next
  BY <1>1, <1>6 DEF QueryBatch, Next, CallerNext
<1>7. ASSUME NEW x \in Watches, NextWake(x)
      PROVE  [Next]_vars
  <2>1. UNCHANGED store \/ \E w \in rest[x] : GetWake(w)
    BY <1>7 DEF NextWake
  <2>2. rest[x] \subseteq Wakes
    BY DEF WatchShape
  <2> QED  BY <1>2, <2>1, <2>2 DEF Next, WakeNext
<1>8. CASE ServeStore
  BY <1>8 DEF ServeStore, Next, WakeNext, TaskNext
<1>9. CASE BeginAdmission
  BY <1>1, <1>9 DEF BeginAdmission, Next, CallerNext
<1>10. CASE EndAdmission
  BY <1>1, <1>10 DEF EndAdmission, Next, CallerNext
<1>11. CASE Beside
  BY <1>11 DEF Beside, Next, TaskNext
<1>12. ASSUME NEW x \in Watches,
              \/ \E s \in SessionsOf[x] : HandleWatch(x, s)
              \/ Drained(x) \/ OnWatchTimeout(x) \/ Leave(x) \/ ReadFrame(x)
       PROVE  UNCHANGED store
  BY <1>12 DEF HandleWatch, Drained, OnWatchTimeout, Leave, ReadFrame
<1>13. CASE UNCHANGED deliveryVars
  BY <1>2, <1>13 DEF deliveryVars
<1>14. CASE DeliveryNext
  BY <1>2, <1>3, <1>4, <1>5, <1>6, <1>7, <1>8, <1>9, <1>10, <1>11, <1>12, <1>14
     DEF DeliveryNext, Handle
<1> QED  BY <1>13, <1>14

(***************************************************************************)
(* What a step leaves alone.                                               *)
(***************************************************************************)
SameAt(y) ==
    /\ stage'[y] = stage[y] /\ bound'[y] = bound[y] /\ out'[y] = out[y]
    /\ rest'[y] = rest[y] /\ fresh'[y] = fresh[y]

LEMMA WatchStays ==
  ASSUME WatchShape, NEW y \in Watches, WatchOK(y), SameAt(y), RowsStay,
         fresh[y] => QueuedStay
  PROVE  WatchOK(y)'
<1>1. rest[y] \subseteq Wakes
  BY DEF WatchShape
<1>2. BatchOK(y)'
  <2>1. ASSUME NEW w \in rest[y]
        PROVE  /\ wakes'[w].state # "none" /\ wakes'[w].seat = SeatOf[y]
               /\ bound[y] # Unwatched => wakes'[w].session \in {None, bound[y]}
               /\ fresh[y] => Queued(w)'
    BY <1>1, <2>1 DEF WatchOK, BatchOK, RowsStay, QueuedStay
  <2> QED  BY <2>1 DEF WatchOK, BatchOK, SameAt
<1>3. BufferOK(y)'
  BY DEF WatchOK, BufferOK, SameAt, Ended, Sends, Runs
<1> QED  BY <1>2, <1>3 DEF WatchOK

LEMMA WrittenStays ==
  ASSUME TypeOK, TypeOK', WatchShape, NEW w \in Wakes, Written(w), CountsStay,
         UNCHANGED <<owed, frames>>
  PROVE  Written(w)'
<1>1. /\ wakes[w].attempts \in Nat /\ wakes'[w].attempts \in Nat /\ frames[w] \in Nat
      /\ wakes'[w].attempts <= wakes[w].attempts
  BY ConstantsAssumption DEF TypeOK, WakeRow, WatchShape, CountsStay
<1> QED  BY <1>1 DEF Written

\* While the loop is free no handler runs, and no query is under way.
LEMMA FreeLoop ==
  ASSUME DeliveryInv, LoopIsFree
  PROVE  /\ \A x \in Watches : ~Runs(x) /\ ~fresh[x]
         /\ inflight[Relay] = Idle /\ inflight[Relay].op # "replay"
<1>1. \A x \in Watches : ~Runs(x)
  BY DEF LoopIsFree, Runs
<1> QED  BY <1>1 DEF LoopIsFree, Runs, DeliveryInv, WatchOK, BatchOK, Idle

\* The handler that runs is alone, and so is its query.
LEMMA RunsAlone ==
  ASSUME DeliveryInv, NEW x \in Watches, Runs(x)
  PROVE  /\ \A y \in Watches \ {x} : ~Runs(y) /\ ~fresh[y]
         /\ stage[x] # "querying" => inflight[Relay] = Idle
         /\ inflight[Relay].op \notin {"ack", "claim"}
<1>1. \A y \in Watches \ {x} : ~Runs(y)
  BY DEF DeliveryInv, OneRuns
<1>2. \A y \in Watches \ {x} : ~fresh[y]
  BY <1>1 DEF DeliveryInv, WatchOK, BatchOK, Runs
<1>3. stage[x] # "querying" => inflight[Relay] = Idle
  BY DEF DeliveryInv, OneRuns, Runs
<1>4. inflight[Relay].op \notin {"ack", "claim"}
  BY <1>3 DEF DeliveryInv, OneRuns, Idle
<1> QED  BY <1>1, <1>2, <1>3, <1>4

LEMMA StoreStays ==
  ASSUME DeliveryInv, UNCHANGED <<store, owed, frames>>
  PROVE  /\ TypeOK' /\ QueryOK' /\ RowsStay /\ QueuedStay
         /\ \A w \in Wakes : Written(w)'
<1>1. TypeOK'
  BY DEF DeliveryInv, TypeOK, store
<1>2. QueryOK'
  BY DEF DeliveryInv, QueryOK, Queued, store
<1>3. RowsStay /\ QueuedStay
  BY SameRows DEF DeliveryInv, store
<1>4. \A w \in Wakes : Written(w)'
  BY DEF DeliveryInv, Written, store
<1> QED  BY <1>1, <1>2, <1>3, <1>4

(***************************************************************************)
(* The watch itself.                                                       *)
(***************************************************************************)

\* A watch is bound while its buffer is still open, and its handler goes on to
\* the query only if little is left there.
LEMMA HandleWatchKeeps ==
  ASSUME DeliveryInv, NEW x \in Watches, NEW s \in SessionsOf[x], HandleWatch(x, s)
  PROVE  DeliveryInv'
<1> USE DEF DeliveryInv
<1>1. /\ TypeOK' /\ QueryOK' /\ RowsStay /\ QueuedStay
      /\ \A w \in Wakes : Written(w)'
  BY StoreStays DEF HandleWatch
<1>2. /\ \A y \in Watches : ~Runs(y) /\ ~fresh[y]
      /\ inflight[Relay] = Idle
  BY FreeLoop DEF HandleWatch
<1>3. /\ s \in Sessions \cup {None}
      /\ out[x] \in Seq(Frames) /\ Len(out[x]) \in Nat /\ DOMAIN out[x] = 1..Len(out[x])
  BY DeliveryAssumption DEF WatchShape
<1>4. /\ stage'[x] = IF Len(out[x]) > HighWater THEN "flushing" ELSE "catchup"
      /\ bound'[x] = s
      /\ \A y \in Watches \ {x} : SameAt(y)
      /\ UNCHANGED <<inflight, out, rest, fresh>>
  BY DEF HandleWatch, Drains, WatchShape, SameAt, store
<1>5. WatchShape'
  BY <1>3 DEF HandleWatch, Drains, WatchShape, Stages
<1>6. OneRuns'
  BY <1>2, <1>4 DEF OneRuns, Runs, SameAt
<1>7. WatchOK(x)'
  <2>1. rest[x] = {} /\ ~fresh[x]
    BY <1>2 DEF HandleWatch, WatchOK, BatchOK
  <2>2. BatchOK(x)'
    BY <1>4, <2>1 DEF BatchOK
  <2>3. Sends(x)' => \A i \in DOMAIN out[x] : ~(i > HighWater)
    BY <1>3, <1>4, DeliveryAssumption DEF Sends, Runs
  <2>4. BufferOK(x)'
    BY <1>4, <2>3 DEF BufferOK, WatchOK, HandleWatch, Ended
  <2> QED  BY <2>2, <2>4 DEF WatchOK
<1>8. \A y \in Watches \ {x} : WatchOK(y)'
  BY <1>1, <1>4, WatchStays
<1> QED  BY <1>1, <1>5, <1>6, <1>7, <1>8

\* A drain returns once little is left in the buffer.
LEMMA DrainedKeeps ==
  ASSUME DeliveryInv, NEW x \in Watches, Drained(x)
  PROVE  DeliveryInv'
<1> USE DEF DeliveryInv
<1>1. /\ TypeOK' /\ QueryOK' /\ RowsStay /\ QueuedStay
      /\ \A w \in Wakes : Written(w)'
  BY StoreStays DEF Drained
<1>2. /\ \/ stage[x] = "flushing" /\ stage'[x] = "flushed"
         \/ stage[x] = "draining" /\ stage'[x] = "drained"
      /\ \A y \in Watches \ {x} : SameAt(y)
      /\ UNCHANGED <<inflight, bound, out, rest, fresh>>
  BY DEF Drained, WatchShape, SameAt, store
<1>3. WatchShape'
  BY DEF Drained, WatchShape, Stages
<1>4. OneRuns'
  BY <1>2 DEF OneRuns, Runs, SameAt
<1>5. WatchOK(x)'
  <2>1. BatchOK(x)'
    <3>1. wakes' = wakes
      BY DEF Drained, store
    <3> QED  BY <1>2, <3>1 DEF BatchOK, WatchOK
  <2>2. Len(out[x]) \in Nat /\ DOMAIN out[x] = 1..Len(out[x])
    BY DEF WatchShape
  <2>3. Len(out[x]) <= HighWater
    <3>1. \A m, n \in Nat : n <= m \div 4 => n <= m
      OBVIOUS
    <3> QED  BY <2>2, <3>1, DeliveryAssumption DEF Drained
  <2>4. \A i \in DOMAIN out[x] : ~(i > HighWater)
    BY <2>2, <2>3, DeliveryAssumption
  <2>5. BufferOK(x)'
    BY <1>2, <2>4 DEF BufferOK, WatchOK, Ended
  <2> QED  BY <2>1, <2>5 DEF WatchOK
<1>6. \A y \in Watches \ {x} : WatchOK(y)'
  BY <1>1, <1>2, WatchStays
<1> QED  BY <1>1, <1>3, <1>4, <1>5, <1>6

\* A watch that is still bound has room for the event that ends it.
LEMMA EndFits ==
  ASSUME DeliveryInv, NEW x \in Watches, bound[x] # Unwatched
  PROVE  /\ Append(out[x], End) \in Seq(Frames)
         /\ Len(Append(out[x], End)) = Len(out[x]) + 1
         /\ Len(out[x]) \in Nat /\ Len(out[x]) <= BufferLimit
         /\ \E i \in DOMAIN Append(out[x], End) : Append(out[x], End)[i] = End
<1>1. out[x] \in Seq(Frames) /\ Len(out[x]) \in Nat /\ End \in Frames
  BY DEF DeliveryInv, WatchShape, Frames
<1>2. Len(out[x]) <= BufferLimit
  BY DEF DeliveryInv, WatchOK, BufferOK
<1>3. /\ Append(out[x], End)[Len(out[x]) + 1] = End
      /\ Len(out[x]) + 1 \in DOMAIN Append(out[x], End)
  BY <1>1
<1> QED  BY <1>1, <1>2, <1>3
LEMMA DropKeeps ==
  ASSUME DeliveryInv, NEW x \in Watches, bound[x] # Unwatched, Drop(x)
  PROVE  /\ BufferOK(x)' /\ bound'[x] = Unwatched
         /\ out' \in [Watches -> Seq(Frames)]
         /\ bound' \in [Watches -> Sessions \cup {None, Unwatched}]
         /\ \A y \in Watches \ {x} : out'[y] = out[y] /\ bound'[y] = bound[y]
<1>1. /\ out \in [Watches -> Seq(Frames)]
      /\ bound \in [Watches -> Sessions \cup {None, Unwatched}]
  BY DEF DeliveryInv, WatchShape
<1>2. out'[x] = Append(out[x], End) /\ bound'[x] = Unwatched
  BY <1>1 DEF Drop
<1>3. Ended(x)' /\ Len(out'[x]) <= BufferLimit + 1
  BY <1>2, EndFits, DeliveryAssumption DEF Ended
<1>4. BufferOK(x)'
  BY <1>2, <1>3 DEF BufferOK
<1> QED  BY <1>1, <1>2, <1>4, EndFits DEF Drop

\* The timer fires while no handler runs; a handler that drains finds out.
LEMMA TimeoutKeeps ==
  ASSUME DeliveryInv, NEW x \in Watches, OnWatchTimeout(x)
  PROVE  DeliveryInv'
<1> USE DEF DeliveryInv
<1>1. /\ TypeOK' /\ QueryOK' /\ RowsStay /\ QueuedStay
      /\ \A w \in Wakes : Written(w)'
  BY StoreStays DEF OnWatchTimeout
<1>2. /\ \A y \in Watches : ~Runs(y) /\ ~fresh[y]
      /\ UNCHANGED <<inflight, stage, rest, fresh, wakes>>
  BY FreeLoop DEF OnWatchTimeout, store
<1>3. /\ BufferOK(x)' /\ bound'[x] = Unwatched
      /\ out' \in [Watches -> Seq(Frames)]
      /\ bound' \in [Watches -> Sessions \cup {None, Unwatched}]
      /\ \A y \in Watches \ {x} : SameAt(y)
  BY <1>2, DropKeeps DEF OnWatchTimeout, SameAt
<1>4. WatchShape'
  BY <1>3, DeliveryAssumption DEF WatchShape, OnWatchTimeout, Breaks
<1>5. OneRuns'
  BY <1>2 DEF OneRuns, Runs
<1>6. BatchOK(x)'
  BY <1>2, <1>3 DEF BatchOK, WatchOK
<1>7. \A y \in Watches \ {x} : WatchOK(y)'
  BY <1>1, <1>3, WatchStays
<1> QED  BY <1>1, <1>3, <1>4, <1>5, <1>6, <1>7 DEF WatchOK

\* A connection that is gone has nothing left.
LEMMA DisconnectKeeps ==
  ASSUME DeliveryInv, NEW x \in Watches, LoopIsFree, Disconnect(x),
         UNCHANGED <<store, owed, frames, seen>>, breaks' \in 0..MaxBreaks
  PROVE  DeliveryInv'
<1> USE DEF DeliveryInv
<1>1. /\ TypeOK' /\ QueryOK' /\ RowsStay /\ QueuedStay
      /\ \A w \in Wakes : Written(w)'
  BY StoreStays
<1>2. \A y \in Watches : ~Runs(y) /\ ~fresh[y]
  BY FreeLoop
<1>3. /\ stage'[x] = "off" /\ bound'[x] = Unwatched /\ out'[x] = <<>>
      /\ rest'[x] = {} /\ fresh'[x] = FALSE
      /\ \A y \in Watches \ {x} : SameAt(y)
  BY DEF Disconnect, WatchShape, SameAt
<1>4. WatchShape'
  <2>1. <<>> \in Seq(Frames)
    OBVIOUS
  <2>2. out' \in [Watches -> Seq(Frames)]
    BY <2>1 DEF Disconnect, WatchShape
  <2>3. /\ stage' \in [Watches -> Stages]
        /\ bound' \in [Watches -> Sessions \cup {None, Unwatched}]
    BY DEF Disconnect, WatchShape, Stages
  <2>4. rest' \in [Watches -> SUBSET Wakes] /\ fresh' \in [Watches -> BOOLEAN]
    BY DEF Disconnect, WatchShape
  <2> QED  BY <2>2, <2>3, <2>4 DEF WatchShape
<1>5. OneRuns'
  BY <1>2, <1>3 DEF OneRuns, Runs, SameAt
<1>6. BatchOK(x)'
  BY <1>3 DEF BatchOK
<1>7. BufferOK(x)'
  BY <1>3, DeliveryAssumption DEF BufferOK, Ended, Sends, Runs
<1>8. \A y \in Watches \ {x} : WatchOK(y)'
  BY <1>1, <1>3, WatchStays
<1> QED  BY <1>1, <1>4, <1>5, <1>6, <1>7, <1>8 DEF WatchOK

LEMMA LeaveKeeps ==
  ASSUME DeliveryInv, NEW x \in Watches, Leave(x)
  PROVE  DeliveryInv'
<1>1. breaks' \in 0..MaxBreaks
  BY DeliveryAssumption DEF DeliveryInv, WatchShape, Leave, Breaks
<1> QED  BY <1>1, DisconnectKeeps DEF Leave

\* What the client reads is the head of its buffer; the rest moves up.
LEMMA ReadFrameKeeps ==
  ASSUME DeliveryInv, NEW x \in Watches, ReadFrame(x)
  PROVE  DeliveryInv'
<1> USE DEF DeliveryInv
<1>1. CASE Head(out[x]) = End
  BY <1>1, DisconnectKeeps DEF ReadFrame, WatchShape
<1>2. CASE Head(out[x]) # End
  <2>1. /\ out' = [out EXCEPT ![x] = Tail(out[x])]
        /\ seen' = seen \cup {Head(out[x]).wake}
        /\ UNCHANGED <<stage, bound, rest, fresh, store, owed, frames, breaks>>
    BY <1>2 DEF ReadFrame
  <2>2. /\ TypeOK' /\ QueryOK' /\ RowsStay /\ QueuedStay
        /\ \A w \in Wakes : Written(w)'
    BY <2>1, StoreStays
  <2>3. out[x] \in Seq(Frames) /\ out[x] # <<>> /\ out'[x] = Tail(out[x])
    BY <2>1 DEF WatchShape, ReadFrame
  <2>4. /\ out'[x] \in Seq(Frames) /\ Head(out[x]) \in Frames
        /\ Len(out'[x]) = Len(out[x]) - 1 /\ Len(out[x]) \in Nat
        /\ DOMAIN out'[x] = 1..Len(out'[x]) /\ DOMAIN out[x] = 1..Len(out[x])
        /\ \A i \in DOMAIN out'[x] : i + 1 \in DOMAIN out[x] /\ out'[x][i] = out[x][i + 1]
    BY <2>3
  <2>5. WatchShape'
    <3>1. Head(out[x]).wake \in Wakes
      BY <1>2, <2>4 DEF Frames
    <3> QED  BY <2>1, <2>4, <3>1 DEF WatchShape
  <2>6. OneRuns'
    BY <2>1 DEF OneRuns, Runs, store
  <2>7. WatchOK(x)'
    <3>1. BatchOK(x)'
      BY <2>1 DEF BatchOK, WatchOK, Queued, store
    <3>2. Ended(x)' => Ended(x)
      BY <2>4 DEF Ended
    <3>3. /\ Len(out'[x]) <= BufferLimit
          /\ Len(out[x]) <= BufferLimit + 1
      BY <2>4, DeliveryAssumption DEF BufferOK, WatchOK
    <3>4. ASSUME Sends(x), bound[x] # Unwatched, NEW i \in DOMAIN out'[x], i > HighWater
          PROVE  out'[x][i].live
      <4>1. i + 1 \in DOMAIN out[x] /\ i + 1 > HighWater /\ out'[x][i] = out[x][i + 1]
        BY <2>4, <3>4, DeliveryAssumption
      <4> QED  BY <3>4, <4>1 DEF BufferOK, WatchOK
    <3>5. (Sends(x)' <=> Sends(x)) /\ bound'[x] = bound[x]
      BY <2>1 DEF Sends, Runs
    <3>6. BufferOK(x)'
      BY <2>4, <3>2, <3>3, <3>4, <3>5, DeliveryAssumption DEF BufferOK, WatchOK
    <3> QED  BY <3>1, <3>6 DEF WatchOK
  <2>8. \A y \in Watches \ {x} : WatchOK(y)'
    <3>1. \A y \in Watches \ {x} : SameAt(y)
      BY <2>1 DEF SameAt, WatchShape
    <3> QED  BY <2>2, <3>1, WatchStays
  <2> QED  BY <2>2, <2>5, <2>6, <2>7, <2>8
<1> QED  BY <1>1, <1>2

(***************************************************************************)
(* Steps that only touch the tables.                                       *)
(***************************************************************************)
LEMMA QueryRows ==
  ASSUME TypeOK, inflight[Relay].op = "replay"
  PROVE  inflight[Relay] \in Replay
BY DeliveryAssumption DEF TypeOK, Idle, Admission

LEMMA QueryStays ==
  ASSUME TypeOK, QueryOK, RowsStay, QueuedStay, UNCHANGED inflight
  PROVE  QueryOK'
<1> SUFFICES ASSUME inflight[Relay].op = "replay",
                    NEW w \in inflight[Relay].rows \cup inflight[Relay].offered
             PROVE  /\ Queued(w)' /\ wakes'[w].seat = inflight[Relay].seat
                    /\ wakes'[w].session \in {None, inflight[Relay].session}
  BY DEF QueryOK
<1>1. w \in Wakes
  BY QueryRows DEF Replay
<1>2. Queued(w) /\ wakes[w].state # "none"
  BY DEF QueryOK, Queued
<1> QED  BY <1>1, <1>2 DEF QueryOK, RowsStay, QueuedStay

\* The handlers are where they were, over tables that moved on.
LEMMA TablesKeep ==
  ASSUME DeliveryInv, TypeOK', RowsStay, CountsStay, OneRuns', QueryOK',
         \A x \in Watches : fresh[x] => QueuedStay,
         UNCHANGED <<handlers, owed, frames, seen, breaks>>
  PROVE  DeliveryInv'
<1> USE DEF DeliveryInv
<1>1. \A x \in Watches : SameAt(x)
  BY DEF SameAt, handlers
<1>2. WatchShape'
  BY DEF WatchShape, handlers
<1>3. \A x \in Watches : WatchOK(x)'
  BY <1>1, WatchStays
<1>4. \A w \in Wakes : Written(w)'
  BY WrittenStays
<1> QED  BY <1>2, <1>3, <1>4

LEMMA ServeKeeps ==
  ASSUME DeliveryInv, TypeOK', ServeStore
  PROVE  DeliveryInv'
<1> USE DEF DeliveryInv
<1>1. RowsStay /\ CountsStay /\ UNCHANGED inflight
  BY ServeRows
<1>2. LoopIsFree /\ UNCHANGED <<handlers, owed, frames, seen, breaks>>
  BY DEF ServeStore
<1>3. /\ \A x \in Watches : ~Runs(x) /\ ~fresh[x]
      /\ inflight[Relay].op # "replay"
  BY <1>2, FreeLoop
<1>4. OneRuns' /\ QueryOK'
  BY <1>1, <1>2, <1>3 DEF OneRuns, Runs, QueryOK, handlers
<1> QED  BY <1>1, <1>2, <1>3, <1>4, TablesKeep

LEMMA AdmissionKeeps ==
  ASSUME DeliveryInv, TypeOK', BeginAdmission \/ EndAdmission
  PROVE  DeliveryInv'
<1> USE DEF DeliveryInv
<1>1. UNCHANGED <<handlers, owed, frames, seen, breaks>>
  BY DEF BeginAdmission, EndAdmission
<1>2. /\ RowsStay /\ CountsStay /\ inflight'[Relay].op # "replay"
      /\ \A x \in Watches : ~Runs(x) /\ ~fresh[x]
  <2>1. CASE BeginAdmission
    <3>1. PICK op \in {"ack", "claim"}, w \in Wakes, seat \in Seats, s \in Sessions :
              Preflight(Relay, op, w, seat, s)
      BY <2>1 DEF BeginAdmission
    <3>2. RowsStay /\ CountsStay
      BY <3>1, SetWakesRows DEF Preflight
    <3>3. inflight'[Relay].op = op
      BY <3>1, DeliveryAssumption DEF Preflight, TypeOK
    <3> QED  BY <2>1, <3>2, <3>3, FreeLoop DEF BeginAdmission
  <2>2. CASE EndAdmission
    <3>1. RowsStay /\ CountsStay
      BY <2>2, AdmissionRows DEF EndAdmission
    <3>2. inflight'[Relay] = Idle /\ inflight[Relay].op \in {"ack", "claim"}
      BY <2>2, DeliveryAssumption DEF EndAdmission, AcknowledgeWake, ClaimWake, TypeOK
    <3>3. \A x \in Watches : ~Runs(x) /\ ~fresh[x]
      BY <3>2, RunsAlone DEF WatchOK, BatchOK, Runs
    <3> QED  BY <3>1, <3>2, <3>3 DEF Idle
  <2> QED  BY <2>1, <2>2
<1>3. OneRuns' /\ QueryOK'
  BY <1>1, <1>2 DEF OneRuns, Runs, QueryOK, handlers
<1> QED  BY <1>1, <1>2, <1>3, TablesKeep

LEMMA BesideKeeps ==
  ASSUME DeliveryInv, TypeOK', Beside
  PROVE  DeliveryInv'
<1> USE DEF DeliveryInv
<1>1. RowsStay /\ CountsStay /\ QueuedStay
  BY BesideRows
<1>2. UNCHANGED <<handlers, owed, frames, seen, breaks, inflight>>
  BY DEF Beside, Tick, AddTask, CancelTask
<1>3. OneRuns'
  BY <1>2 DEF OneRuns, Runs, handlers
<1> QED  BY <1>1, <1>2, <1>3, QueryStays, TablesKeep

\* The write that is recorded is the one that was owed.
LEMMA RecordKeeps ==
  ASSUME DeliveryInv, TypeOK', RecordAttempt
  PROVE  DeliveryInv'
<1> USE DEF DeliveryInv
<1>1. owed \in Wakes /\ owed' = 0
      /\ UNCHANGED <<handlers, frames, seen, breaks, inflight>>
  BY DEF RecordAttempt, RecordWakeAttempt, WatchShape, store
<1>2. /\ \A w \in Wakes \ {owed} : wakes'[w] = wakes[w]
      /\ \/ wakes' = wakes
         \/ /\ wakes'[owed] = [wakes[owed] EXCEPT !.attempts = @ + 1]
            /\ wakes[owed].attempts < MaxAttempts
  BY <1>1 DEF RecordAttempt, RecordWakeAttempt, store, TypeOK
<1>3. \A w \in Wakes : /\ wakes'[w].state = wakes[w].state
                       /\ wakes'[w].seat = wakes[w].seat
                       /\ wakes'[w].session = wakes[w].session
  BY <1>1, <1>2 DEF TypeOK, WakeRow
<1>4. RowsStay /\ QueuedStay
  BY <1>3 DEF RowsStay, QueuedStay, Queued
<1>5. OneRuns'
  BY <1>1 DEF OneRuns, Runs, handlers
<1>6. QueryOK' /\ WatchShape'
  BY <1>1, <1>4, QueryStays DEF WatchShape, handlers
<1>7. \A x \in Watches : WatchOK(x)'
  <2>1. \A x \in Watches : SameAt(x)
    BY <1>1 DEF SameAt, handlers
  <2> QED  BY <1>4, <2>1, WatchStays
<1>8. ASSUME NEW w \in Wakes PROVE Written(w)'
  <2>1. /\ wakes[w].attempts \in Nat /\ frames[w] \in 0..MaxAttempts /\ MaxAttempts \in Nat
        /\ owed' # w
    BY <1>1, ConstantsAssumption DEF TypeOK, WakeRow, WatchShape, Wakes
  <2>2. CASE wakes'[w] = wakes[w]
    BY <1>1, <2>1, <2>2 DEF Written
  <2>3. CASE wakes'[w] # wakes[w]
    <3>1. w = owed /\ wakes[w].attempts < MaxAttempts
          /\ wakes'[w] = [wakes[w] EXCEPT !.attempts = @ + 1]
      BY <1>2, <2>3
    <3>2. wakes'[w].attempts = wakes[w].attempts + 1
      BY <3>1 DEF TypeOK, WakeRow
    <3>3. wakes[w].attempts < frames[w]
      BY <2>1, <3>1 DEF Written
    <3> QED  BY <1>1, <2>1, <3>2, <3>3 DEF Written
  <2> QED  BY <2>2, <2>3
<1> QED  BY <1>5, <1>6, <1>7, <1>8

(***************************************************************************)
(* Catching up.                                                            *)
(***************************************************************************)

\* A handler that goes on is the only one, and no transaction is under way but
\* its own.
LEMMA GoesOnAlone ==
  ASSUME DeliveryInv, NEW x \in Watches, LoopIsFree \/ Runs(x)
  PROVE  /\ \A y \in Watches \ {x} : ~Runs(y) /\ ~fresh[y]
         /\ stage[x] # "querying" => inflight[Relay] = Idle
BY FreeLoop, RunsAlone

LEMMA StartCatchUpKeeps ==
  ASSUME DeliveryInv, TypeOK', NEW x \in Watches, StartCatchUp(x)
  PROVE  DeliveryInv'
<1> USE DEF DeliveryInv
<1>1. /\ stage[x] \in {"flushed", "catchup"} /\ (LoopIsFree \/ Runs(x))
      /\ UNCHANGED <<bound, out, rest, fresh, owed, frames, seen, breaks>>
  BY DEF StartCatchUp, Running, Runs
<1>2. /\ \A y \in Watches \ {x} : ~Runs(y) /\ ~fresh[y]
      /\ inflight[Relay] = Idle /\ rest[x] = {} /\ ~fresh[x] /\ Sends(x)
  BY <1>1, GoesOnAlone DEF WatchOK, BatchOK, Sends, Runs
<1>3. CASE bound[x] = Unwatched
  <2>1. /\ stage' = [stage EXCEPT ![x] = "serving"] /\ UNCHANGED store
    BY <1>3 DEF StartCatchUp
  <2>2. /\ QueryOK' /\ RowsStay /\ QueuedStay /\ \A w \in Wakes : Written(w)'
    BY <1>1, <2>1, StoreStays
  <2>3. WatchShape'
    BY <1>1, <2>1 DEF WatchShape, Stages
  <2>4. stage'[x] = "serving" /\ \A y \in Watches \ {x} : SameAt(y)
    BY <1>1, <2>1 DEF WatchShape, SameAt
  <2>5. OneRuns'
    BY <1>2, <2>4 DEF OneRuns, Runs, SameAt
  <2>6. WatchOK(x)'
    BY <1>1, <1>2, <1>3, <2>4 DEF WatchOK, BatchOK, BufferOK, Ended
  <2>7. \A y \in Watches \ {x} : WatchOK(y)'
    BY <2>2, <2>4, WatchStays
  <2> QED  BY <2>2, <2>3, <2>5, <2>6, <2>7
<1>4. CASE bound[x] # Unwatched
  <2>1. /\ stage' = [stage EXCEPT ![x] = "querying"]
        /\ StartReplay(Relay, SeatOf[x], bound[x])
    BY <1>4 DEF StartCatchUp
  <2>2. RowsStay /\ CountsStay
    BY <2>1, SetWakesRows DEF StartReplay
  <2>3. inflight'[Relay] = [op |-> "replay", seat |-> SeatOf[x], session |-> bound[x],
                            rows |-> {}, selected |-> FALSE, offered |-> {},
                            failing |-> 0]
    BY <2>1, DeliveryAssumption DEF StartReplay, TypeOK
  <2>4. WatchShape'
    BY <1>1, <2>1 DEF WatchShape, Stages
  <2>5. stage'[x] = "querying" /\ \A y \in Watches \ {x} : SameAt(y)
    BY <1>1, <2>1 DEF WatchShape, SameAt
  <2>6. OneRuns'
    BY <1>1, <1>2, <1>4, <2>3, <2>5 DEF OneRuns, Runs, SameAt
  <2>7. QueryOK'
    BY <2>3 DEF QueryOK
  <2>8. WatchOK(x)'
    BY <1>1, <1>2, <1>4, <2>5 DEF WatchOK, BatchOK, BufferOK, Ended
  <2>9. \A y \in Watches \ {x} : WatchOK(y)'
    BY <1>2, <2>2, <2>5, WatchStays
  <2>10. \A w \in Wakes : Written(w)'
    BY <1>1, <2>2, WrittenStays
  <2> QED  BY <2>4, <2>6, <2>7, <2>8, <2>9, <2>10
<1> QED  BY <1>3, <1>4

\* The rows of the query: what it selects is pending, and what it has refused
\* is not on offer.
LEMMA QueryRowsKeep ==
  ASSUME DeliveryInv, TypeOK', inflight[Relay].op = "replay",
         \/ SelectReplay(Relay)
         \/ \E w \in Wakes : ReplayRow(Relay, w)
         \/ FailPendingWake(Relay)
  PROVE  /\ QueryOK' /\ RowsStay /\ CountsStay
         /\ inflight'[Relay].op = "replay"
         /\ inflight'[Relay].seat = inflight[Relay].seat
         /\ inflight'[Relay].session = inflight[Relay].session
<1> USE DEF DeliveryInv
<1> DEFINE r == inflight[Relay]
<1>1. r \in Replay /\ Relay \in Callers
  BY QueryRows, DeliveryAssumption
<1>2. CASE SelectReplay(Relay)
  <2>1. /\ inflight'[Relay] = [r EXCEPT !.selected = TRUE, !.rows = FirstBatch(r)]
        /\ ~r.selected /\ UNCHANGED wakes
    BY <1>1, <1>2 DEF SelectReplay, TypeOK
  <2>2. /\ inflight'[Relay].op = "replay" /\ inflight'[Relay].seat = r.seat
        /\ inflight'[Relay].session = r.session /\ inflight'[Relay].rows = FirstBatch(r)
        /\ inflight'[Relay].offered = r.offered /\ r.offered = {}
        /\ inflight'[Relay].failing = r.failing /\ r.failing = 0
        /\ inflight'[Relay].selected
    BY <1>1, <2>1 DEF Replay, QueryOK
  <2>3. \A w \in FirstBatch(r) : /\ wakes[w].state = "pending" /\ wakes[w].seat = r.seat
                                 /\ wakes[w].session \in {None, r.session}
    BY DEF FirstBatch, Eligible
  <2>4. QueryOK'
    <3>1. 0 \notin FirstBatch(r)
      BY ConstantsAssumption DEF FirstBatch, Eligible, Wakes
    <3> QED  BY <2>1, <2>2, <2>3, <3>1 DEF QueryOK, Queued
  <2> QED  BY <2>1, <2>2, <2>4, SameRows
<1>3. ASSUME NEW w \in Wakes, ReplayRow(Relay, w)
      PROVE  /\ QueryOK' /\ RowsStay /\ CountsStay
             /\ inflight'[Relay].op = "replay" /\ inflight'[Relay].seat = r.seat
             /\ inflight'[Relay].session = r.session
  <2>1. /\ w \in r.rows /\ w \notin r.offered /\ r.selected /\ r.failing = 0
        /\ UNCHANGED wakes
    BY <1>3 DEF ReplayRow, QueryOK
  <2>2. CASE tasks[wakes[w].task].state = "open"
    <3>1. inflight'[Relay] = [r EXCEPT !.rows = @ \ {w}, !.offered = @ \cup {w}]
      BY <1>1, <1>3, <2>2 DEF ReplayRow, TypeOK
    <3>2. /\ inflight'[Relay].op = "replay" /\ inflight'[Relay].seat = r.seat
          /\ inflight'[Relay].session = r.session
          /\ inflight'[Relay].rows = r.rows \ {w}
          /\ inflight'[Relay].offered = r.offered \cup {w}
          /\ inflight'[Relay].selected = r.selected
          /\ inflight'[Relay].failing = 0
      BY <1>1, <2>1, <3>1 DEF Replay
    <3>3. 0 \notin r.rows \cup r.offered
      BY <2>1 DEF QueryOK
    <3>4. QueryOK'
      BY <2>1, <3>2, <3>3 DEF QueryOK, Queued
    <3> QED  BY <2>1, <3>2, <3>4, SameRows
  <2>3. CASE tasks[wakes[w].task].state # "open"
    <3>1. inflight'[Relay] = [r EXCEPT !.rows = @ \ {w}, !.failing = w]
      BY <1>1, <1>3, <2>3 DEF ReplayRow, TypeOK
    <3>2. /\ inflight'[Relay].op = "replay" /\ inflight'[Relay].seat = r.seat
          /\ inflight'[Relay].session = r.session
          /\ inflight'[Relay].rows = r.rows \ {w}
          /\ inflight'[Relay].offered = r.offered
          /\ inflight'[Relay].selected = r.selected
          /\ inflight'[Relay].failing = w
      BY <1>1, <3>1 DEF Replay
    <3>3. QueryOK'
      BY <2>1, <3>2 DEF QueryOK, Queued
    <3> QED  BY <2>1, <3>2, <3>3, SameRows
  <2> QED  BY <2>2, <2>3
<1>4. CASE FailPendingWake(Relay)
  <2>1. /\ inflight'[Relay] = [r EXCEPT !.failing = 0]
        /\ SetWakes({r.failing} \cap {v \in Wakes : wakes[v].state = "pending"}, "failed")
        /\ r.failing # 0
    BY <1>1, <1>4 DEF FailPendingWake, TypeOK
  <2>2. /\ inflight'[Relay].op = "replay" /\ inflight'[Relay].seat = r.seat
        /\ inflight'[Relay].session = r.session
        /\ inflight'[Relay].rows = r.rows
        /\ inflight'[Relay].offered = r.offered
        /\ inflight'[Relay].selected = r.selected
        /\ inflight'[Relay].failing = 0
    BY <1>1, <2>1 DEF Replay
  <2>3. \A v \in Wakes \ {r.failing} : wakes'[v] = wakes[v]
    BY <2>1 DEF SetWakes
  <2>4. r.rows \cup r.offered \subseteq Wakes \ {r.failing} /\ 0 \notin Wakes
    BY <1>1, ConstantsAssumption DEF Replay, QueryOK, Wakes
  <2>5. r.selected
    BY <2>1 DEF QueryOK
  <2>6. QueryOK'
    BY <2>2, <2>3, <2>4, <2>5 DEF QueryOK, Queued
  <2> QED  BY <2>1, <2>2, <2>6, SetWakesRows
<1> QED  BY <1>2, <1>3, <1>4

LEMMA QueryBatchKeeps ==
  ASSUME DeliveryInv, TypeOK', NEW x \in Watches, QueryBatch(x)
  PROVE  DeliveryInv'
<1> USE DEF DeliveryInv
<1> DEFINE r == inflight[Relay]
<1>1. /\ stage[x] = "querying" /\ UNCHANGED <<bound, out, owed, frames, seen, breaks>>
      /\ r.op = "replay" /\ r.seat = SeatOf[x] /\ r.session = bound[x]
      /\ bound[x] # Unwatched
  BY DEF QueryBatch, OneRuns
<1>2. /\ \A y \in Watches \ {x} : ~Runs(y) /\ ~fresh[y]
      /\ rest[x] = {} /\ ~fresh[x] /\ Sends(x)
  BY <1>1, GoesOnAlone DEF WatchOK, BatchOK, Sends, Runs
<1>3. CASE /\ \/ SelectReplay(Relay)
              \/ \E w \in Wakes : ReplayRow(Relay, w)
              \/ FailPendingWake(Relay)
           /\ UNCHANGED <<stage, rest, fresh>>
  <2>1. /\ QueryOK' /\ RowsStay /\ CountsStay
        /\ inflight'[Relay].op = "replay" /\ inflight'[Relay].seat = r.seat
        /\ inflight'[Relay].session = r.session
    BY <1>1, <1>3, QueryRowsKeep
  <2>2. OneRuns'
    BY <1>1, <1>2, <1>3, <2>1 DEF OneRuns, Runs
  <2> QED  BY <1>1, <1>2, <1>3, <2>1, <2>2, TablesKeep DEF handlers
<1>4. CASE /\ EndReplay(Relay)
           /\ stage' = [stage EXCEPT ![x] = "writing"]
           /\ rest' = [rest EXCEPT ![x] = r.offered]
           /\ fresh' = [fresh EXCEPT ![x] = TRUE]
  <2>1. wakes' = wakes
    BY <1>4 DEF EndReplay
  <2>2. inflight'[Relay] = Idle
    BY <1>4, DeliveryAssumption DEF EndReplay, TypeOK
  <2>3. r.offered \subseteq Wakes
    BY <1>1, QueryRows DEF Replay
  <2>4. WatchShape'
    BY <1>1, <1>4, <2>3 DEF WatchShape, Stages
  <2>5. /\ stage'[x] = "writing" /\ rest'[x] = r.offered /\ fresh'[x] = TRUE
        /\ \A y \in Watches \ {x} : SameAt(y)
    BY <1>1, <1>4 DEF WatchShape, SameAt
  <2>6. OneRuns'
    BY <1>2, <2>2, <2>5 DEF OneRuns, Runs, SameAt
  <2>7. QueryOK'
    BY <2>2 DEF QueryOK, Idle
  <2>8. BatchOK(x)'
    BY <1>1, <2>1, <2>5 DEF BatchOK, QueryOK, Queued
  <2>9. BufferOK(x)'
    BY <1>1, <1>2, <2>5 DEF BufferOK, WatchOK, Ended
  <2>10. RowsStay /\ CountsStay /\ QueuedStay
    BY <2>1, SameRows
  <2>11. \A y \in Watches \ {x} : WatchOK(y)'
    BY <2>5, <2>10, WatchStays
  <2>12. \A w \in Wakes : Written(w)'
    BY <1>1, <2>10, WrittenStays
  <2> QED  BY <2>4, <2>6, <2>7, <2>8, <2>9, <2>11, <2>12 DEF WatchOK
<1> QED  BY <1>3, <1>4 DEF QueryBatch

(***************************************************************************)
(* Writing a wake.                                                         *)
(***************************************************************************)

\* A wake written where it fits leaves the buffer open and within its limit.
LEMMA WriteFits ==
  ASSUME DeliveryInv, NEW x \in Watches, Fits(x), ~Ended(x),
         NEW w \in Wakes, NEW live \in BOOLEAN
  PROVE  LET f == [wake |-> w, live |-> live]
             buffer == Append(out[x], f)
         IN  /\ buffer \in Seq(Frames) /\ Len(buffer) = Len(out[x]) + 1
             /\ Len(buffer) <= BufferLimit
             /\ \A i \in DOMAIN buffer : buffer[i] # End
             /\ \A i \in DOMAIN buffer : \/ i \in DOMAIN out[x] /\ buffer[i] = out[x][i]
                                         \/ i = Len(buffer) /\ buffer[i] = f
<1> DEFINE f == [wake |-> w, live |-> live]
           buffer == Append(out[x], f)
<1>1. out[x] \in Seq(Frames) /\ f \in Frames
  BY DEF DeliveryInv, WatchShape, Frames
<1>2. f # End
  BY DEF End, Wakes
<1> HIDE DEF f
<1>3. /\ buffer \in Seq(Frames) /\ Len(buffer) = Len(out[x]) + 1 /\ Len(out[x]) \in Nat
      /\ \A i \in DOMAIN buffer : \/ i \in DOMAIN out[x] /\ buffer[i] = out[x][i]
                                  \/ i = Len(buffer) /\ buffer[i] = f
  BY <1>1
<1>4. Len(buffer) <= BufferLimit
  BY <1>3 DEF Fits
<1>5. \A i \in DOMAIN buffer : buffer[i] # End
  BY <1>2, <1>3 DEF Ended
<1>6. /\ buffer \in Seq(Frames) /\ Len(buffer) = Len(out[x]) + 1
      /\ Len(buffer) <= BufferLimit
      /\ \A i \in DOMAIN buffer : buffer[i] # End
      /\ \A i \in DOMAIN buffer : \/ i \in DOMAIN out[x] /\ buffer[i] = out[x][i]
                                  \/ i = Len(buffer) /\ buffer[i] = f
  BY <1>3, <1>4, <1>5
<1> HIDE DEF buffer
<1> QED  BY <1>6, Zenon DEF f, buffer

\* One more frame counted covers the transmission that is owed for it.
LEMMA OwedIsWritten ==
  ASSUME TypeOK, WatchShape, NEW w \in Wakes, \A v \in Wakes : Written(v),
         \A v \in Wakes : wakes'[v].attempts \in Nat,
         CountsStay, owed' = w, frames' = [frames EXCEPT ![w] = Counted(w)]
  PROVE  frames' \in [Wakes -> 0..MaxAttempts] /\ \A v \in Wakes : Written(v)'
<1>1. /\ \A v \in Wakes : frames[v] \in 0..MaxAttempts /\ wakes[v].attempts \in Nat
      /\ MaxAttempts \in Nat
  BY ConstantsAssumption DEF TypeOK, WakeRow, WatchShape
<1>2. \A v \in Wakes : frames'[v] = IF v = w THEN Counted(w) ELSE frames[v]
  BY DEF WatchShape
<1>3. Counted(w) \in 0..MaxAttempts
  BY <1>1 DEF Counted
<1>4. frames' \in [Wakes -> 0..MaxAttempts]
  BY <1>3 DEF WatchShape
<1>5. ASSUME NEW v \in Wakes PROVE Written(v)'
  <2>1. wakes'[v].attempts <= wakes[v].attempts /\ wakes[v].attempts <= frames[v]
        /\ wakes'[v].attempts \in Nat
    BY DEF CountsStay, Written
  <2>2. CASE v # w
    BY <1>1, <1>2, <2>1, <2>2 DEF Written
  <2>3. CASE v = w
    <3>1. frames'[v] = IF frames[v] < MaxAttempts THEN frames[v] + 1 ELSE frames[v]
      BY <1>2, <2>3 DEF Counted
    <3> QED  BY <1>1, <2>1, <2>3, <3>1 DEF Written
  <2> QED  BY <2>2, <2>3
<1> QED  BY <1>4, <1>5

LEMMA WriteWakeKeeps ==
  ASSUME DeliveryInv, NEW x \in Watches, LoopIsFree \/ Runs(x),
         stage[x] \in {"drained", "writing"}, ~ReplayIsOver(x),
         NEW w \in rest[x], WriteWake(x, w), UNCHANGED store
  PROVE  DeliveryInv'
<1> USE DEF DeliveryInv
<1>1. /\ \A y \in Watches \ {x} : ~Runs(y) /\ ~fresh[y]
      /\ inflight[Relay] = Idle /\ Sends(x)
  BY GoesOnAlone DEF Sends, Runs
<1>2. bound[x] # Unwatched /\ ~Ended(x)
  BY DEF ReplayIsOver, WatchOK, BatchOK, BufferOK
<1>3. w \in Wakes /\ TypeOK' /\ RowsStay /\ CountsStay /\ QueuedStay /\ UNCHANGED inflight
  BY SameRows DEF WatchShape, store, TypeOK
<1>4. QueryOK'
  BY <1>3, QueryStays
<1>5. /\ fresh' = [fresh EXCEPT ![x] = FALSE] /\ UNCHANGED <<seen, breaks>>
      /\ fresh'[x] = FALSE
  BY DEF WriteWake, WatchShape
<1>6. CASE /\ ~Fits(x) /\ Drop(x)
           /\ stage' = [stage EXCEPT ![x] = "serving"]
           /\ rest' = [rest EXCEPT ![x] = {}]
           /\ UNCHANGED <<owed, frames>>
  <2>1. /\ BufferOK(x)' /\ bound'[x] = Unwatched
        /\ out' \in [Watches -> Seq(Frames)]
        /\ bound' \in [Watches -> Sessions \cup {None, Unwatched}]
        /\ \A y \in Watches \ {x} : out'[y] = out[y] /\ bound'[y] = bound[y]
    BY <1>2, <1>6, DropKeeps
  <2>2. /\ stage'[x] = "serving" /\ rest'[x] = {}
        /\ \A y \in Watches \ {x} : SameAt(y)
    BY <1>5, <1>6, <2>1 DEF WatchShape, SameAt
  <2>3. WatchShape'
    BY <1>5, <1>6, <2>1 DEF WatchShape, Stages
  <2>4. OneRuns'
    BY <1>1, <2>2 DEF OneRuns, Runs, SameAt
  <2>5. BatchOK(x)'
    BY <1>5, <2>2 DEF BatchOK
  <2>6. \A y \in Watches \ {x} : WatchOK(y)'
    BY <1>3, <2>2, WatchStays
  <2>7. \A v \in Wakes : Written(v)'
    BY <1>3, <1>6, WrittenStays
  <2> QED  BY <1>3, <1>4, <2>1, <2>3, <2>4, <2>5, <2>6, <2>7 DEF WatchOK
<1>7. CASE /\ Fits(x)
           /\ out' = [out EXCEPT ![x] = Append(@, [wake |-> w, live |-> FALSE])]
           /\ owed' = w /\ frames' = [frames EXCEPT ![w] = Counted(w)]
           /\ rest' = [rest EXCEPT ![x] = @ \ {w}]
           /\ Drains(x, out'[x], "draining", "writing")
           /\ UNCHANGED bound
  <2> DEFINE buffer == Append(out[x], [wake |-> w, live |-> FALSE])
  <2>1. /\ buffer \in Seq(Frames) /\ Len(buffer) = Len(out[x]) + 1
        /\ Len(buffer) <= BufferLimit
        /\ \A i \in DOMAIN buffer : buffer[i] # End
    BY <1>2, <1>3, <1>7, WriteFits
  <2>2. /\ out'[x] = buffer /\ rest'[x] = rest[x] \ {w}
        /\ stage'[x] = IF Len(buffer) > HighWater THEN "draining" ELSE "writing"
        /\ \A y \in Watches \ {x} : SameAt(y)
    BY <1>5, <1>7 DEF WatchShape, SameAt, Drains
  <2> HIDE DEF buffer
  <2>3. Len(buffer) \in Nat /\ DOMAIN buffer = 1..Len(buffer)
    BY <2>1
  <2>4. frames' \in [Wakes -> 0..MaxAttempts] /\ \A v \in Wakes : Written(v)'
    <3>1. \A v \in Wakes : wakes'[v].attempts \in Nat
      BY <1>3 DEF TypeOK, WakeRow
    <3> QED  BY <1>3, <1>7, <3>1, OwedIsWritten
  <2>5. WatchShape'
    <3>1. out' \in [Watches -> Seq(Frames)] /\ rest' \in [Watches -> SUBSET Wakes]
      BY <1>7, <2>1, <2>2 DEF WatchShape
    <3>2. stage' \in [Watches -> Stages]
      BY <1>7 DEF WatchShape, Stages, Drains
    <3> QED  BY <1>3, <1>5, <1>7, <2>4, <3>1, <3>2 DEF WatchShape
  <2>6. OneRuns'
    BY <1>1, <1>3, <2>2 DEF OneRuns, Runs, SameAt
  <2>7. BatchOK(x)'
    BY <1>5, <1>7, <2>2 DEF BatchOK, WatchOK, store
  <2>8. BufferOK(x)'
    <3>1. ~Ended(x)'
      BY <2>1, <2>2 DEF Ended
    <3>2. Sends(x)' => \A i \in DOMAIN buffer : ~(i > HighWater)
      BY <2>2, <2>3, DeliveryAssumption DEF Sends, Runs
    <3> QED  BY <2>1, <2>2, <2>3, <3>1, <3>2, DeliveryAssumption DEF BufferOK
  <2>9. \A y \in Watches \ {x} : WatchOK(y)'
    BY <1>3, <2>2, WatchStays
  <2> QED  BY <1>3, <1>4, <2>4, <2>5, <2>6, <2>7, <2>8, <2>9 DEF WatchOK
<1> QED  BY <1>6, <1>7 DEF WriteWake

LEMMA NextWakeKeeps ==
  ASSUME DeliveryInv, TypeOK', NEW x \in Watches, NextWake(x)
  PROVE  DeliveryInv'
<1> USE DEF DeliveryInv
<1>1. stage[x] \in {"drained", "writing"} /\ (LoopIsFree \/ Runs(x))
  BY DEF NextWake, Running, Runs
<1>2. /\ \A y \in Watches \ {x} : ~Runs(y) /\ ~fresh[y]
      /\ inflight[Relay] = Idle /\ Sends(x)
  BY <1>1, GoesOnAlone DEF Sends, Runs
<1>3. CASE /\ EndCatchUp(x)
           /\ UNCHANGED <<store, bound, out, owed, frames, seen, breaks>>
  <2>1. QueryOK' /\ RowsStay /\ QueuedStay /\ \A w \in Wakes : Written(w)'
    BY <1>3, StoreStays
  <2>2. /\ stage'[x] = "serving" /\ rest'[x] = {} /\ fresh'[x] = FALSE
        /\ \A y \in Watches \ {x} : SameAt(y)
    BY <1>3 DEF EndCatchUp, WatchShape, SameAt
  <2>3. WatchShape'
    BY <1>3 DEF EndCatchUp, WatchShape, Stages
  <2>4. OneRuns'
    BY <1>2, <2>2 DEF OneRuns, Runs, SameAt
  <2>5. WatchOK(x)'
    BY <1>3, <2>2 DEF WatchOK, BatchOK, BufferOK, Ended, Sends, Runs
  <2>6. \A y \in Watches \ {x} : WatchOK(y)'
    BY <2>1, <2>2, WatchStays
  <2> QED  BY <2>1, <2>3, <2>4, <2>5, <2>6
<1>4. ASSUME ~ReplayIsOver(x), NEW w \in rest[x], WriteWake(x, w), UNCHANGED store
      PROVE  DeliveryInv'
  BY <1>1, <1>4, WriteWakeKeeps
<1>5. ASSUME NEW w \in rest[x], ~StillPending(x, w),
             IF Stale(w) THEN GetWake(w) ELSE UNCHANGED store,
             stage' = [stage EXCEPT ![x] = "writing"],
             rest' = [rest EXCEPT ![x] = @ \ {w}],
             UNCHANGED <<bound, out, fresh, owed, frames, seen, breaks>>
      PROVE  DeliveryInv'
  <2>1. ~fresh[x]
    BY <1>5 DEF StillPending
  <2>2. RowsStay /\ CountsStay /\ UNCHANGED inflight
    BY <1>5, SetWakesRows, SameRows DEF GetWake, store
  <2>3. QueryOK'
    BY <1>2, <2>2 DEF QueryOK, Idle
  <2>4. /\ stage'[x] = "writing" /\ rest'[x] = rest[x] \ {w}
        /\ \A y \in Watches \ {x} : SameAt(y)
    BY <1>5 DEF WatchShape, SameAt
  <2>5. WatchShape'
    <3>1. rest' \in [Watches -> SUBSET Wakes]
      BY <1>5 DEF WatchShape
    <3> QED  BY <1>5, <3>1 DEF WatchShape, Stages
  <2>6. OneRuns'
    BY <1>2, <2>2, <2>4 DEF OneRuns, Runs, SameAt
  <2>7. BatchOK(x)'
    <3>1. rest[x] \subseteq Wakes
      BY DEF WatchShape
    <3> QED  BY <1>5, <2>1, <2>2, <2>4, <3>1 DEF BatchOK, WatchOK, RowsStay
  <2>8. BufferOK(x)'
    BY <1>2, <1>5, <2>4 DEF BufferOK, WatchOK, Ended
  <2>9. \A y \in Watches \ {x} : WatchOK(y)'
    BY <1>2, <2>2, <2>4, WatchStays
  <2>10. \A v \in Wakes : Written(v)'
    BY <1>5, <2>2, WrittenStays
  <2> QED  BY <2>3, <2>5, <2>6, <2>7, <2>8, <2>9, <2>10 DEF WatchOK
<1> QED  BY <1>3, <1>4, <1>5 DEF NextWake

(***************************************************************************)
(* A new wake.                                                             *)
(***************************************************************************)

\* The fan-out rings the watches that have room, and ends the others.
LEMMA FanoutKeeps ==
  ASSUME DeliveryInv, TypeOK', RowsStay, CountsStay, NEW w \in Wakes, FanoutWake(w),
         \A x \in Watches : ~Runs(x) /\ ~fresh[x],
         UNCHANGED <<inflight, stage, rest, fresh, seen, breaks>>
  PROVE  /\ WatchShape' /\ \A x \in Watches : WatchOK(x)'
         /\ \A v \in Wakes : Written(v)'
<1> USE DEF DeliveryInv
<1> DEFINE full == {x \in Targets(w) : ~Fits(x)}
           written == Targets(w) \ full
           ring == [wake |-> w, live |-> TRUE]
<1>1. /\ bound' = [x \in Watches |-> IF x \in full THEN Unwatched ELSE bound[x]]
      /\ out' = [x \in Watches |-> IF x \in full THEN Append(out[x], End)
                                   ELSE IF x \in written THEN Append(out[x], ring)
                                   ELSE out[x]]
      /\ IF written = {} THEN UNCHANGED <<owed, frames>>
         ELSE owed' = w /\ frames' = [frames EXCEPT ![w] = Counted(w)]
  BY DEF FanoutWake
<1>2. /\ \A x \in full \cup written : x \in Watches /\ bound[x] # Unwatched
      /\ \A x \in written : Fits(x) /\ x \notin full
  BY DEF Targets
<1> HIDE DEF full, written
<1>3. ASSUME NEW x \in Watches
      PROVE  WatchOK(x)' /\ out'[x] \in Seq(Frames)
                         /\ bound'[x] \in Sessions \cup {None, Unwatched}
  <2>1. BatchOK(x) /\ BufferOK(x) /\ rest[x] \subseteq Wakes
    BY DEF WatchOK, WatchShape
  <2>2. bound'[x] = (IF x \in full THEN Unwatched ELSE bound[x])
    BY <1>1
  <2>3. BatchOK(x)'
    BY <2>1, <2>2 DEF BatchOK, RowsStay
  <2>4. CASE x \in full
    <3>1. out'[x] = Append(out[x], End) /\ bound'[x] = Unwatched
      BY <1>1, <2>4
    <3>2. Ended(x)' /\ Len(out'[x]) <= BufferLimit + 1 /\ out'[x] \in Seq(Frames)
      BY <1>2, <2>4, <3>1, EndFits, DeliveryAssumption DEF Ended
    <3> QED  BY <2>3, <3>1, <3>2 DEF WatchOK, BufferOK
  <2>5. CASE x \in written
    <3>1. Fits(x) /\ ~Ended(x) /\ x \notin full
      BY <1>2, <2>1, <2>5 DEF BufferOK
    <3>2. out'[x] = Append(out[x], ring) /\ bound'[x] = bound[x]
      BY <1>1, <2>5, <3>1
    <3>3. /\ out'[x] \in Seq(Frames) /\ Len(out'[x]) <= BufferLimit
          /\ \A i \in DOMAIN out'[x] : out'[x][i] # End
          /\ \A i \in DOMAIN out'[x] : \/ i \in DOMAIN out[x] /\ out'[x][i] = out[x][i]
                                       \/ out'[x][i] = ring
      BY <3>1, <3>2, WriteFits
    <3>4. Len(out'[x]) \in Nat /\ BufferLimit \in Nat /\ (Sends(x)' <=> Sends(x))
      BY <3>3, DeliveryAssumption DEF Sends, Runs
    <3>5. ASSUME Sends(x), bound[x] # Unwatched, NEW i \in DOMAIN out'[x], i > HighWater
          PROVE  out'[x][i].live
      BY <2>1, <3>3, <3>5 DEF BufferOK
    <3>6. BufferOK(x)'
      BY <3>2, <3>3, <3>4, <3>5 DEF BufferOK, Ended
    <3>7. bound'[x] \in Sessions \cup {None, Unwatched}
      BY <3>2 DEF WatchShape
    <3> QED  BY <2>3, <3>3, <3>6, <3>7 DEF WatchOK
  <2>6. CASE x \notin full /\ x \notin written
    <3>1. out'[x] = out[x] /\ bound'[x] = bound[x]
      BY <1>1, <2>6
    <3>2. BufferOK(x)'
      BY <2>1, <3>1 DEF BufferOK, Ended, Sends, Runs
    <3> QED  BY <2>3, <3>1, <3>2 DEF WatchOK, WatchShape
  <2> QED  BY <2>4, <2>5, <2>6
<1>4. /\ owed' \in {0} \cup Wakes /\ frames' \in [Wakes -> 0..MaxAttempts]
      /\ \A v \in Wakes : Written(v)'
  <2>1. CASE written = {}
    BY <1>1, <2>1, WrittenStays DEF WatchShape
  <2>2. CASE written # {}
    <3>1. \A v \in Wakes : wakes'[v].attempts \in Nat
      BY DEF TypeOK, WakeRow
    <3> QED  BY <1>1, <2>2, <3>1, OwedIsWritten
  <2> QED  BY <2>1, <2>2
<1>5. WatchShape'
  <2>1. out' \in [Watches -> Seq(Frames)]
    BY <1>1, <1>3
  <2>2. bound' \in [Watches -> Sessions \cup {None, Unwatched}]
    BY <1>1, <1>3
  <2> QED  BY <1>4, <2>1, <2>2 DEF WatchShape
<1> QED  BY <1>3, <1>4, <1>5

LEMMA RequestKeeps ==
  ASSUME DeliveryInv, TypeOK', NEW by, NEW target, NEW t, NEW explicit, NEW key,
         NEW priority, NEW ttl, Request(by, target, t, explicit, key, priority, ttl)
  PROVE  DeliveryInv'
<1> USE DEF DeliveryInv
<1>1. /\ LoopIsFree /\ RequestWake(by, target, t, explicit, key, priority, ttl)
      /\ UNCHANGED <<stage, rest, fresh, seen, breaks>>
  BY DEF Request
<1>2. RowsStay /\ CountsStay /\ UNCHANGED inflight
  <2>1. RowsStay /\ CountsStay
    BY <1>1, RequestRows
  <2> QED  BY <1>1, <2>1 DEF RequestWake
<1>3. /\ \A x \in Watches : ~Runs(x) /\ ~fresh[x]
      /\ inflight[Relay].op # "replay"
  BY <1>1, FreeLoop
<1>4. OneRuns' /\ QueryOK'
  BY <1>1, <1>2, <1>3 DEF OneRuns, Runs, QueryOK
<1>5. CASE \E w \in Wakes : FanoutWake(w)
  BY <1>1, <1>2, <1>3, <1>4, <1>5, FanoutKeeps
<1>6. CASE UNCHANGED <<bound, out, owed, frames>>
  BY <1>1, <1>2, <1>3, <1>4, <1>6, TablesKeep DEF handlers
<1> QED  BY <1>5, <1>6 DEF Request

(***************************************************************************)
(* The invariant, and what follows from it.                                *)
(***************************************************************************)
LEMMA DeliveryStep == DeliveryInv /\ [DeliveryNext]_deliveryVars => DeliveryInv'
<1> SUFFICES ASSUME DeliveryInv, [DeliveryNext]_deliveryVars
             PROVE  DeliveryInv'
  OBVIOUS
<1>1. TypeOK'
  BY FollowsTheStore, TypeStep DEF DeliveryInv
<1>2. CASE UNCHANGED deliveryVars
  <2>1. UNCHANGED <<store, handlers, owed, frames, seen, breaks>>
    BY <1>2 DEF deliveryVars
  <2>2. /\ QueryOK' /\ RowsStay /\ QueuedStay /\ CountsStay /\ OneRuns'
    BY <2>1, StoreStays, SameRows DEF DeliveryInv, OneRuns, Runs, store, handlers
  <2> QED  BY <1>1, <2>1, <2>2, TablesKeep
<1>3. CASE DeliveryNext
  <2>1. ASSUME NEW by \in Seats, NEW target \in Seats, NEW t \in Tasks,
               NEW explicit \in Sessions \cup {None}, NEW key \in Keys \cup {None},
               NEW priority \in Priorities, NEW ttl \in Ttls,
               Request(by, target, t, explicit, key, priority, ttl)
        PROVE  DeliveryInv'
    BY <1>1, <2>1, RequestKeeps
  <2>2. ASSUME NEW x \in Watches, NEW s \in SessionsOf[x], HandleWatch(x, s)
        PROVE  DeliveryInv'
    BY <2>2, HandleWatchKeeps
  <2>3. ASSUME NEW x \in Watches,
               Drained(x) \/ OnWatchTimeout(x) \/ Leave(x) \/ ReadFrame(x)
        PROVE  DeliveryInv'
    BY <2>3, DrainedKeeps, TimeoutKeeps, LeaveKeeps, ReadFrameKeeps
  <2>4. ASSUME NEW x \in Watches, Handle(x)
        PROVE  DeliveryInv'
    BY <1>1, <2>4, StartCatchUpKeeps, QueryBatchKeeps, NextWakeKeeps DEF Handle
  <2>5. CASE RecordAttempt \/ ServeStore \/ BeginAdmission \/ EndAdmission \/ Beside
    BY <1>1, <2>5, RecordKeeps, ServeKeeps, AdmissionKeeps, BesideKeeps
  <2> QED  BY <1>3, <2>1, <2>2, <2>3, <2>4, <2>5 DEF DeliveryNext
<1> QED  BY <1>2, <1>3

LEMMA DeliveryInitially == DeliveryInit => DeliveryInv
<1> SUFFICES ASSUME DeliveryInit PROVE DeliveryInv
  OBVIOUS
<1>1. TypeOK
  BY LedgerInitially DEF DeliveryInit, LedgerInv
<1>2. <<>> \in Seq(Frames)
  OBVIOUS
<1>3. WatchShape
  <2>1. /\ out \in [Watches -> Seq(Frames)] /\ stage \in [Watches -> Stages]
        /\ bound \in [Watches -> Sessions \cup {None, Unwatched}]
    BY <1>2 DEF DeliveryInit, Stages
  <2>2. frames \in [Wakes -> 0..MaxAttempts] /\ breaks \in 0..MaxBreaks
    BY ConstantsAssumption, DeliveryAssumption DEF DeliveryInit
  <2> QED  BY <2>1, <2>2 DEF WatchShape, DeliveryInit
<1>4. inflight[Relay] = Idle
  BY DeliveryAssumption DEF DeliveryInit, Init
<1>5. OneRuns /\ QueryOK
  BY <1>4 DEF OneRuns, Runs, QueryOK, Idle, DeliveryInit
<1>6. \A x \in Watches : WatchOK(x)
  BY DeliveryAssumption DEF DeliveryInit, WatchOK, BatchOK, BufferOK, Ended, Sends, Runs
<1>7. \A w \in Wakes : Written(w)
  <2>1. \A w \in Wakes : wakes[w].attempts = 0 /\ frames[w] = 0 /\ owed # w
    BY DEF DeliveryInit, Init, NoWake, Wakes
  <2> QED  BY <2>1 DEF Written
<1> QED  BY <1>1, <1>3, <1>5, <1>6, <1>7 DEF DeliveryInv

LEMMA DeliveryInvariant == DeliverySpec => []DeliveryInv
BY DeliveryInitially, DeliveryStep, PTL DEF DeliverySpec

\* Delivery only ever uses the store as its specification allows, so every
\* theorem about the store holds of it: one winner per task, cancellation,
\* fencing, the state diagram.
THEOREM DeliveryKeepsTheStore == DeliverySpec => Spec
<1>1. DeliveryInit => Init
  BY DEF DeliveryInit
<1>2. DeliveryInv /\ [DeliveryNext]_deliveryVars => [Next]_vars
  BY FollowsTheStore DEF DeliveryInv
<1> QED  BY <1>1, <1>2, DeliveryInvariant, PTL DEF DeliverySpec, Spec

\* Every variable keeps its shape: no handler leaves a batch behind it, and no
\* buffer outgrows its limit by more than the event that ends the watch.
THEOREM DeliveryTypes == DeliverySpec => []DeliveryTypeOK
<1>1. ASSUME DeliveryInv PROVE DeliveryTypeOK
  <2>1. ASSUME NEW x \in Watches
        PROVE  Len(out[x]) <= BufferLimit + 2 /\ out[x] \in Seq(Frame)
    <3>1. out[x] \in Seq(Frames) /\ Len(out[x]) <= BufferLimit + 1
      BY <1>1 DEF DeliveryInv, WatchShape, WatchOK, BufferOK
    <3>2. Frames \subseteq Frame
      <4>1. End \in Frame
        BY DEF End, Frame
      <4>2. [wake: Wakes, live: BOOLEAN] \subseteq Frame
        BY DEF Frame
      <4> QED  BY <4>1, <4>2 DEF Frames
    <3>3. out[x] \in Seq(Frame)
      BY <3>1, <3>2
    <3> QED  BY <3>1, <3>3, DeliveryAssumption
  <2>2. \A x \in Watches :
           rest[x] # {} => stage[x] \in {"writing", "draining", "drained"}
    BY <1>1 DEF DeliveryInv, WatchOK, BatchOK
  <2> QED  BY <1>1, <2>1, <2>2 DEF DeliveryTypeOK, DeliveryInv, WatchShape
<1> QED  BY <1>1, DeliveryInvariant, PTL

\* No transmission is on record that was not written to a socket, however the
\* watches of a seat time out, overflow and leave between write and record
\* (record_wake_attempt after the write in _fanout_wake and in the catch-up).
THEOREM RecordsFollowWrites == DeliverySpec => []AttemptsWereWritten
<1>1. DeliveryInv => AttemptsWereWritten
  BY DEF DeliveryInv, Written, AttemptsWereWritten
<1> QED  BY <1>1, DeliveryInvariant, PTL

(***************************************************************************)
(* What is written.                                                        *)
(***************************************************************************)

\* A wake that may be written to the socket of x.
MayRing(x, w) ==
    /\ wakes'[w].seat = SeatOf[x] /\ wakes'[w].session \in {None, bound[x]}
    /\ wakes'[w].state \in {"pending", "cancelled"}

\* Most steps write nothing; reading and leaving take frames away.
LEMMA WritersAreFew ==
  ASSUME DeliveryInv, [DeliveryNext]_deliveryVars, NEW x \in Watches,
         Len(out'[x]) > Len(out[x])
  PROVE  \/ out'[x] = Append(out[x], End)
         \/ \E w \in rest[x] : /\ ~ReplayIsOver(x) /\ StillPending(x, w)
                               /\ WriteWake(x, w) /\ UNCHANGED store
         \/ \E w \in Wakes : Deliverable(w) /\ FanoutWake(w)
<1> USE DEF DeliveryInv
<1>1. out \in [Watches -> Seq(Frames)] /\ \A y \in Watches : Len(out[y]) \in Nat
  BY DEF WatchShape
<1>2. out'[x] # out[x] /\ out'[x] # <<>>
  BY <1>1
<1>3. ASSUME NEW y \in Watches, OnWatchTimeout(y)
      PROVE  out'[x] = Append(out[x], End)
  BY <1>1, <1>2, <1>3 DEF OnWatchTimeout, Drop
<1>4. ASSUME NEW y \in Watches, Leave(y) \/ ReadFrame(y)
      PROVE  FALSE
  <2>1. CASE Disconnect(y)
    BY <1>1, <1>2, <2>1 DEF Disconnect
  <2>2. CASE out[y] # <<>> /\ out' = [out EXCEPT ![y] = Tail(@)]
    <3>1. Len(Tail(out[y])) < Len(out[y])
      BY <1>1, <2>2
    <3> QED  BY <1>1, <1>2, <2>2, <3>1
  <2> QED  BY <1>4, <2>1, <2>2 DEF Leave, ReadFrame
<1>5. ASSUME NEW y \in Watches, NextWake(y)
      PROVE  \E w \in rest[x] : /\ ~ReplayIsOver(x) /\ StillPending(x, w)
                                /\ WriteWake(x, w) /\ UNCHANGED store
  <2>1. PICK w \in rest[y] : /\ ~ReplayIsOver(y) /\ StillPending(y, w)
                             /\ WriteWake(y, w) /\ UNCHANGED store
    BY <1>2, <1>5 DEF NextWake
  <2>2. y = x
    BY <1>1, <1>2, <2>1 DEF WriteWake, Drop
  <2> QED  BY <2>1, <2>2
<1>6. ASSUME NEW by, NEW target, NEW t, NEW explicit, NEW key, NEW priority, NEW ttl,
             Request(by, target, t, explicit, key, priority, ttl)
      PROVE  \E w \in Wakes : Deliverable(w) /\ FanoutWake(w)
  BY <1>2, <1>6 DEF Request
<1>7. ~(RecordAttempt \/ ServeStore \/ BeginAdmission \/ EndAdmission \/ Beside)
  BY <1>2 DEF RecordAttempt, ServeStore, BeginAdmission, EndAdmission, Beside, handlers
<1>8. ASSUME NEW y \in Watches
      PROVE  /\ \A s \in SessionsOf[y] : ~HandleWatch(y, s)
             /\ ~Drained(y) /\ ~StartCatchUp(y) /\ ~QueryBatch(y)
  BY <1>2 DEF HandleWatch, Drained, StartCatchUp, QueryBatch
<1>9. DeliveryNext
  BY <1>2 DEF deliveryVars, handlers
<1> QED  BY <1>3, <1>4, <1>5, <1>6, <1>7, <1>8, <1>9 DEF DeliveryNext, Handle

LEMMA WritesAreDue ==
  ASSUME DeliveryInv, [DeliveryNext]_deliveryVars, NEW x \in Watches,
         Len(out'[x]) > Len(out[x]), NEW w, w = out'[x][Len(out'[x])].wake, w # 0
  PROVE  MayRing(x, w)
<1> USE DEF DeliveryInv
<1>1. out[x] \in Seq(Frames) /\ Len(out[x]) \in Nat /\ out \in [Watches -> Seq(Frames)]
  BY DEF WatchShape
<1>2. \A f : Append(out[x], f)[Len(Append(out[x], f))] = f
  BY <1>1
<1>3. out'[x] # Append(out[x], End)
  BY <1>2 DEF End
<1>4. ASSUME NEW v \in rest[x], ~ReplayIsOver(x), StillPending(x, v), WriteWake(x, v),
             UNCHANGED store
      PROVE  MayRing(x, w)
  <2>1. out'[x] = Append(out[x], [wake |-> v, live |-> FALSE])
    BY <1>1, <1>3, <1>4 DEF WriteWake, Drop
  <2>2. w = v /\ wakes' = wakes
    BY <1>2, <1>4, <2>1 DEF store
  <2>3. bound[x] # Unwatched /\ BatchOK(x)
    BY <1>4 DEF ReplayIsOver, WatchOK, BatchOK
  <2> QED  BY <1>4, <2>2, <2>3 DEF MayRing, BatchOK, StillPending, Queued
<1>5. ASSUME NEW v \in Wakes, Deliverable(v), FanoutWake(v)
      PROVE  MayRing(x, w)
  <2>1. x \in Targets(v) /\ out'[x] = Append(out[x], [wake |-> v, live |-> TRUE])
    <3>1. out'[x] # out[x]
      BY <1>1
    <3> QED  BY <1>3, <1>5, <3>1 DEF FanoutWake
  <2>2. w = v
    BY <1>2, <2>1
  <2> QED  BY <1>5, <2>1, <2>2 DEF MayRing, Targets, Deliverable
<1> QED  BY <1>3, <1>4, <1>5, WritersAreFew

\* Whether a wake reaches a watch by the fan-out or by the catch-up, and
\* whatever the seat's watches are bound to meanwhile, a wake addressed to one
\* session is written to that session's watch alone.
THEOREM WakesKeepTheirSession == DeliverySpec => OnlyItsSession
<1>1. DeliveryInv /\ [DeliveryNext]_deliveryVars =>
        [\A x \in Watches : Len(out'[x]) > Len(out[x]) =>
           LET w == out'[x][Len(out'[x])].wake
           IN  w # 0 => /\ wakes'[w].seat = SeatOf[x]
                        /\ wakes'[w].session \in {None, bound[x]}]_deliveryVars
  BY WritesAreDue DEF MayRing
<1> QED  BY <1>1, DeliveryInvariant, PTL DEF DeliverySpec, OnlyItsSession

\* No handler rings a watch for a wake that was acknowledged, claimed or expired
\* while it waited in a drain: its re-check, and the loop it holds between the
\* query and the first write, leave only the operator's cancellation.
THEOREM NothingSettledIsReplayed == DeliverySpec => NeverReplaysSettled
<1>1. DeliveryInv /\ [DeliveryNext]_deliveryVars =>
        [\A x \in Watches : Len(out'[x]) > Len(out[x]) =>
           LET w == out'[x][Len(out'[x])].wake
           IN  w # 0 => wakes'[w].state \in {"pending", "cancelled"}]_deliveryVars
  BY WritesAreDue DEF MayRing
<1> QED  BY <1>1, DeliveryInvariant, PTL DEF DeliverySpec, NeverReplaysSettled

(***************************************************************************)
(* Overflow.                                                               *)
(***************************************************************************)

\* Only a write that finds no room ends a watch in the middle of its batch.
LEMMA OnlyOverflowEnds ==
  ASSUME DeliveryInv, [DeliveryNext]_deliveryVars, NEW x \in Watches,
         stage[x] \in {"writing", "drained"}, stage'[x] = "serving",
         bound[x] # Unwatched, bound'[x] = Unwatched
  PROVE  ~Fits(x)
<1> USE DEF DeliveryInv
<1>1. stage \in [Watches -> Stages] /\ stage'[x] # stage[x] /\ bound'[x] # bound[x]
  BY DEF WatchShape
<1>2. ASSUME NEW y \in Watches, NextWake(y)
      PROVE  ~Fits(x)
  <2>1. \E w \in rest[y] : WriteWake(y, w)
    BY <1>1, <1>2 DEF NextWake
  <2>2. CASE Drains(y, out'[y], "draining", "writing")
    BY <1>1, <2>2 DEF Drains
  <2>3. CASE ~Fits(y) /\ stage' = [stage EXCEPT ![y] = "serving"]
    BY <1>1, <2>3
  <2> QED  BY <2>1, <2>2, <2>3 DEF WriteWake
<1>3. ASSUME NEW y \in Watches
      PROVE  /\ \A s \in SessionsOf[y] : ~HandleWatch(y, s)
             /\ ~Drained(y) /\ ~OnWatchTimeout(y) /\ ~StartCatchUp(y) /\ ~QueryBatch(y)
  <2>1. \A s \in SessionsOf[y] : ~HandleWatch(y, s)
    BY <1>1 DEF HandleWatch, Drains
  <2>2. ~Drained(y) /\ ~OnWatchTimeout(y)
    BY <1>1 DEF Drained, OnWatchTimeout
  <2>3. ~StartCatchUp(y) /\ ~QueryBatch(y)
    BY <1>1 DEF StartCatchUp, QueryBatch
  <2> QED  BY <2>1, <2>2, <2>3
<1>4. ASSUME NEW y \in Watches PROVE ~Leave(y) /\ ~ReadFrame(y)
  BY <1>1 DEF Leave, ReadFrame, Disconnect
<1>5. ~(RecordAttempt \/ ServeStore \/ BeginAdmission \/ EndAdmission \/ Beside)
  BY <1>1 DEF RecordAttempt, ServeStore, BeginAdmission, EndAdmission, Beside, handlers
<1>6. \A by, target, t, explicit, key, priority, ttl :
          ~Request(by, target, t, explicit, key, priority, ttl)
  BY <1>1 DEF Request
<1>7. DeliveryNext
  BY <1>1 DEF deliveryVars, handlers
<1> QED  BY <1>2, <1>3, <1>4, <1>5, <1>6, <1>7 DEF DeliveryNext, Handle

\* However large the batch, catch-up overflows the buffer of a watch only on top
\* of live frames, because a handler writes on only below the high-water mark.
THEOREM CatchUpSparesItsWatch == DeliverySpec => ReplaySparesItsWatch
<1>1. ASSUME DeliveryInv, [DeliveryNext]_deliveryVars, NEW x \in Watches,
             stage[x] \in {"writing", "drained"}, stage'[x] = "serving",
             bound[x] # Unwatched, bound'[x] = Unwatched
      PROVE  \E i \in DOMAIN out[x] : out[x][i].live
  <2>1. ~Fits(x)
    BY <1>1, OnlyOverflowEnds
  <2>2. Len(out[x]) \in Nat /\ DOMAIN out[x] = 1..Len(out[x])
    BY <1>1 DEF DeliveryInv, WatchShape
  <2>3. Len(out[x]) > HighWater /\ Len(out[x]) \in DOMAIN out[x]
    BY <2>1, <2>2, DeliveryAssumption DEF Fits
  <2>4. Sends(x) /\ BufferOK(x)
    BY <1>1 DEF Sends, Runs, DeliveryInv, WatchOK
  <2> QED  BY <1>1, <2>3, <2>4 DEF BufferOK
<1>2. DeliveryInv /\ [DeliveryNext]_deliveryVars =>
        [\A x \in Watches :
           /\ stage[x] \in {"writing", "drained"} /\ stage'[x] = "serving"
           /\ bound[x] # Unwatched /\ bound'[x] = Unwatched
           => \E i \in DOMAIN out[x] : out[x][i].live]_deliveryVars
  BY <1>1
<1> QED  BY <1>2, DeliveryInvariant, PTL DEF DeliverySpec, ReplaySparesItsWatch
================================================================================
