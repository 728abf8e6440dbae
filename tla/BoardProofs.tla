------------------------------ MODULE BoardProofs ------------------------------
(***************************************************************************)
(* Theorems about Board: posts and their answers, the listeners' queues,   *)
(* wake-ups and cursors, for any requests and their copies, any listeners  *)
(* and any bounds, with no limit on retries and crashes.                   *)
(***************************************************************************)
EXTENDS Board, FiniteSetTheorems, WellFoundedInduction, TLAPS

(***************************************************************************)
(* The inductive invariant: a client_id is bound to one row.               *)
(***************************************************************************)

Reply == [result : {"stored", "conflict", "no_parent"}, id : Nat]

BoardTypeOK ==
    /\ messages \in Seq(Requests)
    /\ told \in [Requests -> Reply \cup {None}]

KeysAreUnique ==
    \A i, j \in Ids :
        messages[i].key # None /\ messages[i].key = messages[j].key => i = j

\* A conflict names a row that is there and stays.
AnswersHold ==
    \A r \in Requests :
        told[r] # None =>
            /\ told[r].result = "stored" => told[r].id \in Ids /\ messages[told[r].id] = r
            /\ told[r].result = "conflict" => \E id \in Bound(r) : messages[id] # r

BoardInv == BoardTypeOK /\ KeysAreUnique /\ AnswersHold

(***************************************************************************)
(* What the store does with one copy.                                      *)
(***************************************************************************)

\* The rows that are there stay as they are.
Grows == \A id \in Ids : id \in Ids' /\ messages'[id] = messages[id]

LEMMA AppendGrows ==
  ASSUME BoardTypeOK, NEW r \in Requests, messages' = Append(messages, r)
  PROVE  /\ Grows /\ messages' \in Seq(Requests)
         /\ Len(messages) + 1 \in Ids' /\ messages'[Len(messages) + 1] = r
         /\ Ids' = Ids \cup {Len(messages) + 1}
  BY DEF Grows, Ids, BoardTypeOK

LEMMA StoringKeepsKeys ==
  ASSUME BoardInv, NEW r \in Requests, Stores(r), messages' = Append(messages, r)
  PROVE  KeysAreUnique'
<1>1. BoardTypeOK
  BY DEF BoardInv
<1>2. \A id \in Ids : r.key # None => messages[id].key # r.key
  BY DEF Stores, Bound
<1> DEFINE new == Len(messages) + 1
<1>3. Ids' = Ids \cup {new} /\ messages'[new] = r /\ Grows
  BY <1>1, AppendGrows
<1> HIDE DEF new
<1>4. SUFFICES ASSUME NEW i \in Ids', NEW j \in Ids',
                      messages'[i].key # None, messages'[i].key = messages'[j].key
               PROVE  i = j
  BY DEF KeysAreUnique
<1>5. CASE i \in Ids /\ j \in Ids
  BY <1>3, <1>4, <1>5 DEF BoardInv, KeysAreUnique, Grows
<1>6. CASE i \in Ids /\ j = new
  BY <1>2, <1>3, <1>4, <1>6 DEF Grows
<1>7. CASE i = new /\ j \in Ids
  BY <1>2, <1>3, <1>4, <1>7 DEF Grows
<1>8. CASE i = new /\ j = new
  BY <1>8
<1>9. QED
  BY <1>3, <1>5, <1>6, <1>7, <1>8

\* Answers that were given stay true while the board grows.
LEMMA AnswersStay ==
  ASSUME BoardInv, Grows
  PROVE  \A r \in Requests :
            told[r] # None =>
                /\ told[r].result = "stored" => told[r].id \in Ids' /\ messages'[told[r].id] = r
                /\ told[r].result = "conflict" => \E id \in Bound(r)' : messages'[id] # r
  BY DEF BoardInv, AnswersHold, Grows, Bound

\* An answer is true of the board the copy leaves behind.
LEMMA AnswerHolds ==
  ASSUME BoardInv, NEW r \in Requests, StoreAndRing(r)
  PROVE  /\ Answer(r) \in Reply
         /\ Answer(r).result = "stored" =>
                Answer(r).id \in Ids' /\ messages'[Answer(r).id] = r
         /\ Answer(r).result = "conflict" => \E id \in Bound(r)' : messages'[id] # r
         /\ Answer(r).result # "stored" => ~Stores(r)
<1>1. BoardTypeOK
  BY DEF BoardInv
<1>2. CASE Stores(r)
  <2>1. messages' = Append(messages, r)
    BY <1>2 DEF StoreAndRing
  <2>2. Answer(r) = [result |-> "stored", id |-> Len(messages) + 1]
    BY <1>2 DEF Answer
  <2>3. Len(messages) + 1 \in Nat
    BY <1>1 DEF BoardTypeOK
  <2>4. QED
    BY <1>1, <2>1, <2>2, <2>3, AppendGrows DEF Reply
<1>3. CASE ~Stores(r) /\ Duplicates(r)
  <2> DEFINE chosen == CHOOSE id \in Bound(r) : TRUE
  <2>1. messages' = messages /\ Ids' = Ids
    BY <1>3 DEF StoreAndRing, Ids
  <2>2. Answer(r) = [result |-> "stored", id |-> chosen]
    BY <1>3 DEF Answer
  <2>3. PICK row \in Bound(r) : messages[row] = r
    BY <1>3 DEF Duplicates
  <2>4. chosen \in Bound(r)
    BY <2>3
  <2>5. chosen = row
    BY <2>3, <2>4 DEF BoardInv, KeysAreUnique, Bound
  <2>6. chosen \in Ids /\ chosen \in Nat
    BY <1>1, <2>4 DEF Bound, Ids, BoardTypeOK
  <2> HIDE DEF chosen
  <2>7. QED
    BY <2>1, <2>2, <2>3, <2>5, <2>6 DEF Reply
<1>4. CASE ~Stores(r) /\ ~Duplicates(r)
  <2>1. messages' = messages /\ Ids' = Ids
    BY <1>4 DEF StoreAndRing, Ids
  <2>2. Answer(r) = [result |-> IF ParentExists(r) THEN "conflict" ELSE "no_parent", id |-> 0]
    BY <1>4 DEF Answer
  <2>3. ParentExists(r) => \E id \in Bound(r) : messages[id] # r
    BY <1>4 DEF Stores, Duplicates
  <2>4. Bound(r)' = Bound(r)
    BY <2>1 DEF Bound
  <2>5. QED
    BY <1>4, <2>1, <2>2, <2>3, <2>4 DEF Reply
<1>5. QED
  BY <1>2, <1>3, <1>4

(***************************************************************************)
(* What one step does to the board.                                        *)
(***************************************************************************)

LEMMA UnchangedGrows ==
  ASSUME messages' = messages
  PROVE  Grows
  BY DEF Grows, Ids

LEMMA StillBoard ==
  ASSUME BoardInv, messages' = messages, told' = told
  PROVE  BoardInv' /\ Grows
  BY UnchangedGrows DEF BoardInv, BoardTypeOK, KeysAreUnique, AnswersHold, Bound, Ids

\* A copy is stored or not, and nobody hears of it.
LEMMA CopyKeepsBoard ==
  ASSUME BoardInv, NEW r \in Requests, told' = told,
         messages' = messages \/ (Stores(r) /\ messages' = Append(messages, r))
  PROVE  BoardInv' /\ Grows
<1>1. Grows /\ BoardTypeOK' /\ KeysAreUnique'
  <2>1. CASE messages' = messages
    BY <2>1, UnchangedGrows DEF BoardInv, BoardTypeOK, KeysAreUnique, Ids
  <2>2. CASE Stores(r) /\ messages' = Append(messages, r)
    BY <2>2, AppendGrows, StoringKeepsKeys DEF BoardInv, BoardTypeOK
  <2>3. QED
    BY <2>1, <2>2
<1>2. AnswersHold'
  BY <1>1, AnswersStay DEF AnswersHold
<1>3. QED
  BY <1>1, <1>2 DEF BoardInv

LEMMA StoreMoves ==
  ASSUME NEW r, StoreAndRing(r)
  PROVE  messages' = messages \/ (Stores(r) /\ messages' = Append(messages, r))
  BY DEF StoreAndRing

\* A copy is handled and its call hears the answer.
LEMMA AnsweredKeepsBoard ==
  ASSUME BoardInv, NEW r \in Requests, StoreAndRing(r),
         told' = [told EXCEPT ![r] = Answer(r)]
  PROVE  BoardInv' /\ Grows
<1>1. messages' = messages \/ (Stores(r) /\ messages' = Append(messages, r))
  BY StoreMoves
<1>2. Grows /\ messages' \in Seq(Requests) /\ KeysAreUnique'
  <2>1. CASE messages' = messages
    BY <2>1, UnchangedGrows DEF BoardInv, BoardTypeOK, KeysAreUnique, Ids
  <2>2. CASE Stores(r) /\ messages' = Append(messages, r)
    BY <2>2, AppendGrows, StoringKeepsKeys DEF BoardInv
  <2>3. QED
    BY <1>1, <2>1, <2>2
<1>3. told' \in [Requests -> Reply \cup {None}]
  BY AnswerHolds DEF BoardInv, BoardTypeOK
<1>4. AnswersHold'
  <2>1. SUFFICES ASSUME NEW q \in Requests, told'[q] # None
                 PROVE  /\ told'[q].result = "stored" =>
                               told'[q].id \in Ids' /\ messages'[told'[q].id] = q
                        /\ told'[q].result = "conflict" =>
                               \E id \in Bound(q)' : messages'[id] # q
    BY DEF AnswersHold
  <2>2. CASE q = r
    <3>1. told'[q] = Answer(r)
      BY <2>2 DEF BoardInv, BoardTypeOK
    <3>2. QED
      BY <2>2, <3>1, AnswerHolds
  <2>3. CASE q # r
    <3>1. told'[q] = told[q]
      BY <2>3 DEF BoardInv, BoardTypeOK
    <3>2. QED
      BY <1>2, <2>1, <3>1, AnswersStay
  <2>4. QED
    BY <2>2, <2>3
<1>5. QED
  BY <1>2, <1>3, <1>4 DEF BoardInv, BoardTypeOK

\* Refusing a request for its client_id is as good as saying that it is not
\* on the board: the row that bears the client_id is another one.
LEMMA AnswersAreHonest ==
  ASSUME BoardInv
  PROVE  ReplyIsHonest
<1>1. SUFFICES ASSUME NEW q \in Requests, told[q] # None
               PROVE  /\ told[q].result = "stored" => messages[told[q].id] = q
                      /\ told[q].result = "conflict" => \A id \in Ids : messages[id] # q
  BY DEF ReplyIsHonest
<1>2. ASSUME told[q].result = "conflict", NEW id \in Ids, messages[id] = q
      PROVE  FALSE
  <2>1. PICK row \in Bound(q) : messages[row] # q
    BY <1>1, <1>2 DEF BoardInv, AnswersHold
  <2>2. row \in Ids /\ messages[row].key = messages[id].key /\ messages[id].key # None
    BY <1>2, <2>1 DEF Bound
  <2>3. QED
    BY <1>2, <2>1, <2>2 DEF BoardInv, KeysAreUnique
<1>3. QED
  BY <1>1, <1>2 DEF BoardInv, AnswersHold

(***************************************************************************)
(* Every step of the board keeps the invariant.                            *)
(***************************************************************************)

LEMMA InitHolds ==
  ASSUME Init
  PROVE  BoardInv
  BY DEF Init, BoardInv, BoardTypeOK, KeysAreUnique, AnswersHold, Ids

LEMMA HandlePostKeeps ==
  ASSUME BoardInv, NEW r \in Requests, HandlePost(r)
  PROVE  BoardInv'
<1>1. StoreAndRing(r) /\ told' \in {told, [told EXCEPT ![r] = Answer(r)]}
  BY DEF HandlePost
<1>2. CASE told' = told
  BY <1>1, <1>2, StoreMoves, CopyKeepsBoard
<1>3. CASE told' = [told EXCEPT ![r] = Answer(r)]
  BY <1>1, <1>3, AnsweredKeepsBoard
<1>4. QED
  BY <1>1, <1>2, <1>3

LEMMA NextKeeps ==
  ASSUME BoardInv, [Next]_vars
  PROVE  BoardInv'
<1>1. ASSUME NEW r \in Requests, HandlePost(r)
      PROVE  BoardInv'
  BY <1>1, HandlePostKeeps
<1>2. ASSUME NEW r \in Requests, SendPost(r) \/ LosePost(r)
      PROVE  messages' = messages /\ told' = told
  BY <1>2 DEF SendPost, LosePost
<1>3. ASSUME NEW l \in Listeners,
             HandleWatch(l) \/ OnWatchTimeout(l) \/ CrashListener(l) \/ EndBacklog(l)
      PROVE  messages' = messages /\ told' = told
  BY <1>3 DEF HandleWatch, OnWatchTimeout, CrashListener, EndBacklog, posts
<1>4. ASSUME NEW l \in Listeners, Receive(l)
      PROVE  messages' = messages /\ told' = told
  BY <1>4 DEF Receive, ReceiveSubscribed, ReceiveMessage, ReceiveTimeout,
              ReceiveOverflow, ReceiveEof, posts
<1>5. ASSUME NEW l \in Listeners, NEW c \in Channels, ReadBacklog(l, c) \/ Advance(l, c)
      PROVE  messages' = messages /\ told' = told
  BY <1>5 DEF ReadBacklog, Advance, posts
<1>6. ASSUME RestartRelay
      PROVE  messages' = messages /\ told' = told
  BY <1>6 DEF RestartRelay
<1>7. ASSUME UNCHANGED vars
      PROVE  messages' = messages /\ told' = told
  BY <1>7 DEF vars, posts
<1>8. BoardInv' \/ (messages' = messages /\ told' = told)
  BY <1>1, <1>2, <1>3, <1>4, <1>5, <1>6, <1>7 DEF Next
<1>9. QED
  BY <1>8, StillBoard

\* Whatever copies of whatever requests are handled, in any order and however
\* late, an answer of the relay stays true: a post reported as stored is the
\* message of that id, and a post refused for its client_id is not there.
THEOREM PostsAreAnsweredHonestly == Spec => []ReplyIsHonest
<1>1. Init => BoardInv
  BY InitHolds
<1>2. BoardInv /\ [Next]_vars => BoardInv'
  BY NextKeeps
<1>3. BoardInv => ReplyIsHonest
  BY AnswersAreHonest
<1>4. QED
  BY <1>1, <1>2, <1>3, PTL DEF Spec

(***************************************************************************)
(* The frames queued for a listener.                                       *)
(***************************************************************************)

Frame == [event : {"subscribed", "message", "timeout", "overflow"}, id : Nat]

Ordered(queue) ==
    \A i, j \in DOMAIN queue :
        i < j /\ queue[j].event = "message" => queue[i].id < queue[j].id

\* A queue of frames that speak of the first n messages.
QueueOK(queue, n) ==
    /\ queue \in Seq(Frame)
    /\ \A i \in DOMAIN queue : queue[i].id <= n
    /\ Ordered(queue)

\* That no frame is ahead of the table makes the next event the highest.
QueuesInv ==
    /\ messages \in Seq(Requests)
    /\ out \in [Listeners -> Seq(Frame)]
    /\ \A l \in Listeners : QueueOK(out[l], Len(messages))

LEMMA EmptyIsOK ==
  ASSUME NEW n \in Nat
  PROVE  QueueOK(<<>>, n)
  BY DEF QueueOK, Ordered

LEMMA AppendAt ==
  ASSUME NEW S, NEW queue \in Seq(S), NEW frame, NEW i \in DOMAIN Append(queue, frame)
  PROVE  \/ i \in DOMAIN queue /\ Append(queue, frame)[i] = queue[i]
         \/ i = Len(queue) + 1 /\ Append(queue, frame)[i] = frame
  OBVIOUS

LEMMA AppendKeepsFrames ==
  ASSUME NEW S, NEW queue \in Seq(S), NEW frame
  PROVE  /\ Len(Append(queue, frame)) = Len(queue) + 1
         /\ Append(queue, frame)[Len(queue) + 1] = frame
         /\ \A i \in DOMAIN queue :
                i \in DOMAIN Append(queue, frame) /\ Append(queue, frame)[i] = queue[i]
  OBVIOUS

LEMMA TailAt ==
  ASSUME NEW S, NEW queue \in Seq(S), queue # <<>>
  PROVE  /\ Len(Tail(queue)) = Len(queue) - 1
         /\ \A i \in DOMAIN Tail(queue) :
                i + 1 \in DOMAIN queue /\ Tail(queue)[i] = queue[i + 1]
  OBVIOUS

LEMMA QueuedIds ==
  ASSUME NEW queue, NEW n, QueueOK(queue, n)
  PROVE  \A i \in DOMAIN queue : queue[i].id \in Nat
<1>1. \A i \in DOMAIN queue : queue[i] \in Frame
  BY DEF QueueOK
<1>2. \A frame \in Frame : frame.id \in Nat
  BY DEF Frame
<1>3. QED
  BY <1>1, <1>2

LEMMA LongerTable ==
  ASSUME NEW queue, NEW n \in Nat, NEW m \in Nat, n <= m, QueueOK(queue, n)
  PROVE  QueueOK(queue, m)
<1>1. \A i \in DOMAIN queue : queue[i].id \in Nat
  BY QueuedIds
<1>2. QED
  BY <1>1 DEF QueueOK

LEMMA NewEventIsOK ==
  ASSUME NEW queue, NEW n \in Nat, QueueOK(queue, n),
         NEW frame \in Frame, frame.id = n + 1
  PROVE  QueueOK(Append(queue, frame), n + 1)
<1>1. \A i \in DOMAIN queue : queue[i].id \in Nat
  BY QueuedIds
<1>2. QED
  BY <1>1 DEF QueueOK, Ordered

LEMMA OtherFrameIsOK ==
  ASSUME NEW queue, NEW n \in Nat, QueueOK(queue, n),
         NEW frame \in Frame, frame.id <= n, frame.event # "message"
  PROVE  QueueOK(Append(queue, frame), n)
  BY DEF QueueOK, Ordered

LEMMA TailIsOK ==
  ASSUME NEW queue, NEW n \in Nat, QueueOK(queue, n), queue # <<>>
  PROVE  QueueOK(Tail(queue), n)
  BY DEF QueueOK, Ordered

LEMMA HandlePostQueues ==
  ASSUME QueuesInv, NEW r \in Requests, HandlePost(r)
  PROVE  QueuesInv'
<1> DEFINE n == Len(messages)
<1>1. CASE messages' = Append(messages, r) /\ Fanout(Len(messages) + 1, r.channel)
  <2>1. n \in Nat /\ messages' \in Seq(Requests) /\ Len(messages') = n + 1
    BY <1>1 DEF QueuesInv
  <2> HIDE DEF n
  <2>2. \A l \in Listeners : out'[l] \in {Append(out[l], Overflow(n + 1)),
                                         Append(out[l], MessageEvent(n + 1)), out[l]}
    BY <1>1 DEF Fanout, n
  <2>3. ASSUME NEW l \in Listeners
        PROVE  QueueOK(out'[l], n + 1)
    <3>1. QueueOK(out[l], n)
      BY DEF QueuesInv, n
    <3>2. Overflow(n + 1) \in Frame /\ MessageEvent(n + 1) \in Frame
      BY <2>1 DEF Overflow, MessageEvent, Frame
    <3>3. QueueOK(Append(out[l], Overflow(n + 1)), n + 1)
      BY <2>1, <3>1, <3>2, NewEventIsOK DEF Overflow
    <3>4. QueueOK(Append(out[l], MessageEvent(n + 1)), n + 1)
      BY <2>1, <3>1, <3>2, NewEventIsOK DEF MessageEvent
    <3>5. QueueOK(out[l], n + 1)
      BY <2>1, <3>1, LongerTable
    <3>6. QED
      BY <2>2, <3>3, <3>4, <3>5
  <2>4. DOMAIN out' = Listeners /\ out' = [l \in Listeners |-> out'[l]]
    BY <1>1 DEF Fanout
  <2>5. QED
    BY <2>1, <2>3, <2>4 DEF QueuesInv, QueueOK
<1>2. CASE messages' = messages /\ out' = out
  BY <1>2 DEF QueuesInv
<1>3. QED
  BY <1>1, <1>2 DEF HandlePost, StoreAndRing

\* Every other step leaves each queue alone, takes its first frame, empties
\* it, or appends a frame that is no message event.
QueueStep(l) ==
    \/ out'[l] = out[l]
    \/ out'[l] = <<>>
    \/ out[l] # <<>> /\ out'[l] = Tail(out[l])
    \/ out'[l] = Append(out[l], Timeout)
    \/ out'[l] = Append(out[l], Subscribed(Len(messages)))
    \/ out'[l] = <<Subscribed(Len(messages))>>

QueuesStep ==
    /\ messages' = messages
    /\ out' = [l \in Listeners |-> out'[l]]
    /\ \A l \in Listeners : QueueStep(l)

LEMMA QueuesStepKeeps ==
  ASSUME QueuesInv, QueuesStep
  PROVE  QueuesInv'
<1> DEFINE n == Len(messages)
<1>1. n \in Nat /\ messages' = messages /\ out' = [l \in Listeners |-> out'[l]]
  BY DEF QueuesInv, QueuesStep
<1>2. ASSUME NEW l \in Listeners
      PROVE  QueueOK(out'[l], n)
  <2>1. QueueOK(out[l], n) /\ QueueStep(l)
    BY DEF QueuesInv, QueuesStep
  <2> HIDE DEF n
  <2>2. Timeout \in Frame /\ Subscribed(n) \in Frame
    BY <1>1 DEF Timeout, Subscribed, Frame
  <2>3. QueueOK(Append(out[l], Timeout), n) /\ QueueOK(Append(out[l], Subscribed(n)), n)
    BY <1>1, <2>1, <2>2, OtherFrameIsOK DEF Timeout, Subscribed
  <2>4. QueueOK(<<>>, n)
    BY <1>1, EmptyIsOK
  <2>5. QueueOK(<<Subscribed(n)>>, n)
    BY <1>1, <2>2 DEF QueueOK, Ordered, Subscribed
  <2>6. out[l] # <<>> => QueueOK(Tail(out[l]), n)
    BY <1>1, <2>1, TailIsOK
  <2>7. QED
    BY <2>1, <2>3, <2>4, <2>5, <2>6 DEF QueueStep, n
<1>3. QED
  BY <1>1, <1>2 DEF QueuesInv, QueueOK

LEMMA WatchQueues ==
  ASSUME QueuesInv, NEW l \in Listeners, HandleWatch(l) \/ OnWatchTimeout(l)
  PROVE  QueuesStep
<1>1. messages' = messages
  BY DEF HandleWatch, OnWatchTimeout, posts
<1>2. \/ out' = [out EXCEPT ![l] = <<Subscribed(Len(messages))>>]
      \/ out' = [out EXCEPT ![l] = Append(@, Subscribed(Len(messages)))]
      \/ out' = [out EXCEPT ![l] = Append(@, Timeout)]
  BY DEF HandleWatch, OnWatchTimeout
<1>3. QED
  BY <1>1, <1>2 DEF QueuesInv, QueuesStep, QueueStep

LEMMA ReceiveQueues ==
  ASSUME QueuesInv, NEW l \in Listeners, Receive(l) \/ CrashListener(l)
  PROVE  QueuesStep
<1>1. messages' = messages
  BY DEF Receive, CrashListener, ReceiveSubscribed, ReceiveMessage, ReceiveTimeout,
         ReceiveOverflow, ReceiveEof, posts
<1>2. \/ out[l] # <<>> /\ out' = [out EXCEPT ![l] = Tail(@)]
      \/ out' = [out EXCEPT ![l] = <<>>]
  BY DEF Receive, CrashListener, ReceiveSubscribed, ReceiveMessage, ReceiveTimeout,
         ReceiveOverflow, ReceiveEof, Takes, Disconnect
<1>3. QED
  BY <1>1, <1>2 DEF QueuesInv, QueuesStep, QueueStep

LEMMA StillQueues ==
  ASSUME QueuesInv, messages' = messages, out' = out
  PROVE  QueuesStep
  BY DEF QueuesInv, QueuesStep, QueueStep

LEMMA StepQueues ==
  ASSUME QueuesInv, [Next]_vars
  PROVE  QueuesStep \/ \E r \in Requests : HandlePost(r)
<1>1. ASSUME NEW r \in Requests, SendPost(r) \/ LosePost(r)
      PROVE  QueuesStep
  BY <1>1, StillQueues DEF SendPost, LosePost
<1>2. ASSUME NEW l \in Listeners, HandleWatch(l) \/ OnWatchTimeout(l)
      PROVE  QueuesStep
  BY <1>2, WatchQueues
<1>3. ASSUME NEW l \in Listeners, Receive(l) \/ CrashListener(l)
      PROVE  QueuesStep
  BY <1>3, ReceiveQueues
<1>4. ASSUME NEW l \in Listeners, NEW c \in Channels,
             EndBacklog(l) \/ ReadBacklog(l, c) \/ Advance(l, c)
      PROVE  QueuesStep
  BY <1>4, StillQueues DEF EndBacklog, ReadBacklog, Advance, posts
<1>5. ASSUME NEW l \in Listeners, EndBacklog(l)
      PROVE  QueuesStep
  BY <1>5, StillQueues DEF EndBacklog, posts
<1>6. ASSUME RestartRelay
      PROVE  QueuesStep
  <2>1. messages' = messages
    BY <1>6 DEF RestartRelay
  <2>2. PICK lost \in SUBSET Listeners :
            out' = [l \in Listeners |-> IF l \in lost THEN <<>> ELSE out[l]]
    BY <1>6 DEF RestartRelay
  <2>3. QED
    BY <2>1, <2>2 DEF QueuesStep, QueueStep
<1>7. ASSUME UNCHANGED vars
      PROVE  QueuesStep
  BY <1>7, StillQueues DEF vars, posts
<1>8. QED
  BY <1>1, <1>2, <1>3, <1>4, <1>5, <1>6, <1>7 DEF Next

LEMMA NextKeepsQueues ==
  ASSUME QueuesInv, [Next]_vars
  PROVE  QueuesInv'
BY StepQueues, QueuesStepKeeps, HandlePostQueues

LEMMA QueuesInit ==
  ASSUME Init
  PROVE  QueuesInv
<1>1. messages = <<>> /\ Len(messages) = 0 /\ out = [l \in Listeners |-> <<>>]
  BY DEF Init
<1>2. QueueOK(<<>>, 0)
  BY EmptyIsOK
<1>3. <<>> \in Seq(Requests) /\ <<>> \in Seq(Frame)
  OBVIOUS
<1>4. QED
  BY <1>1, <1>2, <1>3 DEF QueuesInv

\* No listener hears of a message twice, or of one its watermark told it to
\* read: events stay in order across subscriptions, retried posts, overflows,
\* crashes and restarts, for any listeners, channels and buffer limit.
THEOREM EventsStayInOrder == Spec => []EventsInOrder
<1>1. Init => QueuesInv
  BY QueuesInit
<1>2. QueuesInv /\ [Next]_vars => QueuesInv'
  BY NextKeepsQueues
<1>3. QueuesInv => EventsInOrder
  BY DEF QueuesInv, QueueOK, Ordered, EventsInOrder
<1>4. QED
  BY <1>1, <1>2, <1>3, PTL DEF Spec

(***************************************************************************)
(* The shape of every variable.                                            *)
(***************************************************************************)
CopiesAreSent == \A r \in Requests : copies[r] <= sent[r]
WatchesAll == \A l \in Listeners : filter[l] \in {{}, Watched[l]}

\* An event names a message of a channel its listener watches.
EventsAreVisible ==
    \A l \in Listeners : \A i \in DOMAIN out[l] :
        out[l][i].event = "message" => out[l][i].id \in Visible(l)

PostShape ==
    /\ Len(messages) <= MaxMessages
    /\ sent \in [Requests -> 0..MaxSends] /\ copies \in [Requests -> 0..MaxSends]
    /\ CopiesAreSent

ListenerShape ==
    /\ filter \in [Listeners -> SUBSET Channels]
    /\ closed \in [Listeners -> BOOLEAN]
    /\ stage \in [Listeners -> {"off", "listening", "reading"}]
    /\ mark \in [Listeners -> Nat]
    /\ after \in [Listeners -> [Channels -> Ids \cup {0}]]
    /\ handled \in [Listeners -> SUBSET Ids]
    /\ cursors \in [Seats -> [Channels -> Ids \cup {0}]]
    /\ restarts \in 0..MaxRestarts

ShapeInv ==
    /\ BoardInv /\ QueuesInv /\ PostShape /\ ListenerShape
    /\ WatchesAll /\ EventsAreVisible

LEMMA ShapeIsTypeOK ==
  ASSUME ShapeInv
  PROVE  TypeOK
<1>1. \A reply \in Reply : reply.result \in {"stored", "conflict", "no_parent"}
  BY DEF Reply
<1>2. \A r \in Requests : \/ told[r] = None
                          \/ told[r].result \in {"stored", "conflict", "no_parent"}
  BY <1>1 DEF ShapeInv, BoardInv, BoardTypeOK
<1>3. ASSUME NEW l \in Listeners, NEW i \in DOMAIN out[l]
      PROVE  out[l][i].id \in Ids \cup {0}
  <2>1. out[l][i].id \in Nat /\ out[l][i].id <= Len(messages)
    BY QueuedIds DEF ShapeInv, QueuesInv, QueueOK
  <2>2. QED
    BY <2>1 DEF ShapeInv, BoardInv, BoardTypeOK, Ids
<1>4. QED
  BY <1>2, <1>3 DEF ShapeInv, PostShape, ListenerShape, TypeOK, BoardInv, BoardTypeOK, Ids

LEMMA PostShapeStep ==
  ASSUME ShapeInv, [Next]_vars
  PROVE  PostShape'
<1>1. messages \in Seq(Requests) /\ MaxMessages \in Nat /\ MaxSends \in Nat
  BY BoardAssumption DEF ShapeInv, BoardInv, BoardTypeOK
<1>2. ASSUME NEW r \in Requests, SendPost(r) \/ LosePost(r)
      PROVE  PostShape'
  <2>1. CASE SendPost(r)
    BY <1>1, <2>1 DEF SendPost, ShapeInv, PostShape, CopiesAreSent
  <2>2. CASE LosePost(r)
    BY <1>1, <2>2 DEF LosePost, ShapeInv, PostShape, CopiesAreSent
  <2>3. QED
    BY <1>2, <2>1, <2>2
<1>3. ASSUME NEW r \in Requests, HandlePost(r)
      PROVE  PostShape'
  <2>1. /\ sent' = sent /\ copies[r] > 0
        /\ copies' = [copies EXCEPT ![r] = @ - 1]
    BY <1>3 DEF HandlePost
  <2>2. Len(messages') <= MaxMessages
    BY <1>1, <1>3 DEF HandlePost, StoreAndRing, ShapeInv, PostShape
  <2>3. QED
    BY <1>1, <2>1, <2>2 DEF ShapeInv, PostShape, CopiesAreSent
<1>4. CASE RestartRelay
  BY <1>1, <1>4 DEF RestartRelay, ShapeInv, PostShape, CopiesAreSent
<1>5. CASE UNCHANGED posts
  BY <1>5 DEF posts, ShapeInv, PostShape, CopiesAreSent
<1>6. ASSUME NEW l \in Listeners,
             \/ HandleWatch(l) \/ OnWatchTimeout(l) \/ CrashListener(l)
             \/ Receive(l) \/ EndBacklog(l)
             \/ \E c \in Channels : ReadBacklog(l, c) \/ Advance(l, c)
      PROVE  UNCHANGED posts
  BY <1>6 DEF HandleWatch, OnWatchTimeout, CrashListener, Receive, ReceiveSubscribed,
              ReceiveMessage, ReceiveTimeout, ReceiveOverflow, ReceiveEof,
              EndBacklog, ReadBacklog, Advance
<1>7. QED
  BY <1>2, <1>3, <1>4, <1>5, <1>6 DEF Next, vars

(***************************************************************************)
(* Pages.                                                                  *)
(***************************************************************************)

LEMMA HasLargest ==
  ASSUME NEW S \in SUBSET Nat, S # {}, NEW n \in Nat, \A k \in S : k <= n
  PROVE  \E m \in S : \A k \in S : k <= m
<1> DEFINE R == {pair \in Nat \X Nat : pair[1] < pair[2]}
<1> DEFINE T == {n - k : k \in S}
<1>1. T \subseteq Nat /\ T # {}
  <2>1. T \subseteq Nat
    OBVIOUS
  <2>2. PICK k : k \in S
    OBVIOUS
  <2>3. n - k \in T
    BY <2>2
  <2> QED  BY <2>1, <2>3
<1>2. IsWellFoundedOn(R, Nat)
  BY NatLessThanWellFounded DEF OpToRel
<1>3. PICK x \in T : \A y \in T : ~(y < x)
  <2>1. \E x \in T : \A y \in T : ~(<<y, x>> \in R)
    <3> HIDE DEF R, T
    <3> QED  BY <1>1, <1>2, WFMin
  <2>2. QED
    BY <1>1, <2>1
<1>4. PICK m \in S : x = n - m
  BY <1>3
<1>5. ASSUME NEW k \in S
      PROVE  k <= m
  <2>1. ~(n - k < n - m)
    BY <1>3, <1>4
  <2>2. QED
    BY <2>1
<1>6. QED
  BY <1>5

\* A page is what follows the cursor, without a gap, up to its largest id.
LEMMA PageFacts ==
  ASSUME messages \in Seq(Requests), NEW c, NEW start \in Nat
  PROVE  LET page == ReadMessages(c, start)
             last == Largest(page, start)
         IN  /\ page \subseteq In(c) /\ last \in Nat /\ last \in Ids \cup {start}
             /\ \A id \in In(c) : id <= last => id <= start \/ id \in page
             /\ \A id \in page : id <= last
<1> DEFINE page == ReadMessages(c, start)
<1> DEFINE last == Largest(page, start)
<1> DEFINE between(id) == {k \in In(c) : start < k /\ k < id}
<1>1. In(c) \subseteq Ids /\ Ids \subseteq Nat /\ Len(messages) \in Nat
  BY DEF In, Ids
<1>2. page = {id \in In(c) : id > start /\ Cardinality(between(id)) < PageLimit}
  BY DEF ReadMessages
<1>3. CASE page = {}
  BY <1>3 DEF Largest
<1>4. CASE page # {}
  <2>1. \E m \in page : \A k \in page : k <= m
    <3>1. page \subseteq Nat /\ \A k \in page : k <= Len(messages)
      BY <1>1, <1>2 DEF Ids
    <3> HIDE DEF page
    <3> QED  BY <1>1, <1>4, <3>1, HasLargest
  <2>2. last \in page /\ \A k \in page : k <= last
    <3> HIDE DEF page
    <3> QED  BY <1>4, <2>1 DEF Largest
  <2>3. ASSUME NEW id \in In(c), id <= last, id > start
        PROVE  id \in page
    <3>1. IsFiniteSet(between(last)) /\ between(id) \subseteq between(last)
      <4>1. between(last) \in SUBSET Nat /\ \A k \in between(last) : k <= Len(messages)
        BY <1>1 DEF Ids
      <4>2. IsFiniteSet(between(last))
        <5> HIDE DEF between
        <5> QED  BY <1>1, <4>1, FS_BoundedSetOfNaturals
      <4>3. last \in Nat /\ id \in Nat
        BY <1>1, <1>2, <2>2
      <4>4. between(id) \subseteq between(last)
        <5> HIDE DEF last
        <5>1. ASSUME NEW k \in between(id) PROVE k \in between(last)
            BY <1>1, <2>3, <4>3
        <5> QED  BY <5>1
      <4> QED  BY <4>2, <4>4
    <3>2. /\ Cardinality(between(id)) <= Cardinality(between(last))
          /\ Cardinality(between(id)) \in Nat /\ Cardinality(between(last)) \in Nat
      <4> HIDE DEF between
      <4> QED  BY <3>1, FS_Subset, FS_CardinalityType
    <3>3. Cardinality(between(last)) < PageLimit
      BY <1>2, <2>2
    <3> HIDE DEF between, last
    <3> QED  BY <1>2, <2>3, <3>2, <3>3, BoardAssumption
  <2>4. page \subseteq In(c) /\ last \in Nat /\ last \in Ids
    BY <1>1, <1>2, <2>2
  <2>5. \A id \in In(c) : id \in Nat
    BY <1>1
  <2>6. start \in Nat /\ \A id \in In(c) : id <= last => id <= start \/ id \in page
    <3> HIDE DEF page, last
    <3> QED  BY <2>3, <2>4, <2>5
  <2> QED  BY <2>2, <2>4, <2>6
<1> QED  BY <1>3, <1>4

(***************************************************************************)
(* What a listener does keeps the shape.                                   *)
(***************************************************************************)
LEMMA QueueHead ==
  ASSUME ShapeInv, NEW l \in Listeners, out[l] # <<>>
  PROVE  /\ Head(out[l]) = out[l][1] /\ 1 \in DOMAIN out[l]
         /\ Head(out[l]) \in Frame
         /\ Head(out[l]).id \in Nat /\ Head(out[l]).id <= Len(messages)
<1>1. out[l] \in Seq(Frame) /\ QueueOK(out[l], Len(messages))
  BY DEF ShapeInv, QueuesInv
<1>2. Head(out[l]) = out[l][1] /\ 1 \in DOMAIN out[l] /\ Head(out[l]) \in Frame
  BY <1>1
<1>3. \A i \in DOMAIN out[l] : out[l][i].id \in Nat
  BY <1>1, QueuedIds
<1> QED  BY <1>1, <1>2, <1>3 DEF QueueOK

LEMMA HandlePostShape ==
  ASSUME ShapeInv, NEW r \in Requests, HandlePost(r)
  PROVE  ListenerShape' /\ WatchesAll' /\ EventsAreVisible'
<1>1. messages \in Seq(Requests) /\ \A l \in Listeners : out[l] \in Seq(Frame)
  BY DEF ShapeInv, QueuesInv
<1>2. UNCHANGED <<cursors, listening, restarts>>
  BY DEF HandlePost
<1>3. CASE messages' = messages /\ UNCHANGED <<filter, out, closed>>
  BY <1>2, <1>3 DEF ShapeInv, ListenerShape, WatchesAll, EventsAreVisible, listening,
                    Ids, Visible
<1>4. CASE messages' = Append(messages, r) /\ Fanout(Len(messages) + 1, r.channel)
  <2> DEFINE n == Len(messages)
  <2>1. Grows /\ Ids' = Ids \cup {n + 1} /\ messages'[n + 1] = r /\ n \in Nat
    BY <1>1, <1>4, AppendGrows DEF ShapeInv, BoardInv
  <2>2. \A l \in Listeners : Visible(l) \subseteq Visible(l)'
    BY <2>1 DEF Grows, Visible
  <2>3. /\ filter' \in [Listeners -> SUBSET Channels] /\ closed' \in [Listeners -> BOOLEAN]
        /\ \A l \in Listeners : filter'[l] \in {filter[l], {}}
    BY <1>4 DEF Fanout, ShapeInv, ListenerShape
  <2>4. ListenerShape'
    BY <1>2, <2>1, <2>3 DEF ShapeInv, ListenerShape, listening
  <2>5. WatchesAll'
    BY <2>3 DEF ShapeInv, WatchesAll
  <2>6. ASSUME NEW l \in Listeners, NEW i \in DOMAIN out'[l], out'[l][i].event = "message"
        PROVE  out'[l][i].id \in Visible(l)'
    <3>1. CASE i \in DOMAIN out[l] /\ out'[l][i] = out[l][i]
      BY <2>2, <2>6, <3>1 DEF ShapeInv, EventsAreVisible
    <3>2. CASE r.channel \in filter[l] /\ out'[l][i] = MessageEvent(n + 1)
      BY <2>1, <3>2 DEF MessageEvent, Visible, ShapeInv, WatchesAll
    <3>3. CASE out'[l][i] = Overflow(n + 1)
      BY <2>6, <3>3 DEF Overflow
    <3>4. \/ out'[l] = Append(out[l], Overflow(n + 1))
          \/ r.channel \in filter[l] /\ out'[l] = Append(out[l], MessageEvent(n + 1))
          \/ out'[l] = out[l]
      BY <1>4 DEF Fanout
    <3>5. out[l] \in Seq(Frame)
      BY <1>1
    <3> HIDE DEF n
    <3> QED  BY <2>6, <3>1, <3>2, <3>3, <3>4, <3>5, AppendAt
  <2> QED  BY <2>4, <2>5, <2>6 DEF EventsAreVisible
<1> QED  BY <1>3, <1>4 DEF HandlePost, StoreAndRing

LEMMA QueuesStepVisible ==
  ASSUME ShapeInv, QueuesStep
  PROVE  EventsAreVisible'
<1>1. \A l \in Listeners : Visible(l)' = Visible(l)
  BY DEF QueuesStep, Visible, Ids
<1>2. ASSUME NEW l \in Listeners, NEW i \in DOMAIN out'[l], out'[l][i].event = "message"
      PROVE  out'[l][i].id \in Visible(l)
  <2>1. out[l] \in Seq(Frame) /\ QueueStep(l)
    BY DEF ShapeInv, QueuesInv, QueuesStep
  <2>2. Timeout.event # "message" /\ Subscribed(Len(messages)).event # "message"
    BY DEF Timeout, Subscribed
  <2>3. \A j \in DOMAIN out[l] : out[l][j].event = "message" => out[l][j].id \in Visible(l)
    BY DEF ShapeInv, EventsAreVisible
  <2>4. CASE out'[l] = out[l]
    BY <1>2, <2>3, <2>4
  <2>5. CASE out[l] # <<>> /\ out'[l] = Tail(out[l])
    BY <1>2, <2>1, <2>3, <2>5, TailAt
  <2>6. CASE out'[l] \in {<<>>, <<Subscribed(Len(messages))>>}
    BY <1>2, <2>2, <2>6
  <2>7. ASSUME NEW frame, frame.event # "message", out'[l] = Append(out[l], frame)
        PROVE  out'[l][i].id \in Visible(l)
    BY <1>2, <2>1, <2>3, <2>7, AppendAt
  <2> QED  BY <2>1, <2>2, <2>4, <2>5, <2>6, <2>7 DEF QueueStep
<1> QED  BY <1>1, <1>2 DEF EventsAreVisible

LEMMA ListenerSteps ==
  ASSUME ShapeInv, NEW l \in Listeners,
         \/ HandleWatch(l) \/ OnWatchTimeout(l) \/ CrashListener(l)
         \/ Receive(l) \/ EndBacklog(l)
         \/ \E c \in Channels : ReadBacklog(l, c) \/ Advance(l, c)
  PROVE  ListenerShape' /\ WatchesAll'
<1> USE DEF ShapeInv, ListenerShape, WatchesAll, posts
<1>1. Watched \in [Listeners -> SUBSET Channels] /\ SeatOf \in [Listeners -> Seats]
      /\ MaxRestarts \in Nat /\ messages \in Seq(Requests)
  BY BoardAssumption DEF BoardInv, BoardTypeOK
<1>2. CASE HandleWatch(l)
  BY <1>1, <1>2 DEF HandleWatch, Ids
<1>3. CASE OnWatchTimeout(l)
  BY <1>1, <1>3 DEF OnWatchTimeout, Ids, listening
<1>4. CASE CrashListener(l)
  BY <1>1, <1>4 DEF CrashListener, Disconnect, Ids
<1>5. CASE ReceiveSubscribed(l)
  <2>1. Head(out[l]).id \in Nat
    BY <1>5, QueueHead DEF ReceiveSubscribed, Takes
  <2>2. cursors[SeatOf[l]] \in [Channels -> Ids \cup {0}]
    BY <1>1
  <2> QED  BY <1>1, <1>5, <2>1, <2>2 DEF ReceiveSubscribed, Ids
<1>6. CASE ReceiveMessage(l)
  <2> DEFINE id == Head(out[l]).id
  <2>1. id \in Visible(l)
    BY <1>6, QueueHead DEF EventsAreVisible, ReceiveMessage, Takes
  <2>2. id \in Ids /\ id \in Nat
    BY <2>1, <1>1 DEF Visible, Ids
  <2>3. /\ handled' = [handled EXCEPT ![l] = @ \cup {id}]
        /\ after' = [after EXCEPT ![l][messages[id].channel] = IF @ > id THEN @ ELSE id]
        /\ UNCHANGED <<posts, cursors, filter, closed, stage, mark, restarts>>
    BY <1>6 DEF ReceiveMessage
  <2>4. Ids' = Ids
    BY <2>3 DEF Ids
  <2>5. messages[id].channel \in Channels
    <3> HIDE DEF id
    <3>1. messages[id] \in Requests
      BY <1>1, <2>2 DEF Ids
    <3> QED  BY <3>1, BoardAssumption
  <2>6. handled' \in [Listeners -> SUBSET Ids]
    BY <2>2, <2>3
  <2>7. after' \in [Listeners -> [Channels -> Ids \cup {0}]]
    <3> DEFINE c == messages[id].channel
    <3>1. after' = [after EXCEPT ![l] = [after[l] EXCEPT ![c] =
                        IF after[l][c] > id THEN after[l][c] ELSE id]]
      BY <2>3
    <3>2. after[l] \in [Channels -> Ids \cup {0}]
      OBVIOUS
    <3> HIDE DEF id, c
    <3>3. [after[l] EXCEPT ![c] = IF after[l][c] > id THEN after[l][c] ELSE id]
              \in [Channels -> Ids \cup {0}]
      BY <2>2, <3>2
    <3> QED  BY <3>1, <3>3
  <2> HIDE DEF id
  <2> QED  BY <2>3, <2>4, <2>6, <2>7
<1>7. CASE ReceiveTimeout(l)
  BY <1>1, <1>7 DEF ReceiveTimeout, Disconnect, Ids
<1>8. CASE ReceiveOverflow(l)
  BY <1>1, <1>8 DEF ReceiveOverflow, Ids, listening
<1>9. CASE ReceiveEof(l)
  BY <1>1, <1>9 DEF ReceiveEof, Disconnect, Ids
<1>10. CASE EndBacklog(l)
  BY <1>1, <1>10 DEF EndBacklog, Ids
<1>11. ASSUME NEW c \in Channels, ReadBacklog(l, c)
       PROVE  ListenerShape' /\ WatchesAll'
  <2> DEFINE page == ReadMessages(c, after[l][c])
             last == Largest(page, after[l][c])
  <2>1. after[l][c] \in Ids \cup {0} /\ Ids \subseteq Nat
    BY <1>1 DEF Ids
  <2>2. page \subseteq Ids /\ last \in Ids \cup {0}
    <3>0. In(c) \subseteq Ids
      BY Zenon DEF In
    <3>1. after[l][c] \in Nat
      BY <1>1 DEF Ids
    <3>2. page \subseteq In(c) /\ last \in Ids \cup {after[l][c]}
      BY <1>1, <3>1, PageFacts
    <3> HIDE DEF page, last
    <3> QED  BY <2>1, <3>0, <3>2
  <2>3. /\ handled' = [handled EXCEPT ![l] = @ \cup page]
        /\ after' = [after EXCEPT ![l][c] = last]
        /\ UNCHANGED <<posts, cursors, filter, out, closed, stage, mark, restarts>>
    BY <1>11 DEF ReadBacklog
  <2>4. Ids' = Ids
    BY <2>3 DEF Ids
  <2>5. handled' \in [Listeners -> SUBSET Ids]
    BY <2>2, <2>3
  <2>6. after' \in [Listeners -> [Channels -> Ids \cup {0}]]
    <3> HIDE DEF page, last
    <3>1. after' = [after EXCEPT ![l] = [after[l] EXCEPT ![c] = last]]
      BY <2>3
    <3>2. [after[l] EXCEPT ![c] = last] \in [Channels -> Ids \cup {0}]
      BY <2>2
    <3> QED  BY <3>1, <3>2
  <2> HIDE DEF page, last
  <2> QED  BY <2>3, <2>4, <2>5, <2>6
<1>12. ASSUME NEW c \in Channels, Advance(l, c)
       PROVE  ListenerShape' /\ WatchesAll'
  <2>1. PICK id \in handled[l] \cap In(c) : AdvanceCursor(SeatOf[l], c, id)
    BY <1>12 DEF Advance
  <2>2. id \in Ids
    BY DEF In
  <2> QED  BY <1>1, <1>12, <2>1, <2>2 DEF Advance, AdvanceCursor, Ids, listening
<1> QED  BY <1>2, <1>3, <1>4, <1>5, <1>6, <1>7, <1>8, <1>9, <1>10, <1>11, <1>12
         DEF Receive

LEMMA ShapeStep ==
  ASSUME ShapeInv, [Next]_vars
  PROVE  ShapeInv'
<1>1. BoardInv' /\ QueuesInv' /\ PostShape'
  BY NextKeeps, NextKeepsQueues, PostShapeStep DEF ShapeInv
<1>2. CASE \E r \in Requests : HandlePost(r)
  BY <1>1, <1>2, HandlePostShape DEF ShapeInv
<1>3. CASE QueuesStep
  <2>1. EventsAreVisible'
    BY <1>3, QueuesStepVisible
  <2>2. ListenerShape' /\ WatchesAll'
    <3>1. CASE \E r \in Requests : SendPost(r) \/ LosePost(r)
      BY <3>1 DEF SendPost, LosePost, ShapeInv, ListenerShape, WatchesAll, Ids, listening
    <3>2. CASE \E l \in Listeners :
                 \/ HandleWatch(l) \/ OnWatchTimeout(l) \/ CrashListener(l)
                 \/ Receive(l) \/ EndBacklog(l)
                 \/ \E c \in Channels : ReadBacklog(l, c) \/ Advance(l, c)
      BY <3>2, ListenerSteps
    <3>3. CASE RestartRelay
      BY <3>3, BoardAssumption
      DEF RestartRelay, ShapeInv, ListenerShape, WatchesAll, Ids, listening
    <3>4. CASE UNCHANGED vars
      BY <3>4 DEF vars, ShapeInv, ListenerShape, WatchesAll, Ids, listening, posts
    <3>5. CASE \E r \in Requests : HandlePost(r)
      BY <3>5, HandlePostShape
    <3> QED  BY <3>1, <3>2, <3>3, <3>4, <3>5 DEF Next
  <2> QED  BY <1>1, <2>1, <2>2 DEF ShapeInv
<1> QED  BY <1>2, <1>3, StepQueues DEF ShapeInv

LEMMA ShapeInvariant == Spec => []ShapeInv
<1>1. ASSUME Init
      PROVE  ShapeInv
  <2>1. BoardInv /\ QueuesInv
    BY <1>1, InitHolds, QueuesInit
  <2>2. PostShape /\ ListenerShape /\ WatchesAll
    BY <1>1, BoardAssumption
    DEF Init, PostShape, CopiesAreSent, ListenerShape, WatchesAll
  <2>3. EventsAreVisible
    BY <1>1 DEF Init, EventsAreVisible
  <2> QED  BY <2>1, <2>2, <2>3 DEF ShapeInv
<1>2. ShapeInv /\ [Next]_vars => ShapeInv'
  BY ShapeStep
<1> QED  BY <1>1, <1>2, PTL DEF Spec

\* Every table, queue and listener keeps its shape, and a queued frame names a
\* committed message, for any requests, listeners and bounds.
THEOREM BoardTypes == Spec => []TypeOK
BY ShapeInvariant, ShapeIsTypeOK, PTL

(***************************************************************************)
(* No wake-up is lost.  A message is accounted for at a position of a      *)
(* listener's queue when the seat has it, or the listener still reads it   *)
(* below a watermark, or a frame before that position leads to it.  Every  *)
(* event is the next one its listener needs, so taking it in queue order   *)
(* leaves no gap behind after, and none behind the cursor.                 *)
(***************************************************************************)
Unread(l, id) == stage[l] = "reading" /\ id \in Backlog(l, messages[id].channel)

Queued(l, id, n) ==
    \E j \in 1..n : \/ out[l][j] = MessageEvent(id)
                    \/ out[l][j].event = "subscribed" /\ id <= out[l][j].id

Accounted(l, id, n) ==
    id \in HandledBySeat(SeatOf[l]) \/ Unread(l, id) \/ Queued(l, id, n)

EventsAreNext(l) ==
    \A i \in DOMAIN out[l] :
        out[l][i].event = "message" =>
            \A id \in Visible(l) : id < out[l][i].id => Accounted(l, id, i - 1)

WatchMissesNothing(l) ==
    filter[l] # {} => \A id \in Visible(l) : Accounted(l, id, Len(out[l]))

ConsumedInOrder(l) ==
    \A c \in Channels : \A id \in In(c) :
        id <= after[l][c] => id \in HandledBySeat(SeatOf[l])

ToldOfTheEnd(l) ==
    stage[l] = "off" \/ closed[l] \/ Waiting(l, "timeout") \/ filter[l] = Watched[l]

CursorsAreBehind ==
    \A s \in Seats : \A c \in Channels : \A id \in In(c) :
        id <= cursors[s][c] => id \in HandledBySeat(s)

WatchInv(l) ==
    EventsAreNext(l) /\ WatchMissesNothing(l) /\ ConsumedInOrder(l) /\ ToldOfTheEnd(l)

WakeupInv == (\A l \in Listeners : WatchInv(l)) /\ CursorsAreBehind

\* What a seat has consumed is never forgotten.
SeenGrows == \A s \in Seats : HandledBySeat(s) \subseteq HandledBySeat(s)'

LEMMA SeenMembers ==
  /\ \A s, id : id \in HandledBySeat(s) <=>
         \E l \in Listeners : SeatOf[l] = s /\ id \in handled[l]
  /\ \A s, id : id \in HandledBySeat(s)' <=>
         \E l \in Listeners : SeatOf[l] = s /\ id \in handled'[l]
  BY DEF HandledBySeat

LEMMA SeenStays ==
  ASSUME \A l \in Listeners : handled[l] \subseteq handled'[l]
  PROVE  SeenGrows
  BY SeenMembers DEF SeenGrows

LEMMA AccountedStays ==
  ASSUME messages' = messages, SeenGrows, NEW l \in Listeners, NEW id, NEW n, NEW m,
         Accounted(l, id, n),
         Unread(l, id) => Unread(l, id)' \/ id \in HandledBySeat(SeatOf[l])',
         Queued(l, id, n) => Queued(l, id, m)' \/ id \in HandledBySeat(SeatOf[l])'
                             \/ Unread(l, id)'
  PROVE  Accounted(l, id, m)'
  BY BoardAssumption DEF Accounted, SeenGrows

\* A listener this step does not touch.
LEMMA BystanderKeeps ==
  ASSUME NEW l \in Listeners, WatchInv(l), messages' = messages, SeenGrows,
         UNCHANGED <<out[l], filter[l], closed[l], stage[l], mark[l], after[l]>>
  PROVE  WatchInv(l)'
<1>1. Visible(l)' = Visible(l) /\ \A c : In(c)' = In(c)
  BY DEF Visible, In, Ids
<1>2. \A id : Unread(l, id)' <=> Unread(l, id)
  BY <1>1 DEF Unread, Backlog
<1>3. \A id, n : Queued(l, id, n)' <=> Queued(l, id, n)
  BY DEF Queued
<1>4. \A id, n : Accounted(l, id, n) => Accounted(l, id, n)'
  BY <1>2, <1>3, AccountedStays
<1>5. EventsAreNext(l)' /\ WatchMissesNothing(l)'
  BY <1>1, <1>4 DEF WatchInv, EventsAreNext, WatchMissesNothing
<1>6. ConsumedInOrder(l)'
  BY <1>1, BoardAssumption DEF WatchInv, ConsumedInOrder, SeenGrows
<1>7. ToldOfTheEnd(l)'
  BY DEF WatchInv, ToldOfTheEnd, Waiting
<1> QED  BY <1>5, <1>6, <1>7 DEF WatchInv

\* The listener leaves, or loses what was queued for it.
LEMMA EmptyQueueKeeps ==
  ASSUME NEW l \in Listeners, WatchInv(l), messages' = messages, SeenGrows,
         out'[l] = <<>>, filter'[l] = {}, closed'[l], after'[l] = after[l]
  PROVE  WatchInv(l)'
<1>1. \A c : In(c)' = In(c)
  BY DEF In, Ids
<1>2. ConsumedInOrder(l)'
  BY <1>1, BoardAssumption DEF WatchInv, ConsumedInOrder, SeenGrows
<1> QED  BY <1>2 DEF WatchInv, EventsAreNext, WatchMissesNothing, ToldOfTheEnd

\* A frame that is no event is queued; the subscription has ended, or the frame
\* is the watermark of a new one.
LEMMA FrameQueuedKeeps ==
  ASSUME NEW l \in Listeners, WatchInv(l), messages' = messages, SeenGrows,
         messages \in Seq(Requests),
         NEW queue \in Seq(Frame),
         \/ filter'[l] = {} /\ out'[l] = Append(queue, Timeout)
         \/ /\ filter'[l] = Watched[l]
            /\ out'[l] = Append(queue, Subscribed(Len(messages))),
         queue # <<>> => queue = out[l] /\ UNCHANGED <<stage[l], mark[l]>>,
         after'[l] = after[l]
  PROVE  WatchInv(l)'
<1>1. Visible(l)' = Visible(l) /\ Ids' = Ids /\ \A c : In(c)' = In(c)
  BY DEF Visible, In, Ids
<1>2. PICK frame : /\ out'[l] = Append(queue, frame)
                   /\ \/ frame = Timeout /\ filter'[l] = {}
                      \/ frame = Subscribed(Len(messages)) /\ filter'[l] = Watched[l]
  OBVIOUS
<1>3. /\ frame.event # "message" /\ Len(out'[l]) = Len(queue) + 1
      /\ out'[l][Len(queue) + 1] = frame /\ Len(queue) \in Nat
      /\ \A j \in 1..Len(queue) : out'[l][j] = queue[j]
  BY <1>2 DEF Timeout, Subscribed
<1>4. EventsAreNext(l)'
  <2> SUFFICES ASSUME NEW i \in DOMAIN out'[l], out'[l][i].event = "message",
                      NEW id \in Visible(l), id < out'[l][i].id
               PROVE  Accounted(l, id, i - 1)'
      BY <1>1 DEF EventsAreNext
  <2>1. /\ i \in 1..Len(queue) /\ out'[l][i] = queue[i] /\ queue = out[l]
        /\ UNCHANGED <<stage[l], mark[l]>>
      BY <1>2, <1>3, AppendAt
  <2>2. Accounted(l, id, i - 1)
      BY <2>1 DEF WatchInv, EventsAreNext
  <2>3. Unread(l, id) => Unread(l, id)'
      BY <1>1, <2>1 DEF Unread, Backlog
  <2>4. \A j \in 1..(i - 1) : out'[l][j] = out[l][j]
      BY <1>3, <2>1
  <2>5. Queued(l, id, i - 1) => Queued(l, id, i - 1)'
      BY <2>4 DEF Queued
  <2> QED  BY <2>2, <2>3, <2>5, AccountedStays
<1>5. WatchMissesNothing(l)'
  <2> SUFFICES ASSUME filter'[l] # {}, NEW id \in Visible(l)
               PROVE  Accounted(l, id, Len(out[l]))'
      BY <1>1 DEF WatchMissesNothing
  <2>1. frame.event = "subscribed" /\ frame.id = Len(messages)
      BY <1>2 DEF Subscribed
  <2>2. id <= Len(messages)
      BY DEF Visible, Ids
  <2> QED  BY <1>3, <2>1, <2>2 DEF Accounted, Queued
<1>6. ConsumedInOrder(l)'
  BY <1>1, BoardAssumption DEF WatchInv, ConsumedInOrder, SeenGrows
<1>7. ToldOfTheEnd(l)'
  <2>1. CASE frame = Timeout
      BY <1>3, <2>1 DEF ToldOfTheEnd, Waiting, Timeout
  <2> QED  BY <1>2, <2>1 DEF ToldOfTheEnd
<1> QED  BY <1>4, <1>5, <1>6, <1>7 DEF WatchInv

\* The listener takes the first frame, which leads to no message it has not
\* got by then.
LEMMA FrameTakenKeeps ==
  ASSUME NEW l \in Listeners, WatchInv(l), messages' = messages, SeenGrows,
         out[l] \in Seq(Frame), out[l] # <<>>, out'[l] = Tail(out[l]),
         stage[l] = "listening", Head(out[l]).event # "timeout",
         UNCHANGED <<filter[l], closed[l]>>,
         ConsumedInOrder(l)',
         \A id \in Visible(l) :
             \/ out[l][1] = MessageEvent(id)
             \/ out[l][1].event = "subscribed" /\ id <= out[l][1].id
             => id \in HandledBySeat(SeatOf[l])' \/ Unread(l, id)'
  PROVE  WatchInv(l)'
<1>1. Visible(l)' = Visible(l)
  BY DEF Visible, Ids
<1>2. /\ Len(out'[l]) = Len(out[l]) - 1 /\ Head(out[l]) = out[l][1]
      /\ \A i \in DOMAIN out'[l] : i + 1 \in DOMAIN out[l] /\ out'[l][i] = out[l][i + 1]
      /\ out'[l] \in Seq(Frame)
  BY TailAt
<1>3. ASSUME NEW id \in Visible(l), NEW n \in Nat, NEW m, m = n + 1, m <= Len(out[l]),
             Accounted(l, id, m)
      PROVE  Accounted(l, id, n)'
  <2>1. ASSUME Queued(l, id, m)
        PROVE  Queued(l, id, n)' \/ id \in HandledBySeat(SeatOf[l])' \/ Unread(l, id)'
    <3>1. PICK j \in 1..m : \/ out[l][j] = MessageEvent(id)
                            \/ out[l][j].event = "subscribed" /\ id <= out[l][j].id
        BY <2>1 DEF Queued
    <3>2. CASE j = 1
        BY <3>1, <3>2
    <3>3. CASE j # 1
      <4>1. j - 1 \in 1..n /\ j - 1 \in DOMAIN out'[l]
          BY <1>2, <1>3, <3>3
      <4>2. out'[l][j - 1] = out[l][j]
          BY <1>2, <4>1
      <4> QED  BY <3>1, <4>1, <4>2 DEF Queued
    <3> QED  BY <3>2, <3>3
  <2>2. ~Unread(l, id)
      BY DEF Unread
  <2> QED  BY <1>3, <2>1, <2>2, AccountedStays
<1>4. EventsAreNext(l)'
  <2> SUFFICES ASSUME NEW i \in DOMAIN out'[l], out'[l][i].event = "message",
                      NEW id \in Visible(l), id < out'[l][i].id
               PROVE  Accounted(l, id, i - 1)'
      BY <1>1 DEF EventsAreNext
  <2>1. i \in Nat \ {0} /\ i + 1 \in DOMAIN out[l] /\ out'[l][i] = out[l][i + 1]
      BY <1>2
  <2>2. Accounted(l, id, (i + 1) - 1)
      BY <2>1 DEF WatchInv, EventsAreNext
  <2>3. DOMAIN out[l] = 1..Len(out[l]) /\ Len(out[l]) \in Nat
      OBVIOUS
  <2>4. (i + 1) - 1 = i
      BY <2>1
  <2>5. Accounted(l, id, i)
      BY <2>2, <2>4
  <2>6. i - 1 \in Nat /\ i = (i - 1) + 1 /\ i <= Len(out[l])
      BY <2>1, <2>3
  <2> QED  BY <1>3, <2>5, <2>6
<1>5. WatchMissesNothing(l)'
  <2> SUFFICES ASSUME filter[l] # {}, NEW id \in Visible(l)
               PROVE  Accounted(l, id, Len(out[l]))'
      BY <1>1 DEF WatchMissesNothing
  <2>1. PICK n \in Nat : n = Len(out[l]) - 1 /\ n + 1 = Len(out[l])
      <3>1. Len(out[l]) - 1 \in Nat /\ (Len(out[l]) - 1) + 1 = Len(out[l])
          OBVIOUS
      <3> QED  BY <3>1
  <2>2. Accounted(l, id, Len(out[l]))
      BY DEF WatchInv, WatchMissesNothing
  <2>3. Len(out'[l]) = n
      BY <1>2, <2>1
  <2>4. Accounted(l, id, n)'
      BY <1>3, <2>1, <2>2
  <2> QED  BY <2>3, <2>4 DEF Accounted, Queued
<1>6. ToldOfTheEnd(l)'
  <2>1. ASSUME Waiting(l, "timeout")
        PROVE  Waiting(l, "timeout")'
    <3>1. PICK i \in DOMAIN out[l] : out[l][i].event = "timeout"
        BY <2>1 DEF Waiting
    <3>2. i # 1
        BY <1>2, <3>1
    <3>3. i - 1 \in DOMAIN out'[l] /\ out'[l][i - 1] = out[l][i]
        BY <1>2, <3>2
    <3> QED  BY <3>1, <3>3 DEF Waiting
  <2> QED  BY <2>1 DEF WatchInv, ToldOfTheEnd
<1> QED  BY <1>4, <1>5, <1>6 DEF WatchInv

\* The listener reads its backlog, or has read it, while its frames wait.
LEMMA BacklogKeeps ==
  ASSUME NEW l \in Listeners, WatchInv(l), messages' = messages, SeenGrows,
         UNCHANGED <<out[l], filter[l], closed[l]>>, stage[l] = "reading",
         ConsumedInOrder(l)',
         \A id \in Visible(l) :
             Unread(l, id) => Unread(l, id)' \/ id \in HandledBySeat(SeatOf[l])'
  PROVE  WatchInv(l)'
<1>1. Visible(l)' = Visible(l)
  BY DEF Visible, Ids
<1>2. \A id, n : Queued(l, id, n) => Queued(l, id, n)'
  BY DEF Queued
<1>3. \A id \in Visible(l) : \A n : Accounted(l, id, n) => Accounted(l, id, n)'
  BY <1>2, AccountedStays
<1>4. EventsAreNext(l)' /\ WatchMissesNothing(l)'
  BY <1>1, <1>3 DEF WatchInv, EventsAreNext, WatchMissesNothing
<1>5. ToldOfTheEnd(l)'
  BY DEF WatchInv, ToldOfTheEnd, Waiting
<1> QED  BY <1>4, <1>5 DEF WatchInv

\* A message is stored: the watches of its channel are rung or ended.
LEMMA RingKeeps ==
  ASSUME ShapeInv, NEW r \in Requests, NEW l \in Listeners, WatchInv(l),
         messages' = Append(messages, r), Fanout(Len(messages) + 1, r.channel),
         UNCHANGED listening
  PROVE  WatchInv(l)'
<1>1. PICK n \in Nat : n = Len(messages)
  BY DEF ShapeInv, QueuesInv
<1>2. /\ Grows /\ Ids' = Ids \cup {n + 1} /\ messages'[n + 1] = r
      /\ \A id \in Ids : id \in Nat /\ id <= n
  BY <1>1, AppendGrows DEF ShapeInv, BoardInv, Ids
<1>3. /\ out[l] \in Seq(Frame) /\ Len(out[l]) \in Nat
      /\ \A i \in DOMAIN out[l] : out[l][i].id \in Nat /\ out[l][i].id <= n
  <2>1. out[l] \in Seq(Frame) /\ QueueOK(out[l], n)
    BY <1>1 DEF ShapeInv, QueuesInv
  <2>2. \A i \in DOMAIN out[l] : out[l][i].id \in Nat
    BY <2>1, QueuedIds
  <2>3. \A i \in DOMAIN out[l] : out[l][i].id <= n
    BY <2>1 DEF QueueOK
  <2> QED  BY <2>1, <2>2, <2>3
<1>4. \/ /\ r.channel \in filter[l] /\ filter'[l] = {} /\ closed'[l]
         /\ out'[l] = Append(out[l], Overflow(n + 1))
      \/ /\ r.channel \in filter[l] /\ UNCHANGED <<filter[l], closed[l]>>
         /\ out'[l] = Append(out[l], MessageEvent(n + 1))
      \/ r.channel \notin filter[l] /\ UNCHANGED <<filter[l], closed[l], out[l]>>
  BY <1>1 DEF Fanout, ShapeInv, ListenerShape
<1>5. \A id \in Visible(l)' : id \in Visible(l) \/ (id = n + 1 /\ r.channel \in Watched[l])
  BY <1>2 DEF Visible, Grows
<1>6. \A c : In(c) \subseteq In(c)' /\ \A id \in In(c)' : id \in In(c) \/ id = n + 1
  BY <1>2 DEF In, Grows
<1>7. \A j \in DOMAIN out[l] : j \in DOMAIN out'[l] /\ out'[l][j] = out[l][j]
  <2>1. CASE out'[l] = out[l]
    BY <2>1
  <2>2. ASSUME NEW frame, out'[l] = Append(out[l], frame)
        PROVE  \A j \in DOMAIN out[l] : j \in DOMAIN out'[l] /\ out'[l][j] = out[l][j]
    <3>1. out[l] \in Seq(Frame)
      BY <1>3
    <3> QED  BY <2>2, <3>1, AppendKeepsFrames
  <2> QED  BY <1>4, <2>1, <2>2
<1>8. ASSUME NEW id \in Visible(l), NEW k \in 0..Len(out[l]), Accounted(l, id, k)
      PROVE  Accounted(l, id, k)'
  <2>1. Unread(l, id) => Unread(l, id)'
    BY <1>2, <1>6 DEF Unread, Backlog, listening, Visible, Grows
  <2>2. Queued(l, id, k) => Queued(l, id, k)'
    BY <1>3, <1>7 DEF Queued
  <2>3. HandledBySeat(SeatOf[l])' = HandledBySeat(SeatOf[l])
    BY DEF HandledBySeat, listening
  <2> QED  BY <1>8, <2>1, <2>2, <2>3 DEF Accounted
<1>9. ASSUME r.channel \in filter[l], NEW id \in Visible(l)
      PROVE  Accounted(l, id, Len(out[l]))
  BY <1>9 DEF WatchInv, WatchMissesNothing
<1>10. EventsAreNext(l)'
  <2> SUFFICES ASSUME NEW i \in DOMAIN out'[l], out'[l][i].event = "message",
                      NEW id \in Visible(l)', id < out'[l][i].id
               PROVE  Accounted(l, id, i - 1)'
      BY DEF EventsAreNext
  <2>1. CASE i \in DOMAIN out[l] /\ out'[l][i] = out[l][i]
    <3>1. id \in Visible(l)
        BY <1>3, <1>5, <2>1
    <3>2. Accounted(l, id, i - 1)
        BY <2>1, <3>1 DEF WatchInv, EventsAreNext
    <3> QED  BY <1>3, <1>8, <2>1, <3>1, <3>2
  <2>2. CASE i = Len(out[l]) + 1 /\ r.channel \in filter[l] /\ out'[l][i] = MessageEvent(n + 1)
    <3>1. id \in Visible(l)
        BY <1>5, <2>2 DEF MessageEvent
    <3>2. PICK k \in 0..Len(out[l]) : k = i - 1 /\ k = Len(out[l])
        BY <1>3, <2>2
    <3>3. Accounted(l, id, k)
        BY <1>9, <2>2, <3>1, <3>2
    <3> QED  BY <1>8, <3>1, <3>2, <3>3
  <2>3. CASE out'[l][i] = Overflow(n + 1)
    BY <2>3 DEF Overflow
  <2>4. CASE out'[l] = out[l]
    BY <2>1, <2>4
  <2>5. CASE out'[l] = Append(out[l], Overflow(n + 1))
    BY <1>3, <2>1, <2>3, <2>5, AppendAt
  <2>6. CASE r.channel \in filter[l] /\ out'[l] = Append(out[l], MessageEvent(n + 1))
    BY <1>3, <2>1, <2>2, <2>6, AppendAt
  <2> QED  BY <1>4, <2>4, <2>5, <2>6
<1>11. WatchMissesNothing(l)'
  <2> SUFFICES ASSUME filter'[l] # {}, NEW id \in Visible(l)'
               PROVE  Accounted(l, id, Len(out[l]))'
      BY DEF WatchMissesNothing
  <2>1. PICK k \in 0..Len(out[l]) : k = Len(out[l])
    BY <1>3
  <2>2. /\ Len(out'[l]) \in Nat /\ k <= Len(out'[l])
        /\ \A j \in 1..k : out'[l][j] = out[l][j]
    BY <1>3, <1>4, <1>7, <2>1
  <2>3. CASE id \in Visible(l)
    <3>1. Accounted(l, id, k)
        BY <1>4, <2>1, <2>3 DEF WatchInv, WatchMissesNothing
    <3>2. Accounted(l, id, k)'
        BY <1>8, <2>3, <3>1
    <3> QED  BY <2>2, <3>2 DEF Accounted, Queued
  <2>4. CASE id = n + 1 /\ r.channel \in Watched[l]
    <3>1. filter[l] = Watched[l]
        BY <1>4 DEF ShapeInv, WatchesAll
    <3>2. out'[l] = Append(out[l], MessageEvent(n + 1))
        BY <1>4, <2>4, <3>1
    <3>3. Len(out'[l]) = Len(out[l]) + 1 /\ out'[l][Len(out[l]) + 1] = MessageEvent(n + 1)
        BY <1>3, <3>2
    <3> QED  BY <1>3, <2>4, <3>3 DEF Accounted, Queued
  <2> QED  BY <1>5, <2>3, <2>4
<1>12. ConsumedInOrder(l)'
  <2> SUFFICES ASSUME NEW c \in Channels, NEW id \in In(c)', id <= after[l][c]
               PROVE  id \in HandledBySeat(SeatOf[l])'
      BY DEF ConsumedInOrder, listening
  <2>1. after[l][c] \in Nat /\ after[l][c] <= n
      BY <1>1, <1>2 DEF ShapeInv, ListenerShape
  <2>2. id \in In(c)
      BY <1>6, <2>1
  <2>3. id \in HandledBySeat(SeatOf[l])
      BY <2>2 DEF WatchInv, ConsumedInOrder
  <2> QED  BY <2>3 DEF HandledBySeat, listening
<1>13. ToldOfTheEnd(l)'
  <2>1. Waiting(l, "timeout") => Waiting(l, "timeout")'
      BY <1>7 DEF Waiting
  <2> QED  BY <1>4, <2>1 DEF WatchInv, ToldOfTheEnd, listening
<1> QED  BY <1>10, <1>11, <1>12, <1>13 DEF WatchInv

\* One listener acts, and acknowledges nothing.
LEMMA OneListenerKeeps ==
  ASSUME WakeupInv, NEW l \in Listeners, messages' = messages, SeenGrows,
         cursors' = cursors, WatchInv(l)',
         \A k \in Listeners \ {l} :
             UNCHANGED <<out[k], filter[k], closed[k], stage[k], mark[k], after[k]>>
  PROVE  WakeupInv'
<1>1. \A k \in Listeners : WatchInv(k)'
  BY BystanderKeeps DEF WakeupInv
<1>2. CursorsAreBehind'
  BY DEF WakeupInv, CursorsAreBehind, In, Ids, SeenGrows
<1> QED  BY <1>1, <1>2 DEF WakeupInv

LEMMA WatchKeeps ==
  ASSUME ShapeInv, WakeupInv, NEW l \in Listeners,
         HandleWatch(l) \/ OnWatchTimeout(l) \/ CrashListener(l)
  PROVE  WakeupInv'
<1> USE DEF ShapeInv, ListenerShape, posts, listening
<1>1. /\ WatchInv(l) /\ messages' = messages /\ cursors' = cursors
      /\ handled' = handled /\ after' = after
  BY DEF WakeupInv, HandleWatch, OnWatchTimeout, CrashListener
<1>2. SeenGrows /\ messages \in Seq(Requests) /\ out \in [Listeners -> Seq(Frame)]
  BY <1>1, SeenStays DEF QueuesInv
<1>3. \A k \in Listeners \ {l} :
          UNCHANGED <<out[k], filter[k], closed[k], stage[k], mark[k], after[k]>>
  BY <1>1, <1>2 DEF HandleWatch, OnWatchTimeout, CrashListener, Disconnect
<1>4. CASE HandleWatch(l)
  <2>1. PICK queue \in Seq(Frame) :
            /\ out'[l] = Append(queue, Subscribed(Len(messages)))
            /\ queue # <<>> => queue = out[l] /\ UNCHANGED <<stage[l], mark[l]>>
    <3>1. CASE stage[l] = "off"
      <4>1. out'[l] = <<Subscribed(Len(messages))>>
          BY <1>2, <1>4, <3>1 DEF HandleWatch
      <4>2. <<Subscribed(Len(messages))>> = Append(<<>>, Subscribed(Len(messages)))
          OBVIOUS
      <4>3. <<>> \in Seq(Frame)
          OBVIOUS
      <4> HIDE DEF ShapeInv, ListenerShape, posts, listening
      <4>4. \E queue \in Seq(Frame) :
                queue = <<>> /\ out'[l] = Append(queue, Subscribed(Len(messages)))
          BY <4>1, <4>2, <4>3
      <4> QED  BY <4>4
    <3>2. CASE stage[l] # "off"
        BY <1>2, <1>4, <3>2 DEF HandleWatch
    <3> QED  BY <3>1, <3>2
  <2>2. filter'[l] = Watched[l]
    BY <1>4 DEF HandleWatch
  <2>3. WatchInv(l)'
    BY <1>1, <1>2, <2>1, <2>2, FrameQueuedKeeps
  <2> QED  BY <1>1, <1>2, <1>3, <2>3, OneListenerKeeps
<1>5. CASE OnWatchTimeout(l)
  <2>1. /\ filter'[l] = {} /\ out'[l] = Append(out[l], Timeout)
        /\ UNCHANGED <<stage[l], mark[l]>>
    BY <1>2, <1>5 DEF OnWatchTimeout
  <2>2. WatchInv(l)'
    BY <1>1, <1>2, <2>1, FrameQueuedKeeps
  <2> QED  BY <1>1, <1>2, <1>3, <2>2, OneListenerKeeps
<1>6. CASE CrashListener(l)
  <2>1. out'[l] = <<>> /\ filter'[l] = {} /\ closed'[l]
    BY <1>2, <1>6 DEF CrashListener, Disconnect
  <2>2. WatchInv(l)'
    BY <1>1, <1>2, <2>1, EmptyQueueKeeps
  <2> QED  BY <1>1, <1>2, <1>3, <2>2, OneListenerKeeps
<1> QED  BY <1>4, <1>5, <1>6

LEMMA ReceiveKeeps ==
  ASSUME ShapeInv, WakeupInv, NEW l \in Listeners, Receive(l)
  PROVE  WakeupInv'
<1> USE DEF ShapeInv, ListenerShape, posts, listening
<1>1. /\ WatchInv(l) /\ messages' = messages /\ cursors' = cursors
      /\ \A k \in Listeners : handled[k] \subseteq handled'[k]
  BY DEF WakeupInv, Receive, ReceiveSubscribed, ReceiveMessage, ReceiveTimeout,
         ReceiveOverflow, ReceiveEof
<1>2. /\ SeenGrows /\ messages \in Seq(Requests) /\ out \in [Listeners -> Seq(Frame)]
      /\ Visible(l)' = Visible(l) /\ \A c : In(c)' = In(c)
  BY <1>1, SeenStays DEF QueuesInv, Visible, In, Ids
<1>3. \A k \in Listeners \ {l} :
          UNCHANGED <<out[k], filter[k], closed[k], stage[k], mark[k], after[k]>>
  BY <1>2 DEF Receive, ReceiveSubscribed, ReceiveMessage, ReceiveTimeout,
              ReceiveOverflow, ReceiveEof, Disconnect
<1>4. CASE ReceiveTimeout(l) \/ ReceiveEof(l)
  <2>1. out'[l] = <<>> /\ filter'[l] = {} /\ closed'[l] /\ after'[l] = after[l]
    BY <1>2, <1>4 DEF ReceiveTimeout, ReceiveEof, Disconnect
  <2>2. WatchInv(l)'
    BY <1>1, <1>2, <2>1, EmptyQueueKeeps
  <2> QED  BY <1>1, <1>2, <1>3, <2>2, OneListenerKeeps
<1>5. CASE ReceiveOverflow(l)
  <2>1. /\ out[l] # <<>> /\ out'[l] = Tail(out[l]) /\ stage[l] = "listening"
        /\ Head(out[l]).event = "overflow" /\ UNCHANGED <<filter[l], closed[l], after[l]>>
    BY <1>2, <1>5 DEF ReceiveOverflow, Takes
  <2>2. out[l][1].event = "overflow" /\ \A id : out[l][1] # MessageEvent(id)
    BY <2>1, QueueHead DEF MessageEvent
  <2>3. ConsumedInOrder(l)'
    BY <1>1, <1>2, <2>1, BoardAssumption DEF WatchInv, ConsumedInOrder, SeenGrows
  <2>4. WatchInv(l)'
    BY <1>1, <1>2, <2>1, <2>2, <2>3, FrameTakenKeeps
  <2> QED  BY <1>1, <1>2, <1>3, <2>4, OneListenerKeeps
<1>6. CASE ReceiveSubscribed(l)
  <2>1. /\ out[l] # <<>> /\ out'[l] = Tail(out[l]) /\ stage[l] = "listening"
        /\ Head(out[l]).event = "subscribed" /\ UNCHANGED <<filter[l], closed[l]>>
        /\ stage'[l] = "reading" /\ mark'[l] = Head(out[l]).id
        /\ after'[l] = cursors[SeatOf[l]]
    BY <1>2, <1>6 DEF ReceiveSubscribed, Takes
  <2>2. out[l][1] = Head(out[l]) /\ \A id : out[l][1] # MessageEvent(id)
    BY <2>1, QueueHead DEF MessageEvent
  <2>3. \A c \in Channels : \A id \in In(c) :
            id <= after'[l][c] => id \in HandledBySeat(SeatOf[l])'
    BY <1>2, <2>1, BoardAssumption DEF WakeupInv, CursorsAreBehind, SeenGrows
  <2>4. ASSUME NEW id \in Visible(l), id <= mark'[l]
        PROVE  id \in HandledBySeat(SeatOf[l])' \/ Unread(l, id)'
    <3> DEFINE c == messages[id].channel
    <3>1. id \in In(c) /\ c \in Channels /\ id \in Nat
        BY <1>2, BoardAssumption DEF In, Visible, Ids
    <3>2. after'[l][c] \in Nat
        BY <2>1, <3>1, BoardAssumption DEF Ids
    <3> QED  BY <1>1, <1>2, <2>1, <2>3, <2>4, <3>1, <3>2 DEF Unread, Backlog
  <2>5. WatchInv(l)'
    <3>1. ConsumedInOrder(l)'
        BY <1>2, <2>3 DEF ConsumedInOrder
    <3> QED  BY <1>1, <1>2, <2>1, <2>2, <2>4, <3>1, FrameTakenKeeps
  <2> QED  BY <1>1, <1>2, <1>3, <2>5, OneListenerKeeps
<1>7. CASE ReceiveMessage(l)
  <2> DEFINE m == Head(out[l]).id
             d == messages[m].channel
  <2>1. /\ out[l] # <<>> /\ out'[l] = Tail(out[l]) /\ stage[l] = "listening"
        /\ Head(out[l]).event = "message" /\ UNCHANGED <<filter[l], closed[l]>>
    BY <1>2, <1>7 DEF ReceiveMessage, Takes
  <2>2. out[l][1] = Head(out[l]) /\ 1 \in DOMAIN out[l]
    BY <2>1, QueueHead
  <2>3. m \in Visible(l) /\ m \in Nat /\ d \in Watched[l]
    BY <2>1, <2>2, QueueHead DEF EventsAreVisible, Visible
  <2>4. handled'[l] = handled[l] \cup {m}
    BY <1>7 DEF ReceiveMessage
  <2>5. m \in HandledBySeat(SeatOf[l])'
    BY <2>4, SeenMembers
  <2>6. ASSUME NEW id \in Visible(l), id < m
        PROVE  id \in HandledBySeat(SeatOf[l])'
    <3>1. Accounted(l, id, 1 - 1)
        BY <1>1, <2>1, <2>2, <2>6 DEF WatchInv, EventsAreNext
    <3>2. ~Unread(l, id) /\ ~Queued(l, id, 1 - 1)
        BY <2>1 DEF Unread, Queued
    <3> QED  BY <1>2, <3>1, <3>2, BoardAssumption DEF Accounted, SeenGrows
  <2>7. \A c \in Channels : after'[l][c] = after[l][c] \/ (c = d /\ after'[l][c] = m)
    BY <1>7 DEF ReceiveMessage
  <2>8. ConsumedInOrder(l)'
    <3> SUFFICES ASSUME NEW c \in Channels, NEW id \in In(c), id <= after'[l][c]
                 PROVE  id \in HandledBySeat(SeatOf[l])'
        BY <1>2 DEF ConsumedInOrder
    <3>1. CASE after'[l][c] = after[l][c]
        BY <1>1, <1>2, <3>1, BoardAssumption DEF WatchInv, ConsumedInOrder, SeenGrows
    <3>2. CASE c = d /\ after'[l][c] = m
      <4>1. id \in Visible(l) /\ id \in Nat
          BY <2>3, <3>2 DEF Visible, In, Ids
      <4>2. id < m \/ id = m
        <5>1. id <= m
            BY <3>2
        <5>2. m \in Nat
            BY <2>3
        <5> HIDE DEF m, d, ShapeInv, ListenerShape
        <5> QED  BY <4>1, <5>1, <5>2
      <4> QED  BY <2>5, <2>6, <4>1, <4>2
    <3> QED  BY <2>7, <3>1, <3>2
  <2>9. \A id : out[l][1] = MessageEvent(id) => id = m
    BY <2>2 DEF MessageEvent
  <2>10. WatchInv(l)'
    BY <1>1, <1>2, <2>1, <2>2, <2>5, <2>8, <2>9, FrameTakenKeeps
  <2> QED  BY <1>1, <1>2, <1>3, <2>10, OneListenerKeeps
<1> QED  BY <1>4, <1>5, <1>6, <1>7 DEF Receive

LEMMA BacklogSteps ==
  ASSUME ShapeInv, WakeupInv, NEW l \in Listeners,
         EndBacklog(l) \/ \E c \in Channels : ReadBacklog(l, c)
  PROVE  WakeupInv'
<1>1. /\ WatchInv(l) /\ messages' = messages /\ cursors' = cursors
      /\ \A k \in Listeners : handled[k] \subseteq handled'[k]
      /\ stage[l] = "reading" /\ UNCHANGED <<out, filter, closed, mark>>
  BY DEF WakeupInv, EndBacklog, ReadBacklog, posts, ShapeInv, ListenerShape
<1>2. SeenGrows /\ Visible(l)' = Visible(l) /\ \A c : In(c)' = In(c)
  BY <1>1, SeenStays DEF Visible, In, Ids
<1>3. \A k \in Listeners \ {l} : stage'[k] = stage[k] /\ after'[k] = after[k]
  BY DEF EndBacklog, ReadBacklog, ShapeInv, ListenerShape
<1>4. \A id \in Visible(l) : messages[id].channel \in Watched[l]
                             /\ messages[id].channel \in Channels
  BY BoardAssumption DEF Visible
<1>5. CASE EndBacklog(l)
  <2>1. after' = after
    BY <1>5 DEF EndBacklog
  <2>2. \A id \in Visible(l) : ~Unread(l, id)
    BY <1>4, <1>5 DEF EndBacklog, Unread
  <2>3. ConsumedInOrder(l)'
    BY <1>1, <1>2, <2>1, BoardAssumption DEF WatchInv, ConsumedInOrder, SeenGrows
  <2>4. WatchInv(l)'
    BY <1>1, <1>2, <2>2, <2>3, BacklogKeeps
  <2> QED  BY <1>1, <1>2, <1>3, <2>4, OneListenerKeeps
<1>6. ASSUME NEW c \in Channels, ReadBacklog(l, c)
      PROVE  WakeupInv'
  <2> DEFINE page == ReadMessages(c, after[l][c])
             last == Largest(page, after[l][c])
  <2>1. after[l][c] \in Nat /\ messages \in Seq(Requests)
    BY DEF ShapeInv, ListenerShape, QueuesInv, Ids
  <2>2. \A id \in In(c) : id <= last => id <= after[l][c] \/ id \in page
    BY <2>1, PageFacts
  <2>3. handled'[l] = handled[l] \cup page
    BY <1>6 DEF ReadBacklog, ShapeInv, ListenerShape
  <2>4. after'[l] = [after[l] EXCEPT ![c] = last] /\ stage' = stage
    BY <1>6 DEF ReadBacklog, ShapeInv, ListenerShape
  <2>5. after[l] \in [Channels -> Ids \cup {0}]
    BY DEF ShapeInv, ListenerShape
  <2> HIDE DEF page, last
  <2>6. page \subseteq HandledBySeat(SeatOf[l])'
    BY <2>3, SeenMembers
  <2>7. \A d \in Channels : IF d = c THEN after'[l][d] = last ELSE after'[l][d] = after[l][d]
    BY <2>4, <2>5
  <2>8. ConsumedInOrder(l)'
    <3> SUFFICES ASSUME NEW d \in Channels, NEW id \in In(d), id <= after'[l][d]
                 PROVE  id \in HandledBySeat(SeatOf[l])'
        BY <1>2 DEF ConsumedInOrder
    <3>1. CASE id <= after[l][d]
        BY <1>1, <1>2, <3>1, BoardAssumption DEF WatchInv, ConsumedInOrder, SeenGrows
    <3>2. CASE d = c /\ id <= last
        BY <1>1, <1>2, <2>2, <2>6, <3>1, <3>2
    <3> QED  BY <2>7, <3>1, <3>2
  <2>9. \A id \in Visible(l) : Unread(l, id) => Unread(l, id)' \/ id \in HandledBySeat(SeatOf[l])'
    <3> SUFFICES ASSUME NEW id \in Visible(l), Unread(l, id), id \notin HandledBySeat(SeatOf[l])'
                 PROVE  Unread(l, id)'
        OBVIOUS
    <3> DEFINE d == messages[id].channel
    <3>1. id \in In(d) /\ id \in Nat /\ d \in Channels
        BY <1>4 DEF Visible, In, Ids
    <3>2. ~(id <= after'[l][d])
        BY <1>2, <2>8, <3>1 DEF ConsumedInOrder
    <3>3. after'[l][d] \in Nat
        BY <2>1, <2>5, <2>7, <3>1, PageFacts DEF Ids, page, last
    <3>4. after'[l][d] < id
        BY <3>1, <3>2, <3>3
    <3> QED  BY <1>1, <1>2, <2>4, <3>4 DEF Unread, Backlog
  <2>10. WatchInv(l)'
    BY <1>1, <1>2, <2>8, <2>9, BacklogKeeps
  <2> QED  BY <1>1, <1>2, <1>3, <2>10, OneListenerKeeps
<1> QED  BY <1>5, <1>6

\* A listener acknowledges: its cursor moves no further than it has consumed.
LEMMA AdvanceKeeps ==
  ASSUME ShapeInv, WakeupInv, NEW l \in Listeners, NEW c \in Channels, Advance(l, c)
  PROVE  WakeupInv'
<1>1. PICK id \in handled[l] \cap In(c) : id <= after[l][c] /\ AdvanceCursor(SeatOf[l], c, id)
  BY DEF Advance
<1>2. messages' = messages /\ UNCHANGED <<filter, out, closed, listening, restarts>>
  BY DEF Advance, posts
<1>3. SeenGrows /\ \A k \in Listeners : Visible(k)' = Visible(k) /\ \A d : In(d)' = In(d)
  BY <1>2, SeenStays DEF listening, Visible, In, Ids
<1>4. \A k \in Listeners : WatchInv(k)'
  BY <1>2, <1>3, BystanderKeeps DEF WakeupInv, listening
<1>5. cursors \in [Seats -> [Channels -> Ids \cup {0}]] /\ SeatOf[l] \in Seats
      /\ after[l][c] \in Nat /\ id \in Nat
  BY BoardAssumption DEF ShapeInv, ListenerShape, Ids, In
<1>6. \A s \in Seats : \A d \in Channels :
          \/ cursors'[s][d] = cursors[s][d]
          \/ s = SeatOf[l] /\ d = c /\ cursors'[s][d] = id
  BY <1>1, <1>5 DEF AdvanceCursor
<1>7. CursorsAreBehind'
  <2> SUFFICES ASSUME NEW s \in Seats, NEW d \in Channels, NEW k \in In(d),
                      k <= cursors'[s][d]
               PROVE  k \in HandledBySeat(s)'
      BY <1>2 DEF CursorsAreBehind, In, Ids
  <2>1. CASE cursors'[s][d] = cursors[s][d]
    BY <1>3, <2>1 DEF WakeupInv, CursorsAreBehind, SeenGrows
  <2>2. CASE s = SeatOf[l] /\ d = c /\ cursors'[s][d] = id
    <3>1. k \in Nat
      BY DEF In, Ids
    <3>2. k <= after[l][c]
      BY <1>1, <1>5, <2>2, <3>1
    <3>3. k \in HandledBySeat(SeatOf[l])
      BY <2>2, <3>2 DEF WakeupInv, WatchInv, ConsumedInOrder
    <3> QED  BY <1>3, <1>5, <2>2, <3>3 DEF SeenGrows
  <2> QED  BY <1>6, <2>1, <2>2
<1> QED  BY <1>4, <1>7 DEF WakeupInv

\* The relay starts again: its watches are gone, and their listeners read what
\* had left it and then find the connection closed.
LEMMA RestartKeeps ==
  ASSUME ShapeInv, WakeupInv, RestartRelay
  PROVE  WakeupInv'
<1>1. /\ messages' = messages /\ cursors' = cursors
      /\ UNCHANGED <<stage, mark, after, handled>>
  BY DEF RestartRelay, listening
<1>2. SeenGrows /\ \A l \in Listeners : Visible(l)' = Visible(l) /\ \A c : In(c)' = In(c)
  BY <1>1, SeenStays DEF Visible, In, Ids
<1>3. CursorsAreBehind'
  BY <1>1, <1>2 DEF WakeupInv, CursorsAreBehind, SeenGrows, In, Ids
<1>4. ASSUME NEW l \in Listeners
      PROVE  WatchInv(l)'
  <2>1. filter'[l] = {} /\ closed'[l] /\ out'[l] \in {out[l], <<>>} /\ WatchInv(l)
    BY DEF RestartRelay, WakeupInv
  <2>2. CASE out'[l] = <<>>
    BY <1>1, <1>2, <2>1, <2>2, EmptyQueueKeeps
  <2>3. CASE out'[l] = out[l]
    <3>1. \A id, n : Accounted(l, id, n) => Accounted(l, id, n)'
      <4>1. \A id, n : Queued(l, id, n) => Queued(l, id, n)'
        BY <2>3 DEF Queued
      <4>2. \A id : Unread(l, id) => Unread(l, id)'
        BY <1>1, <1>2 DEF Unread, Backlog
      <4> QED  BY <1>1, <1>2, <4>1, <4>2, AccountedStays
    <3>2. EventsAreNext(l)'
      BY <1>2, <2>1, <2>3, <3>1 DEF WatchInv, EventsAreNext
    <3>3. ConsumedInOrder(l)'
      BY <1>1, <1>2, <2>1, BoardAssumption DEF WatchInv, ConsumedInOrder, SeenGrows
    <3> QED  BY <2>1, <3>2, <3>3 DEF WatchInv, WatchMissesNothing, ToldOfTheEnd
  <2> QED  BY <2>1, <2>2, <2>3
<1> QED  BY <1>3, <1>4 DEF WakeupInv

\* A step that touches no listener and no row.
LEMMA NothingHeard ==
  ASSUME WakeupInv, UNCHANGED <<messages, cursors, filter, out, closed, listening>>
  PROVE  WakeupInv'
<1>1. SeenGrows /\ \A k \in Listeners : \A c : In(c)' = In(c)
  BY SeenStays DEF listening, In, Ids
<1>2. \A l \in Listeners : WatchInv(l)'
  BY <1>1, BystanderKeeps DEF WakeupInv, listening
<1>3. CursorsAreBehind'
  BY <1>1 DEF WakeupInv, CursorsAreBehind, SeenGrows, In, Ids
<1> QED  BY <1>2, <1>3 DEF WakeupInv

LEMMA PostKeeps ==
  ASSUME ShapeInv, WakeupInv, NEW r \in Requests, HandlePost(r)
  PROVE  WakeupInv'
<1>1. UNCHANGED <<cursors, listening>>
  BY DEF HandlePost
<1>2. CASE messages' = messages /\ UNCHANGED <<filter, out, closed>>
  BY <1>1, <1>2, NothingHeard
<1>3. CASE messages' = Append(messages, r) /\ Fanout(Len(messages) + 1, r.channel)
  <2>1. \A l \in Listeners : WatchInv(l)'
    BY <1>1, <1>3, RingKeeps DEF WakeupInv
  <2>2. Grows /\ Ids' = Ids \cup {Len(messages) + 1} /\ Len(messages) \in Nat
    BY <1>3, AppendGrows DEF ShapeInv, BoardInv
  <2>3. CursorsAreBehind'
    <3> SUFFICES ASSUME NEW s \in Seats, NEW c \in Channels, NEW id \in In(c)',
                        id <= cursors[s][c]
                 PROVE  id \in HandledBySeat(s)'
        BY <1>1 DEF CursorsAreBehind
    <3>1. cursors[s][c] \in Ids \cup {0}
        BY DEF ShapeInv, ListenerShape
    <3>2. id \in Ids'
        BY DEF In
    <3>3. id \in Ids
        BY <2>2, <3>1, <3>2 DEF Ids
    <3>4. id \in In(c)
        BY <2>2, <3>3 DEF In, Grows
    <3>5. id \in HandledBySeat(s)
        BY <3>4 DEF WakeupInv, CursorsAreBehind
    <3> QED  BY <1>1, <3>5 DEF HandledBySeat, listening
  <2> QED  BY <2>1, <2>3 DEF WakeupInv
<1> QED  BY <1>2, <1>3 DEF HandlePost, StoreAndRing

LEMMA WakeupStep ==
  ASSUME ShapeInv, WakeupInv, [Next]_vars
  PROVE  WakeupInv'
<1>1. CASE \E r \in Requests : SendPost(r) \/ LosePost(r)
  BY <1>1, NothingHeard DEF SendPost, LosePost
<1>2. CASE \E r \in Requests : HandlePost(r)
  BY <1>2, PostKeeps
<1>3. CASE \E l \in Listeners : HandleWatch(l) \/ OnWatchTimeout(l) \/ CrashListener(l)
  BY <1>3, WatchKeeps
<1>4. CASE \E l \in Listeners : Receive(l)
  BY <1>4, ReceiveKeeps
<1>5. CASE \E l \in Listeners : EndBacklog(l) \/ \E c \in Channels : ReadBacklog(l, c)
  BY <1>5, BacklogSteps
<1>6. CASE \E l \in Listeners : \E c \in Channels : Advance(l, c)
  BY <1>6, AdvanceKeeps
<1>7. CASE RestartRelay
  BY <1>7, RestartKeeps
<1>8. CASE UNCHANGED vars
  BY <1>8, NothingHeard DEF vars, posts
<1> QED  BY <1>1, <1>2, <1>3, <1>4, <1>5, <1>6, <1>7, <1>8 DEF Next

LEMMA WakeupInvariant == Spec => []WakeupInv
<1>1. ASSUME Init
      PROVE  WakeupInv
  <2>1. Ids = {} /\ \A c : In(c) = {}
    BY <1>1 DEF Init, Ids, In
  <2>2. ASSUME NEW l \in Listeners
        PROVE  WatchInv(l)
    BY <1>1, <2>1 DEF Init, WatchInv, EventsAreNext, WatchMissesNothing,
                      ConsumedInOrder, ToldOfTheEnd, Visible
  <2> QED  BY <2>1, <2>2 DEF WakeupInv, CursorsAreBehind
<1>2. ShapeInv /\ WakeupInv /\ [Next]_vars => WakeupInv'
  BY WakeupStep
<1> QED  BY <1>1, <1>2, ShapeInvariant, PTL DEF Spec

\* Whatever posters, relay and listeners do, and however often they crash, a
\* connected listener has a message, is led to it, or is told its watch ended.
THEOREM NoWakeupIsLost == Spec => []NoLostWakeup
<1>1. ASSUME WakeupInv
      PROVE  NoLostWakeup
  <2> SUFFICES ASSUME NEW l \in Listeners,
                      ~(stage[l] = "off" \/ closed[l] \/ Waiting(l, "timeout")),
                      NEW id \in Visible(l)
               PROVE  \/ id \in HandledBySeat(SeatOf[l])
                      \/ \E i \in DOMAIN out[l] :
                             \/ out[l][i] = MessageEvent(id)
                             \/ out[l][i].event = "subscribed" /\ id <= out[l][i].id
                      \/ stage[l] = "reading" /\ id \in Backlog(l, messages[id].channel)
      BY DEF NoLostWakeup
  <2>1. filter[l] = Watched[l] /\ Watched[l] # {}
      BY <1>1 DEF WakeupInv, WatchInv, ToldOfTheEnd, Visible
  <2>2. Accounted(l, id, Len(out[l]))
      BY <1>1, <2>1 DEF WakeupInv, WatchInv, WatchMissesNothing
  <2> QED  BY <2>2 DEF Accounted, Queued, Unread
<1> QED  BY <1>1, WakeupInvariant, PTL

\* Whatever listeners acknowledge, late and out of order, what lies below a
\* seat's cursor has been consumed by a process of that seat.
THEOREM CursorsHideNothing == Spec => []AckedWereSeen
<1>1. WakeupInv => AckedWereSeen
  BY DEF WakeupInv, CursorsAreBehind, AckedWereSeen
<1> QED  BY <1>1, WakeupInvariant, PTL
=============================================================================
