-------------------------- MODULE AdapterPostsProofs --------------------------
(***************************************************************************)
(* The theorems about AdapterPosts, for any calls, keys and requests.      *)
(***************************************************************************)
EXTENDS AdapterPosts, BoardProofs

(***************************************************************************)
(* The calls.                                                              *)
(***************************************************************************)

Call == [stage : {"ready", "waiting", "done"}, attempt : 1..MaxAttempts,
         uncertain : BOOLEAN, id : Nat,
         outcome : {"none", "confirmed", "not_stored", "unknown"}]

CallsTypeOK ==
    /\ call \in [Calls -> Call]
    /\ flying \in [Calls -> SUBSET (1..MaxAttempts)]
    /\ stored \subseteq Calls /\ broken \subseteq Calls

\* What an attempt of call c left behind that no outcome has accounted for:
\* unless the call is uncertain, nothing but the copy it waits for.
LeavesNothing(c) ==
    /\ flying[c] # {} => call[c].stage = "waiting" /\ flying[c] = {call[c].attempt}
    /\ c \in stored => AdapterOf[c] = "codex" /\ c \in broken /\ call[c].stage = "done"

CallOK(c) ==
    /\ (call[c].stage = "done") <=> (call[c].outcome # "none")
    /\ call[c].outcome = "confirmed" => call[c].id \in Ids /\ messages[call[c].id] = RequestOf[c]
    /\ call[c].outcome = "not_stored" => ~call[c].uncertain
    /\ ~call[c].uncertain /\ call[c].outcome # "confirmed" => LeavesNothing(c)

CallsInv == CallsTypeOK /\ \A c \in Calls : CallOK(c)

PostInv == BoardInv /\ CallsInv

(***************************************************************************)
(* What one step does to a call.                                           *)
(***************************************************************************)

\* A step of another call, or of a copy nobody waits for, leaves a call alone.
LEMMA OthersKeep ==
  ASSUME CallsInv, Grows, NEW c \in Calls,
         call'[c] = call[c], flying'[c] = flying[c],
         c \in stored' => c \in stored, c \in broken => c \in broken'
  PROVE  CallOK(c)'
  BY DEF CallsInv, CallOK, LeavesNothing, Grows

LEMMA FailTypes ==
  ASSUME CallsTypeOK, NEW c \in Calls, NEW failure, AttemptFails(c, failure)
  PROVE  /\ call' \in [Calls -> Call]
         /\ \A d \in Calls \ {c} : call'[d] = call[d]
         /\ call'[c].uncertain = Uncertain(c, failure)
         /\ \/ /\ failure \in Retried(c)
               /\ call'[c].stage = "ready" /\ call'[c].outcome = "none"
            \/ /\ call'[c].stage = "done"
               /\ call'[c].outcome = IF Uncertain(c, failure) THEN "unknown" ELSE "not_stored"
<1>1. call[c] \in Call
  BY DEF CallsTypeOK
<1> DEFINE again == [Fresh EXCEPT !.attempt = call[c].attempt + 1,
                                  !.uncertain = Uncertain(c, failure)]
           over == [call[c] EXCEPT !.stage = "done", !.uncertain = Uncertain(c, failure),
                                   !.outcome = IF Uncertain(c, failure) THEN "unknown"
                                               ELSE "not_stored"]
<1>2. Uncertain(c, failure) \in BOOLEAN
  BY DEF Uncertain
<1>3. CASE failure \in Retried(c) /\ call[c].attempt < MaxAttempts
  <2>1. call' = [call EXCEPT ![c] = again]
    BY <1>3 DEF AttemptFails
  <2>2. call[c].attempt + 1 \in 1..MaxAttempts
    BY <1>1, <1>3 DEF Call, MaxAttempts
  <2>3. /\ again \in Call /\ again.uncertain = Uncertain(c, failure)
        /\ again.stage = "ready" /\ again.outcome = "none"
    BY <1>2, <2>2 DEF Call, Fresh
  <2> HIDE DEF again, over
  <2>4. QED
    BY <1>3, <2>1, <2>3 DEF CallsTypeOK
<1>4. CASE ~(failure \in Retried(c) /\ call[c].attempt < MaxAttempts)
  <2>1. call' = [call EXCEPT ![c] = over]
    BY <1>4 DEF AttemptFails
  <2>2. /\ over \in Call /\ over.uncertain = Uncertain(c, failure)
        /\ over.stage = "done"
        /\ over.outcome = IF Uncertain(c, failure) THEN "unknown" ELSE "not_stored"
    BY <1>1, <1>2 DEF Call
  <2> HIDE DEF again, over
  <2>3. QED
    BY <2>1, <2>2 DEF CallsTypeOK
<1>5. QED
  BY <1>3, <1>4

\* A failure that leaves the call certain leaves nothing behind.
LEMMA FailKeeps ==
  ASSUME CallsInv, NEW c \in Calls, NEW failure, AttemptFails(c, failure),
         ~Uncertain(c, failure) =>
             /\ flying'[c] = {}
             /\ c \in stored' => /\ AdapterOf[c] = "codex" /\ c \in broken'
                                 /\ failure \notin Retried(c)
  PROVE  CallOK(c)'
  BY FailTypes DEF CallsInv, CallOK, LeavesNothing

(***************************************************************************)
(* Every step keeps the invariant.                                         *)
(***************************************************************************)

LEMMA PostInitHolds ==
  ASSUME PostInit
  PROVE  PostInv
<1>1. BoardInv
  BY DEF PostInit, Init, BoardInv, BoardTypeOK, KeysAreUnique, AnswersHold, Ids
<1>2. CallsTypeOK
  BY DEF PostInit, CallsTypeOK, Call, Fresh, MaxAttempts
<1>3. \A c \in Calls : CallOK(c)
  BY DEF PostInit, CallOK, LeavesNothing, Fresh
<1>4. QED
  BY <1>1, <1>2, <1>3 DEF PostInv, CallsInv

LEMMA FailEarlyKeeps ==
  ASSUME PostInv, NEW c \in Calls, FailEarly(c)
  PROVE  PostInv'
<1>1. PICK failure \in {"unavailable", "unauthenticated"} : AttemptFails(c, failure)
  BY DEF FailEarly
<1>2. /\ messages' = messages /\ told' = told /\ flying' = flying
      /\ stored' = stored /\ broken' = broken /\ call[c].stage = "ready"
  BY DEF FailEarly, vars, posts
<1>3. BoardInv' /\ Grows
  BY <1>2, StillBoard DEF PostInv
<1>4. CallsInv
  BY DEF PostInv
<1>5. CallsTypeOK' /\ \A d \in Calls \ {c} : call'[d] = call[d]
  BY <1>1, <1>2, <1>4, FailTypes DEF CallsInv, CallsTypeOK
<1>6. CallOK(c)'
  <2>1. call[c].outcome # "confirmed"
    BY <1>2, <1>4 DEF CallsInv, CallOK
  <2>2. ~call[c].uncertain => flying[c] = {} /\ c \notin stored
    BY <1>2, <1>4, <2>1 DEF CallsInv, CallOK, LeavesNothing
  <2>3. ~Uncertain(c, failure) => flying'[c] = {} /\ c \notin stored'
    BY <1>2, <2>2 DEF Uncertain
  <2>4. QED
    BY <1>1, <1>4, <2>3, FailKeeps
<1>7. \A d \in Calls \ {c} : CallOK(d)'
  BY <1>2, <1>3, <1>4, <1>5, OthersKeep
<1>8. QED
  BY <1>3, <1>5, <1>6, <1>7 DEF PostInv, CallsInv

LEMMA SendKeeps ==
  ASSUME PostInv, NEW c \in Calls, Send(c)
  PROVE  PostInv'
<1>1. /\ messages' = messages /\ told' = told
      /\ stored' = stored /\ broken' = broken /\ call[c].stage = "ready"
      /\ call' = [call EXCEPT ![c].stage = "waiting"]
      /\ flying' = [flying EXCEPT ![c] = @ \cup {call[c].attempt}]
  BY DEF Send, vars, posts
<1>2. BoardInv' /\ Grows
  BY <1>1, StillBoard DEF PostInv
<1>3. CallsInv
  BY DEF PostInv
<1>4. /\ call'[c] = [call[c] EXCEPT !.stage = "waiting"] /\ call[c] \in Call
      /\ flying'[c] = flying[c] \cup {call[c].attempt}
      /\ \A d \in Calls \ {c} : call'[d] = call[d] /\ flying'[d] = flying[d]
  BY <1>1, <1>3 DEF CallsInv, CallsTypeOK
<1>5. CallsTypeOK'
  <2>1. [call[c] EXCEPT !.stage = "waiting"] \in Call
    BY <1>4 DEF Call
  <2>2. flying[c] \cup {call[c].attempt} \in SUBSET (1..MaxAttempts)
    BY <1>3, <1>4 DEF CallsInv, CallsTypeOK, Call
  <2>3. QED
    BY <1>1, <1>3, <1>4, <2>1, <2>2 DEF CallsInv, CallsTypeOK
<1>6. CallOK(c)'
  <2>1. /\ call'[c].stage = "waiting" /\ call'[c].attempt = call[c].attempt
        /\ call'[c].outcome = call[c].outcome /\ call'[c].uncertain = call[c].uncertain
    BY <1>4 DEF Call
  <2>2. call[c].outcome = "none"
    BY <1>1, <1>3 DEF CallsInv, CallOK
  <2>3. ~call[c].uncertain => flying[c] = {} /\ c \notin stored
    BY <1>1, <1>3, <2>2 DEF CallsInv, CallOK, LeavesNothing
  <2>4. QED
    BY <1>1, <1>4, <2>1, <2>2, <2>3 DEF CallOK, LeavesNothing
<1>7. \A d \in Calls \ {c} : CallOK(d)'
  BY <1>1, <1>2, <1>3, <1>4, OthersKeep
<1>8. QED
  BY <1>2, <1>5, <1>6, <1>7 DEF PostInv, CallsInv

LEMMA GiveUpKeeps ==
  ASSUME PostInv, NEW c \in Calls, GiveUp(c)
  PROVE  PostInv'
<1>1. /\ messages' = messages /\ told' = told /\ flying' = flying
      /\ stored' = stored /\ broken' = broken /\ AttemptFails(c, "silent")
  BY DEF GiveUp, vars, posts
<1>2. BoardInv' /\ Grows
  BY <1>1, StillBoard DEF PostInv
<1>3. CallsInv
  BY DEF PostInv
<1>4. CallsTypeOK' /\ \A d \in Calls \ {c} : call'[d] = call[d]
  BY <1>1, <1>3, FailTypes DEF CallsInv, CallsTypeOK
<1>5. Uncertain(c, "silent")
  BY DEF Uncertain, MayHaveSent
<1>6. CallOK(c)'
  BY <1>1, <1>3, <1>5, FailKeeps
<1>7. \A d \in Calls \ {c} : CallOK(d)'
  BY <1>1, <1>2, <1>3, <1>4, OthersKeep
<1>8. QED
  BY <1>2, <1>4, <1>6, <1>7 DEF PostInv, CallsInv

LEMMA LoseCopyKeeps ==
  ASSUME PostInv, NEW c \in Calls, NEW n, LoseCopy(c, n)
  PROVE  PostInv'
<1>1. /\ messages' = messages /\ told' = told /\ call' = call
      /\ stored' = stored /\ broken' = broken
      /\ flying' = [flying EXCEPT ![c] = @ \ {n}]
  BY DEF LoseCopy, vars, posts
<1>2. BoardInv' /\ Grows
  BY <1>1, StillBoard DEF PostInv
<1>3. CallsInv
  BY DEF PostInv
<1>4. /\ flying'[c] = flying[c] \ {n}
      /\ \A d \in Calls \ {c} : flying'[d] = flying[d]
  BY <1>1, <1>3 DEF CallsInv, CallsTypeOK
<1>5. CallsTypeOK'
  BY <1>1, <1>3 DEF CallsInv, CallsTypeOK
<1>6. CallOK(c)'
  BY <1>1, <1>2, <1>3, <1>4 DEF CallsInv, CallOK, LeavesNothing, Grows
<1>7. \A d \in Calls \ {c} : CallOK(d)'
  BY <1>1, <1>2, <1>3, <1>4, OthersKeep
<1>8. QED
  BY <1>2, <1>5, <1>6, <1>7 DEF PostInv, CallsInv

\* The copy of a call that is neither uncertain nor confirmed is awaited.
LEMMA CopyIsAwaited ==
  ASSUME CallsInv, NEW c \in Calls, NEW n \in flying[c],
         ~call[c].uncertain, call[c].outcome # "confirmed"
  PROVE  Awaits(c, n) /\ flying[c] = {n} /\ c \notin stored
  BY DEF CallsInv, CallOK, LeavesNothing, Awaits

\* A call that does not wait for a copy does not care what becomes of it.
LEMMA LateCopyKeeps ==
  ASSUME CallsInv, Grows, NEW c \in Calls, NEW n \in flying[c], ~Awaits(c, n),
         call' = call
  PROVE  CallOK(c)'
<1>1. call[c].uncertain \/ call[c].outcome = "confirmed"
  BY CopyIsAwaited
<1>2. QED
  BY <1>1 DEF CallsInv, CallOK, Grows

LEMMA HandleKeeps ==
  ASSUME PostInv, NEW c \in Calls, NEW n, Handle(c, n)
  PROVE  PostInv'
<1> DEFINE r == RequestOf[c]
<1>1. r \in Requests
  BY AdapterAssumption
<1>2. /\ n \in flying[c] /\ flying' = [flying EXCEPT ![c] = @ \ {n}]
      /\ StoreAndRing(r) /\ broken' = broken
      /\ stored' = IF Stores(r) THEN stored \cup {c} ELSE stored
      /\ Hears(c, n, Answer(r)) \/ (~Awaits(c, n) /\ told' = told /\ call' = call)
  BY DEF Handle, TakesCopy, Payload
<1>3. BoardInv' /\ Grows
  <2>1. CASE Hears(c, n, Answer(r))
    <3>1. told' = [told EXCEPT ![r] = Answer(r)]
      BY <2>1 DEF Hears
    <3>2. QED
      BY <1>1, <1>2, <3>1, AnsweredKeepsBoard DEF PostInv
  <2>2. CASE told' = told
    BY <1>1, <1>2, <2>2, StoreMoves, CopyKeepsBoard DEF PostInv
  <2>3. QED
    BY <1>2, <2>1, <2>2
<1>4. CallsInv /\ BoardInv
  BY DEF PostInv
<1>5. /\ flying' \in [Calls -> SUBSET (1..MaxAttempts)]
      /\ flying'[c] = flying[c] \ {n}
      /\ \A d \in Calls \ {c} : flying'[d] = flying[d]
  BY <1>2, <1>4 DEF CallsInv, CallsTypeOK
<1>6. stored' \subseteq Calls /\ broken' \subseteq Calls
  BY <1>2, <1>4 DEF CallsInv, CallsTypeOK
<1>7. /\ Answer(r) \in Reply
      /\ Answer(r).result = "stored" => Answer(r).id \in Ids' /\ messages'[Answer(r).id] = r
      /\ Answer(r).result # "stored" => ~Stores(r)
  BY <1>1, <1>2, <1>4, AnswerHolds
<1> HIDE DEF r
<1>8. /\ call' \in [Calls -> Call]
      /\ \A d \in Calls \ {c} : call'[d] = call[d]
      /\ CallOK(c)'
  <2>1. CASE Hears(c, n, Answer(r)) /\ Answer(r).result = "stored"
    <3> DEFINE done == [call[c] EXCEPT !.stage = "done", !.outcome = "confirmed",
                                       !.id = Answer(r).id]
    <3>1. call' = [call EXCEPT ![c] = done]
      BY <1>4, <2>1 DEF Hears, AttemptSucceeds, CallsInv, CallsTypeOK, Call, r
    <3>2. call[c] \in Call /\ Answer(r).id \in Nat
      BY <1>4, <1>7 DEF CallsInv, CallsTypeOK, Reply
    <3>3. /\ done \in Call /\ done.stage = "done" /\ done.outcome = "confirmed"
          /\ done.id = Answer(r).id
      BY <3>2 DEF Call
    <3> HIDE DEF done
    <3>4. call' \in [Calls -> Call] /\ call'[c] = done
          /\ \A d \in Calls \ {c} : call'[d] = call[d]
      BY <1>4, <3>1, <3>3 DEF CallsInv, CallsTypeOK
    <3>5. CallOK(c)'
      BY <1>7, <2>1, <3>3, <3>4 DEF CallOK, r
    <3>6. QED
      BY <3>4, <3>5
  <2>2. CASE Hears(c, n, Answer(r)) /\ Answer(r).result # "stored"
    <3>1. AttemptFails(c, "refused") /\ Awaits(c, n) /\ stored' = stored
      BY <1>2, <1>7, <2>2 DEF Hears, r
    <3>2. call[c].outcome # "confirmed"
      BY <1>4, <3>1 DEF CallsInv, CallOK, Awaits
    <3>3. ~Uncertain(c, "refused") => flying'[c] = {} /\ c \notin stored'
      <4>1. CASE call[c].uncertain
        BY <4>1 DEF Uncertain
      <4>2. CASE ~call[c].uncertain
        BY <1>2, <1>4, <1>5, <3>1, <3>2, <4>2, CopyIsAwaited
      <4>3. QED
        BY <4>1, <4>2
    <3>4. CallOK(c)'
      BY <1>4, <3>1, <3>3, FailKeeps
    <3>5. QED
      BY <1>4, <3>1, <3>4, FailTypes DEF CallsInv
  <2>3. CASE ~Awaits(c, n) /\ call' = call
    <3>1. CallOK(c)'
      BY <1>2, <1>3, <1>4, <2>3, LateCopyKeeps
    <3>2. QED
      BY <1>4, <2>3, <3>1 DEF CallsInv, CallsTypeOK
  <2>4. QED
    BY <1>2, <2>1, <2>2, <2>3
<1>9. \A d \in Calls \ {c} : CallOK(d)'
  <2>1. SUFFICES ASSUME NEW d \in Calls \ {c}
                 PROVE  CallOK(d)'
    OBVIOUS
  <2>2. call'[d] = call[d] /\ flying'[d] = flying[d] /\ (d \in stored' => d \in stored)
        /\ (d \in broken => d \in broken')
    BY <1>2, <1>5, <1>8
  <2>3. QED
    BY <1>3, <1>4, <2>2, OthersKeep
<1>10. QED
  BY <1>3, <1>5, <1>6, <1>8, <1>9 DEF PostInv, CallsInv, CallsTypeOK

LEMMA HandleBreaksKeeps ==
  ASSUME PostInv, NEW c \in Calls, NEW n, HandleBreaks(c, n)
  PROVE  PostInv'
<1> DEFINE r == RequestOf[c]
<1>1. r \in Requests
  BY AdapterAssumption
<1>2. /\ n \in flying[c] /\ flying' = [flying EXCEPT ![c] = @ \ {n}] /\ told' = told
      /\ \/ messages' = messages /\ stored' = stored
         \/ Stores(r) /\ messages' = Append(messages, r) /\ stored' = stored \cup {c}
      /\ \/ Awaits(c, n) /\ AttemptFails(c, "internal") /\ broken' = broken \cup {c}
         \/ ~Awaits(c, n) /\ call' = call /\ broken' = broken
  BY DEF HandleBreaks, TakesCopy, Payload
<1>3. BoardInv' /\ Grows
  BY <1>1, <1>2, CopyKeepsBoard DEF PostInv
<1> HIDE DEF r
<1>4. CallsInv
  BY DEF PostInv
<1>5. /\ flying' \in [Calls -> SUBSET (1..MaxAttempts)]
      /\ flying'[c] = flying[c] \ {n}
      /\ \A d \in Calls \ {c} : flying'[d] = flying[d]
  BY <1>2, <1>4 DEF CallsInv, CallsTypeOK
<1>6. /\ stored' \subseteq Calls /\ broken' \subseteq Calls
      /\ stored' \subseteq stored \cup {c} /\ broken \subseteq broken'
  BY <1>2, <1>4 DEF CallsInv, CallsTypeOK
<1>7. /\ call' \in [Calls -> Call]
      /\ \A d \in Calls \ {c} : call'[d] = call[d]
      /\ CallOK(c)'
  <2>1. CASE Awaits(c, n) /\ AttemptFails(c, "internal") /\ broken' = broken \cup {c}
    <3>1. call[c].outcome # "confirmed"
      BY <1>4, <2>1 DEF CallsInv, CallOK, Awaits
    <3>2. ASSUME ~Uncertain(c, "internal")
          PROVE  /\ flying'[c] = {}
                 /\ AdapterOf[c] = "codex" /\ c \in broken' /\ "internal" \notin Retried(c)
      <4>1. ~call[c].uncertain /\ AdapterOf[c] # "claude"
        BY <3>2 DEF Uncertain, MayHaveSent
      <4>2. flying'[c] = {}
        BY <1>2, <1>4, <1>5, <3>1, <4>1, CopyIsAwaited
      <4>3. AdapterOf[c] = "codex"
        BY <4>1, AdapterAssumption
      <4>4. QED
        BY <2>1, <4>2, <4>3 DEF Retried
    <3>3. CallOK(c)'
      BY <1>4, <2>1, <3>2, FailKeeps
    <3>4. QED
      BY <1>4, <2>1, <3>3, FailTypes DEF CallsInv
  <2>2. CASE ~Awaits(c, n) /\ call' = call
    <3>1. CallOK(c)'
      BY <1>2, <1>3, <1>4, <2>2, LateCopyKeeps
    <3>2. QED
      BY <1>4, <2>2, <3>1 DEF CallsInv, CallsTypeOK
  <2>3. QED
    BY <1>2, <2>1, <2>2
<1>8. \A d \in Calls \ {c} : CallOK(d)'
  <2>1. SUFFICES ASSUME NEW d \in Calls \ {c}
                 PROVE  CallOK(d)'
    OBVIOUS
  <2>2. call'[d] = call[d] /\ flying'[d] = flying[d]
    BY <1>5, <1>7
  <2>3. (d \in stored' => d \in stored) /\ (d \in broken => d \in broken')
    BY <1>6
  <2>4. QED
    BY <1>3, <1>4, <2>2, <2>3, OthersKeep
<1>9. QED
  BY <1>3, <1>5, <1>6, <1>7, <1>8 DEF PostInv, CallsInv, CallsTypeOK

LEMMA PostNextKeeps ==
  ASSUME PostInv, [PostNext]_postVars
  PROVE  PostInv'
<1>1. ASSUME NEW c \in Calls, FailEarly(c) PROVE PostInv'
  BY <1>1, FailEarlyKeeps
<1>2. ASSUME NEW c \in Calls, Send(c) PROVE PostInv'
  BY <1>2, SendKeeps
<1>3. ASSUME NEW c \in Calls, GiveUp(c) PROVE PostInv'
  BY <1>3, GiveUpKeeps
<1>4. ASSUME NEW c \in Calls, NEW n, LoseCopy(c, n) PROVE PostInv'
  BY <1>4, LoseCopyKeeps
<1>5. ASSUME NEW c \in Calls, NEW n, Handle(c, n) PROVE PostInv'
  BY <1>5, HandleKeeps
<1>6. ASSUME NEW c \in Calls, NEW n, HandleBreaks(c, n) PROVE PostInv'
  BY <1>6, HandleBreaksKeeps
<1>7. CASE UNCHANGED postVars
  <2>1. /\ messages' = messages /\ told' = told /\ call' = call
        /\ flying' = flying /\ stored' = stored /\ broken' = broken
    BY <1>7 DEF postVars, vars, posts, adapters
  <2>2. BoardInv' /\ Grows
    BY <2>1, StillBoard DEF PostInv
  <2>3. \A c \in Calls : CallOK(c)'
    BY <2>1, <2>2, OthersKeep DEF PostInv
  <2>4. QED
    BY <2>1, <2>2, <2>3 DEF PostInv, CallsInv, CallsTypeOK
<1>8. QED
  BY <1>1, <1>2, <1>3, <1>4, <1>5, <1>6, <1>7 DEF PostNext

LEMMA PostInvAlways == PostSpec => []PostInv
<1>1. PostInit => PostInv
  BY PostInitHolds
<1>2. PostInv /\ [PostNext]_postVars => PostInv'
  BY PostNextKeeps
<1>3. QED
  BY <1>1, <1>2, PTL DEF PostSpec

(***************************************************************************)
(* What the calls report, and what the relay answered.                     *)
(***************************************************************************)

\* A confirmed post is the message of its id, and of a post reported as not
\* stored no copy was stored or still can be, save for an internal_error that
\* the Codex adapter takes for a refusal; for any calls of both adapters.
THEOREM OutcomesAreTrue == PostSpec => []OutcomeIsTrue
<1>1. PostInv => OutcomeIsTrue
  BY DEF PostInv, CallsInv, CallOK, LeavesNothing, OutcomeIsTrue
<1>2. QED
  BY <1>1, PostInvAlways, PTL

\* An answer of the relay stays true however many copies of however many
\* requests are handled later: client_ids stay bound to one row.
THEOREM RepliesAreHonest == PostSpec => []ReplyIsHonest
<1>1. PostInv => ReplyIsHonest
  BY AnswersAreHonest DEF PostInv
<1>2. QED
  BY <1>1, PostInvAlways, PTL

(***************************************************************************)
(* Posting again under the same client_id.                                 *)
(***************************************************************************)

\* Whoever calls for a post again keeps its client_id, as the adapters tell
\* the caller of an uncertain post to do.
KeysAreKept ==
    \A c, d \in Calls :
        /\ RequestOf[c].content = RequestOf[d].content
        /\ RequestOf[c].channel = RequestOf[d].channel
        /\ RequestOf[c].reply = RequestOf[d].reply
        => RequestOf[c] = RequestOf[d]

\* The board holds nothing but what the calls ask for.
RowsAreCalled == \A id \in Ids : \E c \in Calls : messages[id] = RequestOf[c]

LEMMA RowsStayCalled ==
  ASSUME PostInv, RowsAreCalled, [PostNext]_postVars
  PROVE  RowsAreCalled'
<1>1. BoardTypeOK
  BY DEF PostInv, BoardInv
<1>2. CASE messages' = messages
  BY <1>2 DEF RowsAreCalled, Ids
<1>3. ASSUME NEW c \in Calls, messages' = Append(messages, RequestOf[c])
      PROVE  RowsAreCalled'
  <2>1. Grows /\ Ids' = Ids \cup {Len(messages) + 1} /\ messages'[Len(messages) + 1] = RequestOf[c]
    BY <1>1, <1>3, AppendGrows, AdapterAssumption
  <2> QED  BY <2>1 DEF RowsAreCalled, Grows
<1>4. \/ messages' = messages
      \/ \E c \in Calls : messages' = Append(messages, RequestOf[c])
  BY DEF PostNext, FailEarly, Send, GiveUp, LoseCopy, Handle, HandleBreaks, StoreAndRing,
         Payload, postVars, vars, posts
<1> QED  BY <1>2, <1>3, <1>4

\* If a post keeps its client_id, then however often it is attempted, by
\* whichever adapters and calls, it is on the board once.
THEOREM PostsAreStoredOnce ==
  ASSUME KeysAreKept
  PROVE  PostSpec => []StoredOnce
<1>1. PostInit => RowsAreCalled
  BY DEF PostInit, Init, RowsAreCalled, Ids
<1>2. PostInv /\ RowsAreCalled /\ [PostNext]_postVars => RowsAreCalled'
  BY RowsStayCalled
<1>3. ASSUME PostInv, RowsAreCalled
      PROVE  StoredOnce
  <2> SUFFICES ASSUME NEW i \in Ids, NEW j \in Ids,
                      messages[i].content = messages[j].content,
                      messages[i].channel = messages[j].channel,
                      messages[i].reply = messages[j].reply
               PROVE  i = j
      BY DEF StoredOnce
  <2>1. PICK c \in Calls : messages[i] = RequestOf[c]
      BY <1>3 DEF RowsAreCalled
  <2>2. PICK d \in Calls : messages[j] = RequestOf[d]
      BY <1>3 DEF RowsAreCalled
  <2>3. messages[i] = messages[j] /\ messages[i].key # None
      BY <2>1, <2>2, AdapterAssumption DEF KeysAreKept
  <2> QED  BY <1>3, <2>3 DEF PostInv, BoardInv, KeysAreUnique
<1> QED  BY <1>1, <1>2, <1>3, PostInvAlways, PTL DEF PostSpec
================================================================================
