------------------------------ MODULE InboxProofs ------------------------------
(***************************************************************************)
(* Theorems about Inbox and Notices, for any agents, hooks, limits and     *)
(* lengths of the board: what the Codex adapter acknowledges was returned, *)
(* a window leaves nothing out, cursors never go back, and a hook that     *)
(* keeps quiet swallows nothing.                                           *)
(***************************************************************************)
EXTENDS Notices, BoardProofs, SequenceTheorems

(***************************************************************************)
(* The inductive invariant of Inbox.                                       *)
(***************************************************************************)
Tasks ==
    {Idle}
    \cup [op: {"read"}, step: {"cursor"}, channel: Channels, limit: Nat \ {0}]
    \cup [op: {"read"}, step: {"page"}, channel: Channels, limit: Nat \ {0},
          from: Nat, after: Nat, rows: Seq(Nat)]
    \cup [op: {"answered"}, channel: Channels, from: Nat, rows: Seq(Nat),
          more: BOOLEAN, asof: Nat]
    \cup [op: {"advance"}, step: {"cursor"}, channel: Channels, target: Nat]
    \cup [op: {"advance"}, step: {"walk", "commit"}, channel: Channels, target: Nat,
          after: Nat, walked: Nat]

Entry == [id: Nat, upto: Nat]

\* What the Codex adapter holds delivered, of what it returned.
LedgerOK(ledger, slices) ==
    /\ ledger \in Seq(Entry)
    /\ Len(ledger) <= MaxTracked
    /\ \A i, j \in DOMAIN ledger : ledger[i].id = ledger[j].id => i = j
    /\ \A i \in DOMAIN ledger : \A n \in 1..ledger[i].upto : <<ledger[i].id, n>> \in slices

\* The messages of c above low, up to high, in order.
Window(s, c, low, high) ==
    /\ s \in Seq(Nat)
    /\ \A i \in DOMAIN s : s[i] \in In(c) /\ low < s[i] /\ s[i] <= high
    /\ \A i, j \in DOMAIN s : i < j => s[i] < s[j]
    /\ \A id \in In(c) : low < id /\ id <= high => \E i \in DOMAIN s : s[i] = id

End(s, otherwise) == IF s = <<>> THEN otherwise ELSE s[Len(s)]

ReadOK(t) ==
    /\ Len(t.rows) < t.limit
    /\ t.after = End(t.rows, t.from)
    /\ Window(t.rows, t.channel, t.from, t.after)

AnswerOK(t) ==
    /\ Window(t.rows, t.channel, t.from, End(t.rows, t.from))
    /\ t.asof <= Len(messages)
    /\ t.more <=> \E id \in In(t.channel) : End(t.rows, t.from) < id /\ id <= t.asof

\* What lies between the cursor and upto was returned completely.
Returned(p, c, upto) ==
    \A id \in In(c) :
        cursors[Seat][c] < id /\ id <= upto => {id} \X (1..SizeOf(id)) \subseteq shown[p]

AdvanceOK(p, t) ==
    /\ p \in CodexAgents
    /\ t.target \in Ids
    /\ t.step = "walk" => t.after \in Ids \cup {0} /\ Returned(p, t.channel, t.after)
    /\ t.step = "commit" => t.target \in In(t.channel) /\ Returned(p, t.channel, t.target)

TaskOK(p, t) ==
    /\ t.op = "read" /\ t.step = "page" => ReadOK(t)
    /\ t.op = "answered" => AnswerOK(t)
    /\ t.op = "advance" => AdvanceOK(p, t)

InboxInv ==
    /\ TypeOK
    /\ task \in [Agents -> Tasks]
    /\ delivered \in [CodexAgents -> Seq(Entry)]
    /\ shown \in [CodexAgents -> SUBSET (Nat \X Nat)]
    /\ \A p \in CodexAgents : LedgerOK(delivered[p], shown[p])
    /\ \A p \in Agents : \A t \in Tasks : task[p] = t => TaskOK(p, t)

(***************************************************************************)
(* The inductive invariant of Notices.                                     *)
(***************************************************************************)
\* The latest messages of the channels among the first m, most recent first.
LatestAt(m) ==
    {id \in 1..m : \A k \in 1..m : k > id => messages[k].channel # messages[id].channel}

InventoryAt(m) == Reverse(Sorted(LatestAt(m)))

IsRead(id) == id <= cursors[Seat][messages[id].channel]

\* A notice that was set out to be printed covers the message.
Covered(id, announced) ==
    \E k \in announced : k \in In(messages[id].channel) /\ id <= k

\* The latest id a channel was announced with.
SeenOK(c, v) == v = 0 \/ \E k \in undertaken.claude : k \in In(c) /\ v <= k

HookStates ==
    {Off, Printing}
    \cup [stage: {"quiet"}, rows: Seq(Nat), asked: Nat]
    \cup [stage: {"asking"}, starting: BOOLEAN, rows: Seq(Nat), asked: Nat,
          unread: SUBSET Nat]
    \cup [stage: {"recalled"}, starting: BOOLEAN, rows: Seq(Nat), asked: Nat,
          unread: SUBSET Nat, fresh: SUBSET Nat, seen: [Channels -> Nat]]

\* A hook has the inventory of some moment, and asked for a part of it.
AskedOK(t) ==
    /\ \E m \in 0..Len(messages) : t.rows = InventoryAt(m)
    /\ t.asked <= Len(t.rows) /\ t.asked <= MaxInspected

FoundOK(t) ==
    /\ \A id \in t.unread : \E i \in 1..t.asked : id = t.rows[i]
    /\ \A i \in 1..t.asked : t.rows[i] \in t.unread \/ IsRead(t.rows[i])

HookOK(h, t) ==
    /\ t.stage = "asking" => AskedOK(t) /\ FoundOK(t)
    /\ t.stage = "recalled" =>
           /\ h \notin CodexHooks /\ AskedOK(t) /\ FoundOK(t) /\ t.fresh \subseteq t.unread
           /\ \A id \in t.unread : id \in t.fresh \/ Covered(id, undertaken.claude)
           /\ \A c \in Channels : SeenOK(c, t.seen[c])
    /\ t.stage = "quiet" =>
           /\ AskedOK(t)
           /\ \A i \in 1..t.asked :
                  \/ IsRead(t.rows[i])
                  \/ h \in CodexHooks /\ Covered(t.rows[i], undertaken.codex)
                  \/ h \notin CodexHooks /\ Covered(t.rows[i], undertaken.claude)

\* The fingerprint is of messages that were announced, or of an inventory of
\* which every channel that was inspected had been read.
FingerprintOK ==
    \/ \A i \in DOMAIN fingerprint : fingerprint[i] \in undertaken.codex
    \/ \E m \in 1..Len(messages) :
           /\ MaxInspected < Len(InventoryAt(m))
           /\ fingerprint = <<Len(InventoryAt(m)), m>>
           /\ \A i \in 1..MaxInspected : IsRead(InventoryAt(m)[i])

SeenIsAnnounced == \A c \in Channels : SeenOK(c, seen[c])

NoticeInv ==
    /\ hook \in [Hooks -> HookStates]
    /\ fingerprint \in Seq(Nat)
    /\ seen \in [Channels -> Nat]
    /\ undertaken \in [codex: SUBSET Nat, claude: SUBSET Nat]
    /\ \A h \in Hooks : \A t \in HookStates : hook[h] = t => HookOK(h, t)
    /\ FingerprintOK
    /\ SeenIsAnnounced

(***************************************************************************)
(* Pages.  The elements of a finite set of numbers have the ranks 0, 1,    *)
(* ..., each once.                                                         *)
(***************************************************************************)
Below(S, a) == {k \in S : k < a}

LEMMA RankIsOrdered ==
  ASSUME NEW S \in SUBSET Nat, IsFiniteSet(S)
  PROVE  /\ \A a \in S : Cardinality(Below(S, a)) \in 0..(Cardinality(S) - 1)
         /\ \A a, b \in S : a < b => Cardinality(Below(S, a)) < Cardinality(Below(S, b))
<1>1. ASSUME NEW T \in SUBSET S
      PROVE  IsFiniteSet(T) /\ Cardinality(T) \in Nat
  BY FS_Subset, FS_CardinalityType
<1>2. ASSUME NEW T \in SUBSET S, NEW a \in S, a \notin T,
             NEW U \in SUBSET S, T \cup {a} \subseteq U
      PROVE  Cardinality(T) < Cardinality(U)
  <2>1. Cardinality(T \cup {a}) = Cardinality(T) + 1
    BY <1>1, <1>2, FS_AddElement
  <2>2. Cardinality(T \cup {a}) <= Cardinality(U)
    BY <1>1, <1>2, FS_Subset
  <2>3. Cardinality(T) \in Nat /\ Cardinality(U) \in Nat
    BY <1>1
  <2> QED  BY <2>1, <2>2, <2>3
<1>3. \A a \in S : Below(S, a) \in SUBSET S /\ a \notin Below(S, a)
  BY DEF Below
<1>4. ASSUME NEW a \in S
      PROVE  Cardinality(Below(S, a)) \in 0..(Cardinality(S) - 1)
  <2>1. Cardinality(Below(S, a)) < Cardinality(S)
    BY <1>2, <1>3
  <2>2. Cardinality(Below(S, a)) \in Nat /\ Cardinality(S) \in Nat
    BY <1>1, <1>3
  <2> QED  BY <2>1, <2>2
<1>5. ASSUME NEW a \in S, NEW b \in S, a < b
      PROVE  Cardinality(Below(S, a)) < Cardinality(Below(S, b))
  <2>1. Below(S, a) \cup {a} \subseteq Below(S, b)
    <3>1. \A k \in S : k < a => k < b
      BY <1>5
    <3> QED  BY <1>5, <3>1 DEF Below
  <2> QED  BY <1>2, <1>3, <2>1
<1> QED  BY <1>4, <1>5

LEMMA EveryRankIsTaken ==
  ASSUME NEW S \in SUBSET Nat, IsFiniteSet(S), NEW r \in 0..(Cardinality(S) - 1)
  PROVE  \E a \in S : Cardinality(Below(S, a)) = r
<1> DEFINE ranks == 0..(Cardinality(S) - 1)
           rank == [a \in S |-> Cardinality(Below(S, a))]
<1>1. Cardinality(S) \in Nat
  BY FS_CardinalityType
<1>2. IsFiniteSet(ranks) /\ Cardinality(ranks) = Cardinality(S)
  <2>1. Cardinality(S) - 1 \in Int /\ 0 \in Int
    BY <1>1
  <2>2. /\ IsFiniteSet(ranks)
        /\ Cardinality(ranks) = IF 0 > Cardinality(S) - 1 THEN 0 ELSE (Cardinality(S) - 1) - 0 + 1
    BY <2>1, FS_Interval
  <2> QED  BY <1>1, <2>2
<1>3. rank \in Injection(S, ranks)
  <2>1. rank \in [S -> ranks]
    BY RankIsOrdered
  <2>2. ASSUME NEW a \in S, NEW b \in S, rank[a] = rank[b]
        PROVE  a = b
    <3>1. ~(a < b) /\ ~(b < a)
      <4>1. Cardinality(Below(S, a)) \in Nat
        BY RankIsOrdered
      <4> QED  BY <2>2, <4>1, RankIsOrdered
    <3> QED  BY <3>1
  <2> HIDE DEF rank, ranks
  <2> QED  BY <2>1, <2>2 DEF Injection, IsInjective
<1>4. rank \in Surjection(S, ranks)
  <2> HIDE DEF rank, ranks
  <2> QED  BY <1>2, <1>3, FS_Injection
<1> QED  BY <1>4 DEF Surjection
LEMMA SortedFacts ==
  ASSUME NEW S \in SUBSET Nat, IsFiniteSet(S)
  PROVE  /\ Sorted(S) \in Seq(S) /\ Len(Sorted(S)) = Cardinality(S) /\ Len(Sorted(S)) \in Nat
         /\ \A i \in DOMAIN Sorted(S) :
                Sorted(S)[i] \in S /\ Cardinality(Below(S, Sorted(S)[i])) = i - 1
         /\ \A i, j \in DOMAIN Sorted(S) : i < j => Sorted(S)[i] < Sorted(S)[j]
         /\ \A a \in S : \E i \in DOMAIN Sorted(S) : Sorted(S)[i] = a
<1> DEFINE n == Cardinality(S)
           s == Sorted(S)
<1>1. n \in Nat
  BY FS_CardinalityType
<1>2. s = [i \in 1..n |-> CHOOSE a \in S : Cardinality(Below(S, a)) = i - 1]
  BY DEF Sorted, Below
<1> HIDE DEF n, s
<1>3. ASSUME NEW i \in 1..n
      PROVE  s[i] \in S /\ Cardinality(Below(S, s[i])) = i - 1
  <2>1. \E a \in S : Cardinality(Below(S, a)) = i - 1
    BY <1>1, EveryRankIsTaken DEF n
  <2> QED  BY <1>2, <2>1
<1>4. s \in Seq(S) /\ Len(s) = n /\ DOMAIN s = 1..n
  BY <1>1, <1>2, <1>3
<1>5. ASSUME NEW a \in S, NEW b \in S, Cardinality(Below(S, a)) <= Cardinality(Below(S, b))
      PROVE  a <= b
  <2>1. Cardinality(Below(S, a)) \in Nat /\ Cardinality(Below(S, b)) \in Nat
    BY RankIsOrdered
  <2>2. ~(b < a)
    BY <1>5, <2>1, RankIsOrdered
  <2> QED  BY <2>2
<1>6. ASSUME NEW i \in 1..n, NEW j \in 1..n, i < j
      PROVE  s[i] < s[j]
  <2>1. s[i] <= s[j]
    <3>1. s[i] \in S /\ s[j] \in S
      BY <1>3
    <3>2. Cardinality(Below(S, s[i])) <= Cardinality(Below(S, s[j]))
      <4>1. i - 1 <= j - 1
        BY <1>1, <1>6
      <4> QED  BY <1>3, <4>1
    <3> QED  BY <1>5, <3>1, <3>2
  <2>2. s[i] # s[j]
    BY <1>1, <1>3, <1>6
  <2>3. s[i] \in Nat /\ s[j] \in Nat
    BY <1>3
  <2> QED  BY <2>1, <2>2, <2>3
<1>7. ASSUME NEW a \in S
      PROVE  \E i \in 1..n : s[i] = a
  <2>1. Cardinality(Below(S, a)) \in 0..(n - 1)
    BY RankIsOrdered DEF n
  <2> DEFINE i == Cardinality(Below(S, a)) + 1
  <2>2. i \in 1..n /\ i - 1 = Cardinality(Below(S, a))
    BY <1>1, <2>1
  <2> HIDE DEF i
  <2>3. s[i] \in S /\ Cardinality(Below(S, s[i])) = Cardinality(Below(S, a))
    BY <1>3, <2>2
  <2>4. Cardinality(Below(S, a)) \in Nat
    BY <2>1
  <2>5. s[i] <= a /\ a <= s[i]
    <3>1. /\ Cardinality(Below(S, s[i])) <= Cardinality(Below(S, a))
          /\ Cardinality(Below(S, a)) <= Cardinality(Below(S, s[i]))
      BY <2>3, <2>4
    <3> QED  BY <1>5, <2>3, <3>1
  <2>6. s[i] = a
    <3>1. s[i] \in Nat /\ a \in Nat
      BY <2>3
    <3> QED  BY <2>5, <3>1
  <2> QED  BY <2>2, <2>6
<1> QED  BY <1>1, <1>3, <1>4, <1>6, <1>7 DEF n, s

\* There is but one way to put a set in order.
LEMMA SortedIsUnique ==
  ASSUME NEW S \in SUBSET Nat, IsFiniteSet(S), NEW s \in Seq(S),
         \A i, j \in DOMAIN s : i < j => s[i] < s[j],
         \A a \in S : \E i \in DOMAIN s : s[i] = a
  PROVE  s = Sorted(S)
<1>1. Len(s) \in Nat /\ DOMAIN s = 1..Len(s) /\ \A i \in 1..Len(s) : s[i] \in S
  OBVIOUS
<1>2. ASSUME NEW i \in 1..Len(s)
      PROVE  Cardinality(Below(S, s[i])) = i - 1
  <2> DEFINE f == [k \in 1..(i - 1) |-> s[k]]
  <2>1. f \in Bijection(1..(i - 1), Below(S, s[i]))
    <3>1. \A k \in 1..(i - 1) : k \in 1..Len(s) /\ k < i
      BY <1>1
    <3>2. f \in [1..(i - 1) -> Below(S, s[i])]
      BY <1>1, <3>1 DEF Below
    <3>3. ASSUME NEW k \in 1..(i - 1), NEW l \in 1..(i - 1), f[k] = f[l]
          PROVE  k = l
      <4>1. s[k] = s[l] /\ s[k] \in Nat
        BY <1>1, <3>1, <3>3
      <4>2. ~(k < l) /\ ~(l < k)
        BY <1>1, <3>1, <4>1
      <4> QED  BY <4>2
    <3>4. ASSUME NEW a \in Below(S, s[i])
          PROVE  \E k \in 1..(i - 1) : f[k] = a
      <4>1. a \in S /\ a < s[i]
        BY DEF Below
      <4>2. PICK k \in 1..Len(s) : s[k] = a
        BY <1>1, <4>1
      <4>3. ~(i < k) /\ k # i
        <5>1. s[i] \in Nat /\ s[k] < s[i]
          BY <1>1, <4>1, <4>2
        <5>2. s[k] \in Nat
          BY <1>1, <4>2
        <5>3. ~(s[i] < s[k]) /\ s[k] # s[i]
          BY <5>1, <5>2
        <5> QED  BY <1>1, <5>3
      <4>4. k \in 1..(i - 1)
        BY <1>1, <4>3
      <4> QED  BY <4>2, <4>4
    <3> HIDE DEF f
    <3> QED  BY <3>2, <3>3, <3>4 DEF Bijection, Injection, Surjection, IsInjective
  <2>2. IsFiniteSet(1..(i - 1)) /\ Cardinality(1..(i - 1)) = i - 1
    <3>1. 1 \in Int /\ i - 1 \in Int /\ i - 1 >= 0
      BY <1>1
    <3> QED  BY <3>1, FS_Interval
  <2> HIDE DEF f
  <2>3. ExistsBijection(1..(i - 1), Below(S, s[i]))
    BY <2>1 DEF ExistsBijection
  <2> QED  BY <2>2, <2>3, FS_Bijection
<1>3. Len(s) = Cardinality(S)
  <2>1. s \in Bijection(1..Len(s), S)
    <3>1. ASSUME NEW k \in 1..Len(s), NEW l \in 1..Len(s), s[k] = s[l]
          PROVE  k = l
      <4>1. s[k] \in Nat
        BY <1>1
      <4>2. ~(k < l) /\ ~(l < k)
        BY <1>1, <3>1, <4>1
      <4> QED  BY <4>2
    <3>2. s \in [1..Len(s) -> S]
      OBVIOUS
    <3> QED  BY <1>1, <3>1, <3>2 DEF Bijection, Injection, Surjection, IsInjective
  <2>2. IsFiniteSet(1..Len(s)) /\ Cardinality(1..Len(s)) = Len(s)
    <3>1. 1 \in Int /\ Len(s) \in Int
      BY <1>1
    <3>2. /\ IsFiniteSet(1..Len(s))
          /\ Cardinality(1..Len(s)) = IF 1 > Len(s) THEN 0 ELSE Len(s) - 1 + 1
      BY <3>1, FS_Interval
    <3> QED  BY <1>1, <3>2
  <2>3. ExistsBijection(1..Len(s), S)
    BY <2>1 DEF ExistsBijection
  <2> QED  BY <2>2, <2>3, FS_Bijection
<1>4. ASSUME NEW i \in 1..Len(s)
      PROVE  s[i] = Sorted(S)[i]
  <2>1. Sorted(S)[i] \in S /\ Cardinality(Below(S, Sorted(S)[i])) = i - 1
    BY <1>1, <1>3, SortedFacts
  <2> DEFINE a == s[i]
             b == Sorted(S)[i]
  <2>2. /\ a \in S /\ b \in S /\ a \in Nat /\ b \in Nat
        /\ Cardinality(Below(S, a)) = i - 1 /\ Cardinality(Below(S, b)) = i - 1
    BY <1>1, <1>2, <2>1
  <2> HIDE DEF a, b
  <2>3. ~(a < b) /\ ~(b < a)
    <3>1. ~(i - 1 < i - 1)
      BY <1>1
    <3> QED  BY <2>2, <3>1, RankIsOrdered
  <2>4. a = b
    BY <2>2, <2>3
  <2> QED  BY <2>4 DEF a, b
<1>5. Sorted(S) \in Seq(S) /\ Len(Sorted(S)) = Len(s)
  BY <1>3, SortedFacts
<1> QED  BY <1>4, <1>5, SeqEqual

(***************************************************************************)
(* Windows.                                                                *)
(***************************************************************************)
LEMMA OfTwo ==
  ASSUME NEW a \in Nat, NEW b \in Nat
  PROVE  /\ Min({a, b}) = IF a <= b THEN a ELSE b
         /\ Max({a, b}) = IF a >= b THEN a ELSE b
<1>1. CASE a <= b
  <2>1. Min({a, b}) = a
    BY <1>1 DEF Min
  <2>2. Max({a, b}) = b
    BY <1>1 DEF Max
  <2> QED  BY <1>1, <2>1, <2>2
<1>2. CASE ~(a <= b)
  <2>1. Min({a, b}) = b
    BY <1>2 DEF Min
  <2>2. Max({a, b}) = a
    BY <1>2 DEF Max
  <2> QED  BY <1>2, <2>1, <2>2
<1> QED  BY <1>1, <1>2

LEMMA IdsAreNat ==
  ASSUME messages \in Seq(Requests)
  PROVE  /\ Len(messages) \in Nat /\ Ids \subseteq Nat /\ 0 \notin Ids
         /\ \A c : In(c) \subseteq Ids /\ In(c) \subseteq Nat
         /\ \A T \in SUBSET Ids : IsFiniteSet(T)
<1>1. Len(messages) \in Nat
  OBVIOUS
<1>2. IsFiniteSet(Ids)
  BY <1>1, FS_Interval DEF Ids
<1>3. \A T \in SUBSET Ids : IsFiniteSet(T)
  BY <1>2, FS_Subset
<1> QED  BY <1>1, <1>3 DEF Ids, In

LEMMA WindowIsSorted ==
  ASSUME messages \in Seq(Requests), NEW s, NEW c, NEW low, NEW high, Window(s, c, low, high)
  PROVE  s = Sorted({id \in In(c) : low < id /\ id <= high})
<1> DEFINE S == {id \in In(c) : low < id /\ id <= high}
<1>1. S \in SUBSET Nat /\ S \in SUBSET Ids /\ IsFiniteSet(S)
  BY IdsAreNat
<1>2. s \in Seq(S)
  <2>1. s \in Seq(Nat) /\ \A i \in DOMAIN s : s[i] \in S
    BY DEF Window
  <2> HIDE DEF S
  <2> QED  BY <2>1
<1>3. /\ \A i, j \in DOMAIN s : i < j => s[i] < s[j]
      /\ \A a \in S : \E i \in DOMAIN s : s[i] = a
  BY DEF Window
<1> HIDE DEF S
<1>4. s = Sorted(S)
  BY <1>1, <1>2, <1>3, SortedIsUnique
<1> QED  BY <1>4 DEF S

LEMMA SortedIsWindow ==
  ASSUME messages \in Seq(Requests), NEW c, NEW low \in Nat
  PROVE  Window(Sorted({id \in In(c) : id > low}), c, low, Len(messages))
<1> DEFINE S == {id \in In(c) : id > low}
<1>1. S \in SUBSET Nat /\ S \in SUBSET Ids /\ IsFiniteSet(S)
  BY IdsAreNat
<1>2. \A id \in S : id \in In(c) /\ low < id /\ id <= Len(messages)
  BY <1>1, IdsAreNat DEF Ids
<1>3. \A id \in In(c) : low < id => id \in S
  BY IdsAreNat
<1> HIDE DEF S
<1>4. /\ Sorted(S) \in Seq(S) /\ Len(Sorted(S)) \in Nat
      /\ \A i, j \in DOMAIN Sorted(S) : i < j => Sorted(S)[i] < Sorted(S)[j]
      /\ \A a \in S : \E i \in DOMAIN Sorted(S) : Sorted(S)[i] = a
  BY <1>1, SortedFacts
<1>5. Sorted(S) \in Seq(Nat) /\ \A i \in DOMAIN Sorted(S) : Sorted(S)[i] \in S
  <2>1. Sorted(S) \in Seq(Nat)
    BY <1>1, <1>4, SeqMonotonic
  <2>2. \A i \in DOMAIN Sorted(S) : Sorted(S)[i] \in S
    BY <1>4
  <2> QED  BY <2>1, <2>2
<1>6. Window(Sorted(S), c, low, Len(messages))
  BY <1>2, <1>3, <1>4, <1>5 DEF Window
<1> QED  BY <1>6 DEF S

LEMMA PrefixAt ==
  ASSUME NEW s \in Seq(Nat), NEW k \in 0..Len(s)
  PROVE  /\ SubSeq(s, 1, k) \in Seq(Nat) /\ Len(SubSeq(s, 1, k)) = k
         /\ DOMAIN SubSeq(s, 1, k) = 1..k
         /\ \A i \in 1..k : i \in DOMAIN s /\ SubSeq(s, 1, k)[i] = s[i]
<1>1. Len(s) \in Nat /\ k \in Nat /\ k <= Len(s) /\ \A i \in 1..k : i \in DOMAIN s
  OBVIOUS
<1>2. \A i \in 1..k : s[i] \in Nat
  BY <1>1
<1>3. /\ SubSeq(s, 1, k) \in Seq(Nat)
      /\ Len(SubSeq(s, 1, k)) = IF 1 <= k THEN k - 1 + 1 ELSE 0
      /\ \A i \in 1..(k - 1 + 1) : SubSeq(s, 1, k)[i] = s[1 + i - 1]
  BY <1>1, <1>2, SubSeqProperties
<1>4. Len(SubSeq(s, 1, k)) = k
  BY <1>1, <1>3
<1>5. \A i \in 1..k : SubSeq(s, 1, k)[i] = s[i]
  <2>1. \A i \in 1..k : i \in 1..(k - 1 + 1) /\ 1 + i - 1 = i
    BY <1>1
  <2> QED  BY <1>3, <2>1
<1> QED  BY <1>1, <1>3, <1>4, <1>5

LEMMA EndOfPrefix ==
  ASSUME NEW s \in Seq(Nat), NEW k \in 0..Len(s), NEW low
  PROVE  /\ k = 0 => End(SubSeq(s, 1, k), low) = low
         /\ k # 0 => End(SubSeq(s, 1, k), low) = s[k]
<1> DEFINE u == SubSeq(s, 1, k)
<1>1. u \in Seq(Nat) /\ Len(u) = k /\ \A i \in 1..k : u[i] = s[i]
  BY PrefixAt
<1> HIDE DEF u
<1>2. CASE k = 0
  <2>1. u = <<>>
    BY <1>1, <1>2
  <2>2. End(u, low) = low
    BY <2>1 DEF End
  <2> QED  BY <1>2, <2>2 DEF u
<1>3. CASE k # 0
  <2>1. u # <<>> /\ k \in 1..k
    BY <1>1, <1>3
  <2>2. End(u, low) = u[k]
    BY <1>1, <2>1 DEF End
  <2>3. End(u, low) = s[k]
    BY <1>1, <2>1, <2>2
  <2> QED  BY <1>3, <2>3 DEF u
<1> QED  BY <1>2, <1>3

LEMMA PrefixIsWindow ==
  ASSUME messages \in Seq(Requests), NEW s, NEW c, NEW low \in Nat, NEW high \in Nat,
         Window(s, c, low, high), NEW k \in 0..Len(s)
  PROVE  Window(SubSeq(s, 1, k), c, low, End(SubSeq(s, 1, k), low))
<1> DEFINE u == SubSeq(s, 1, k)
           e == IF k = 0 THEN low ELSE s[k]
<1>1. /\ s \in Seq(Nat) /\ Len(s) \in Nat /\ DOMAIN s = 1..Len(s)
      /\ \A i \in DOMAIN s : s[i] \in Nat
  BY DEF Window
<1>2. /\ u \in Seq(Nat) /\ Len(u) = k /\ DOMAIN u = 1..k
      /\ \A i \in 1..k : i \in DOMAIN s /\ u[i] = s[i]
  BY <1>1, PrefixAt
<1> HIDE DEF u
<1>3. End(u, low) = e
  <2>1. CASE k = 0
    BY <1>2, <2>1 DEF End
  <2>2. CASE k # 0
    <3>1. u # <<>> /\ k \in 1..k
      BY <1>2, <2>2
    <3> QED  BY <1>2, <2>2, <3>1 DEF End
  <2> QED  BY <2>1, <2>2
<1>4. ASSUME NEW i \in 1..k
      PROVE  u[i] \in In(c) /\ low < u[i] /\ u[i] <= e
  <2>1. k # 0 /\ k \in DOMAIN s /\ i \in DOMAIN s
    BY <1>1
  <2>2. i < k => s[i] < s[k]
    BY <2>1 DEF Window
  <2>3. s[i] <= s[k]
    BY <1>1, <2>1, <2>2
  <2> QED  BY <1>2, <2>1, <2>3 DEF Window
<1>5. ASSUME NEW i \in 1..k, NEW j \in 1..k, i < j
      PROVE  u[i] < u[j]
  BY <1>2, <1>5 DEF Window
<1>6. ASSUME NEW id \in In(c), low < id, id <= e
      PROVE  \E i \in 1..k : u[i] = id
  <2>1. id \in Nat
    BY IdsAreNat
  <2>2. k # 0 /\ id <= s[k]
    BY <1>6, <2>1
  <2>3. k \in DOMAIN s
    BY <1>1, <2>2
  <2>4. s[k] <= high /\ s[k] \in Nat
    BY <1>1, <2>3 DEF Window
  <2>5. id <= high
    BY <2>1, <2>2, <2>4
  <2>6. PICK i \in DOMAIN s : s[i] = id
    BY <1>6, <2>5 DEF Window
  <2>7. ~(k < i)
    <3>1. ~(s[k] < s[i])
      BY <2>1, <2>2, <2>4, <2>6
    <3> QED  BY <2>3, <3>1 DEF Window
  <2>8. i \in 1..k
    BY <1>1, <2>7
  <2> QED  BY <1>2, <2>6, <2>8
<1>7. Window(u, c, low, e)
  BY <1>2, <1>4, <1>5, <1>6 DEF Window
<1> QED  BY <1>3, <1>7 DEF u

LEMMA EndOfWindow ==
  ASSUME NEW s, NEW c, NEW low \in Nat, Window(s, c, low, End(s, low))
  PROVE  /\ End(s, low) \in Nat /\ low <= End(s, low)
         /\ \A i \in DOMAIN s : s[i] <= End(s, low)
<1>1. s \in Seq(Nat) /\ Len(s) \in Nat /\ DOMAIN s = 1..Len(s)
  BY DEF Window
<1>2. CASE s = <<>>
  BY <1>2 DEF End
<1>3. CASE s # <<>>
  <2>1. Len(s) \in DOMAIN s /\ End(s, low) = s[Len(s)]
    BY <1>1, <1>3 DEF End
  <2>2. End(s, low) \in Nat /\ low < End(s, low)
    BY <1>1, <2>1 DEF Window
  <2> QED  BY <2>2 DEF Window
<1> QED  BY <1>2, <1>3

LEMMA JoinWindows ==
  ASSUME messages \in Seq(Requests), NEW s, NEW u, NEW c, NEW low \in Nat, NEW mid \in Nat,
         mid = End(s, low), Window(s, c, low, mid), Window(u, c, mid, End(u, mid))
  PROVE  /\ Window(s \o u, c, low, End(s \o u, low))
         /\ End(s \o u, low) = End(u, mid)
<1> DEFINE w == s \o u
           high == End(u, mid)
<1>1. /\ s \in Seq(Nat) /\ Len(s) \in Nat /\ DOMAIN s = 1..Len(s)
      /\ u \in Seq(Nat) /\ Len(u) \in Nat /\ DOMAIN u = 1..Len(u)
  BY DEF Window
<1>2. /\ w \in Seq(Nat) /\ Len(w) = Len(s) + Len(u) /\ DOMAIN w = 1..(Len(s) + Len(u))
      /\ \A i \in DOMAIN s : w[i] = s[i]
      /\ \A i \in DOMAIN u : Len(s) + i \in DOMAIN w /\ w[Len(s) + i] = u[i]
  BY <1>1, ConcatProperties
<1>3. low <= mid
  BY EndOfWindow
<1>4. high \in Nat /\ mid <= high
  BY EndOfWindow
<1>5. End(w, low) = high
  <2>1. CASE u = <<>>
    <3>1. w = s /\ high = mid
      BY <1>1, <2>1, ConcatEmptySeq DEF End
    <3> QED  BY <3>1
  <2>2. CASE u # <<>>
    <3>1. Len(u) \in DOMAIN u /\ high = u[Len(u)]
      BY <1>1, <2>2 DEF End
    <3>2. w[Len(s) + Len(u)] = high /\ Len(s) + Len(u) # 0
      BY <1>1, <1>2, <3>1
    <3>3. w # <<>>
      BY <1>1, <1>2, <3>2
    <3> QED  BY <1>2, <3>2, <3>3 DEF End
  <2> QED  BY <2>1, <2>2
<1> HIDE DEF w, high
<1>6. ASSUME NEW i \in DOMAIN w, i \notin DOMAIN s
      PROVE  \E k \in DOMAIN u : i = Len(s) + k
  <2>1. i - Len(s) \in DOMAIN u /\ i = Len(s) + (i - Len(s))
    BY <1>1, <1>2, <1>6
  <2> QED  BY <2>1
<1>7. ASSUME NEW i \in DOMAIN s
      PROVE  /\ w[i] = s[i] /\ s[i] \in Nat /\ s[i] \in In(c)
             /\ low < s[i] /\ s[i] <= mid /\ s[i] <= high
  <2>1. s[i] \in Nat /\ s[i] \in In(c) /\ low < s[i] /\ s[i] <= mid
    BY <1>1 DEF Window
  <2>2. s[i] <= high
    BY <1>4, <2>1
  <2> QED  BY <1>2, <2>1, <2>2
<1>8. ASSUME NEW i \in DOMAIN u
      PROVE  /\ w[Len(s) + i] = u[i] /\ u[i] \in Nat /\ u[i] \in In(c)
             /\ low < u[i] /\ mid < u[i] /\ u[i] <= high
  <2>1. u[i] \in Nat /\ u[i] \in In(c) /\ mid < u[i] /\ u[i] <= high
    BY <1>1 DEF Window, high
  <2>2. low < u[i]
    BY <1>3, <2>1
  <2> QED  BY <1>2, <2>1, <2>2
<1>9. \A i \in DOMAIN w : w[i] \in In(c) /\ low < w[i] /\ w[i] <= high
  BY <1>6, <1>7, <1>8
<1>10. ASSUME NEW i \in DOMAIN w, NEW j \in DOMAIN w, i < j
       PROVE  w[i] < w[j]
  <2>1. CASE i \in DOMAIN s /\ j \in DOMAIN s
    BY <1>7, <1>10, <2>1 DEF Window
  <2>2. CASE i \in DOMAIN s /\ j \notin DOMAIN s
    <3>1. PICK k \in DOMAIN u : j = Len(s) + k
      BY <1>6, <2>2
    <3>2. w[i] \in Nat /\ w[i] <= mid /\ mid < w[j] /\ w[j] \in Nat
      BY <1>7, <1>8, <2>2, <3>1
    <3> QED  BY <3>2
  <2>3. CASE i \notin DOMAIN s
    <3>1. PICK k \in DOMAIN u : i = Len(s) + k
      BY <1>6, <2>3
    <3>2. j \notin DOMAIN s
      BY <1>1, <1>10, <3>1
    <3>3. PICK l \in DOMAIN u : j = Len(s) + l
      BY <1>6, <3>2
    <3>4. k < l
      BY <1>1, <1>10, <3>1, <3>3
    <3>5. u[k] < u[l]
      BY <3>4 DEF Window
    <3> QED  BY <1>8, <3>1, <3>3, <3>5
  <2> QED  BY <2>1, <2>2, <2>3
<1>11. ASSUME NEW id \in In(c), low < id, id <= high
       PROVE  \E i \in DOMAIN w : w[i] = id
  <2>1. CASE id <= mid
    <3>1. PICK i \in DOMAIN s : s[i] = id
      BY <1>11, <2>1 DEF Window
    <3>2. i \in DOMAIN w
      BY <1>1, <1>2
    <3> QED  BY <1>7, <3>1, <3>2
  <2>2. CASE ~(id <= mid)
    <3>1. mid < id
      BY <2>2, IdsAreNat
    <3>2. PICK i \in DOMAIN u : u[i] = id
      BY <1>11, <3>1 DEF Window, high
    <3> QED  BY <1>2, <3>2
  <2> QED  BY <2>1, <2>2
<1>12. Window(w, c, low, high)
  BY <1>2, <1>9, <1>10, <1>11 DEF Window
<1> QED  BY <1>5, <1>12 DEF w, high

\* What is taken of a page continues what was read, and there is more if the
\* page says so or holds more than was wanted.
Fetched(got, more, c, low) ==
    /\ got \in Seq(Nat) /\ Window(got, c, low, End(got, low))
    /\ more <=> \E id \in In(c) : End(got, low) < id
    /\ more => got # <<>>

LEMMA FetchFacts ==
  ASSUME messages \in Seq(Requests), NEW c, NEW low \in Nat, NEW rows, NEW start \in Nat,
         start = End(rows, low), Window(rows, c, low, start),
         NEW want \in Nat \ {0}, NEW page \in Pages(c, start, want + 1),
         NEW got, got = rows \o SubSeq(page.rows, 1, Min({want, Len(page.rows)})),
         NEW more, more = (page.more \/ Len(page.rows) > want)
  PROVE  Fetched(got, more, c, low)
<1> DEFINE all == Sorted({id \in In(c) : id > start})
           n == Len(all)
<1>0. page \in IF all = <<>> THEN {[rows |-> SubSeq(all, 1, 0), more |-> 0 < n]}
              ELSE {[rows |-> SubSeq(all, 1, k), more |-> k < n] : k \in 1..Min({want + 1, n})}
  BY DEF Pages
<1>1. Window(all, c, start, Len(messages)) /\ all \in Seq(Nat) /\ n \in Nat
  <2>1. Window(all, c, start, Len(messages))
    BY SortedIsWindow
  <2> HIDE DEF all
  <2> QED  BY <2>1 DEF Window
<1> HIDE DEF all
<1>2. PICK k \in 0..n : /\ page = [rows |-> SubSeq(all, 1, k), more |-> k < n]
                        /\ n # 0 => k # 0
  <2>1. CASE all = <<>>
    <3>1. n = 0 /\ 0 \in 0..n
      BY <1>1, <2>1
    <3>2. page = [rows |-> SubSeq(all, 1, 0), more |-> 0 < n]
      BY <1>0, <2>1
    <3> QED  BY <3>1, <3>2
  <2>2. CASE all # <<>>
    <3>1. PICK k \in 1..Min({want + 1, n}) :
              page = [rows |-> SubSeq(all, 1, k), more |-> k < n]
      BY <1>0, <2>2
    <3>2. Min({want + 1, n}) = IF want + 1 <= n THEN want + 1 ELSE n
      <4>1. want + 1 \in Nat /\ n \in Nat
        BY <1>1
      <4> HIDE DEF n
      <4> QED  BY <4>1, OfTwo
    <3>3. k \in 0..n /\ k # 0
      BY <1>1, <3>2
    <3> QED  BY <3>1, <3>3
  <2> QED  BY <2>1, <2>2
<1> DEFINE j == IF want <= k THEN want ELSE k
<1>3. page.rows = SubSeq(all, 1, k) /\ page.more = (k < n)
  BY <1>2
<1>4. Len(page.rows) = k /\ Min({want, Len(page.rows)}) = j
  <2>1. Len(page.rows) = k /\ k \in Nat
    BY <1>1, <1>3, PrefixAt
  <2> QED  BY <2>1, OfTwo
<1>5. j \in 0..k /\ j \in 0..n /\ j \in Nat /\ k \in Nat
  BY <1>1
<1> DEFINE u == SubSeq(all, 1, j)
<1>6. SubSeq(page.rows, 1, j) = u
  <2>1. /\ page.rows \in Seq(Nat) /\ \A i \in 1..k : page.rows[i] = all[i]
        /\ Len(page.rows) = k
    BY <1>1, <1>3, PrefixAt
  <2>2. /\ SubSeq(page.rows, 1, j) \in Seq(Nat) /\ Len(SubSeq(page.rows, 1, j)) = j
        /\ \A i \in 1..j : SubSeq(page.rows, 1, j)[i] = page.rows[i]
    BY <1>5, <2>1, PrefixAt
  <2>3. u \in Seq(Nat) /\ Len(u) = j /\ \A i \in 1..j : u[i] = all[i]
    BY <1>1, <1>5, PrefixAt
  <2>4. \A i \in 1..j : i \in 1..k
    BY <1>5
  <2> HIDE DEF j, u
  <2>5. \A i \in 1..Len(SubSeq(page.rows, 1, j)) : SubSeq(page.rows, 1, j)[i] = u[i]
    BY <2>1, <2>2, <2>3, <2>4
  <2> QED  BY <2>2, <2>3, <2>5, SeqEqual
<1>7. got = rows \o u
  BY <1>4, <1>6
<1>8. /\ Window(u, c, start, End(u, start))
      /\ j = 0 => End(u, start) = start
      /\ j # 0 => End(u, start) = all[j]
  <2>1. Len(messages) \in Nat
    BY IdsAreNat
  <2> HIDE DEF j, n
  <2>2. j \in 0..Len(all)
    BY <1>5 DEF n
  <2>3. Window(SubSeq(all, 1, j), c, start, End(SubSeq(all, 1, j), start))
    BY <1>1, <2>1, <2>2, PrefixIsWindow
  <2>4. /\ j = 0 => End(SubSeq(all, 1, j), start) = start
        /\ j # 0 => End(SubSeq(all, 1, j), start) = all[j]
    BY <1>1, <2>2, EndOfPrefix
  <2> QED  BY <2>3, <2>4
<1> HIDE DEF u, j
<1>9. Window(got, c, low, End(got, low)) /\ End(got, low) = End(u, start)
  <2>1. /\ Window(rows \o u, c, low, End(rows \o u, low))
        /\ End(rows \o u, low) = End(u, start)
    BY <1>8, JoinWindows
  <2> QED  BY <1>7, <2>1
<1>10. got \in Seq(Nat)
  BY <1>9 DEF Window
<1>11. more <=> j < n
  <2>1. (k < n \/ k > want) <=> j < n
    BY <1>1, <1>2, <1>5 DEF j
  <2> QED  BY <1>3, <1>4, <2>1
<1>12. ASSUME j < n
       PROVE  (\E id \in In(c) : End(got, low) < id) /\ got # <<>>
  <2>1. k # 0 /\ j # 0 /\ j + 1 \in DOMAIN all /\ j \in DOMAIN all
    BY <1>1, <1>2, <1>5, <1>12 DEF j
  <2>2. all[j] < all[j + 1] /\ all[j + 1] \in In(c)
    BY <1>1, <1>5, <2>1 DEF Window
  <2>3. End(got, low) = all[j]
    BY <1>8, <1>9, <2>1
  <2>4. got # <<>>
    <3>1. Len(u) = j
      BY <1>1, <1>5, PrefixAt DEF u
    <3>2. Len(got) = Len(rows) + Len(u) /\ Len(rows) \in Nat
      <4>1. rows \in Seq(Nat) /\ u \in Seq(Nat)
        BY <1>8 DEF Window
      <4>2. Len(rows \o u) = Len(rows) + Len(u)
        BY <4>1, ConcatProperties
      <4> QED  BY ONLY <1>7, <4>1, <4>2
    <3>3. Len(got) # 0
      <4>1. j \in Nat /\ j # 0
        BY <1>5, <2>1
      <4>2. Len(got) = Len(rows) + j
        BY <3>1, <3>2
      <4> QED  BY ONLY <3>2, <4>1, <4>2
    <3> QED  BY <3>3
  <2> QED  BY <2>2, <2>3, <2>4
<1>13. ASSUME ~(j < n), NEW id \in In(c), End(got, low) < id
       PROVE  FALSE
  <2>1. j = n /\ id \in Nat /\ id <= Len(messages)
    BY <1>1, <1>5, <1>13, IdsAreNat DEF Ids
  <2>2. start < id
    <3>1. start <= End(u, start) /\ End(u, start) \in Nat
      BY <1>8, EndOfWindow
    <3> QED  BY <1>9, <1>13, <2>1, <3>1
  <2>3. PICK i \in DOMAIN all : all[i] = id
    BY <1>1, <2>1, <2>2 DEF Window
  <2>4. j \in DOMAIN all /\ j # 0
    BY <1>1, <2>1, <2>3
  <2>5. id <= all[j]
    <3>1. i < j => all[i] < all[j]
      BY <1>1, <2>4 DEF Window
    <3>2. i = j \/ i < j
      BY <1>1, <2>1
    <3>3. all[j] \in Nat
      BY <1>1, <2>4
    <3> QED  BY <2>1, <2>3, <3>1, <3>2, <3>3
  <2>6. all[j] < id /\ all[j] \in Nat
    BY <1>1, <1>8, <1>9, <1>13, <2>4
  <2> QED  BY <2>1, <2>5, <2>6
<1> QED  BY <1>9, <1>10, <1>11, <1>12, <1>13 DEF Fetched

(***************************************************************************)
(* The ledger.                                                             *)
(***************************************************************************)
LEMMA SizeIsPositive ==
  ASSUME messages \in Seq(Requests), NEW id \in Ids
  PROVE  SizeOf(id) \in Nat \ {0}
<1>1. messages[id] \in Requests
  BY DEF Ids
<1>2. messages[id].content \in Contents
  BY <1>1, BoardAssumption
<1> QED  BY <1>2, InboxAssumption DEF SizeOf

LEMMA RemoveAtFacts ==
  ASSUME NEW S, NEW s \in Seq(S), NEW i \in 1..Len(s)
  PROVE  /\ RemoveAt(s, i) \in Seq(S) /\ Len(RemoveAt(s, i)) = Len(s) - 1
         /\ \A k \in 1..(Len(s) - 1) : RemoveAt(s, i)[k] = IF k < i THEN s[k] ELSE s[k + 1]
<1> DEFINE u == SubSeq(s, 1, i - 1)
           v == SubSeq(s, i + 1, Len(s))
           n == Len(s)
<1>1. n \in Nat /\ i \in Nat /\ 1 <= i /\ i <= n /\ \A k \in 1..n : s[k] \in S
  OBVIOUS
<1> HIDE DEF n
<1>2. /\ u \in Seq(S) /\ Len(u) = i - 1
      /\ \A k \in 1..(i - 1) : u[k] = s[k]
  <2>1. \A k \in 1..(i - 1) : s[k] \in S
    BY <1>1
  <2>2. /\ u \in Seq(S) /\ Len(u) = IF 1 <= i - 1 THEN i - 1 - 1 + 1 ELSE 0
        /\ \A k \in 1..(i - 1 - 1 + 1) : u[k] = s[1 + k - 1]
    BY <1>1, <2>1, SubSeqProperties
  <2>3. \A k \in 1..(i - 1) : k \in 1..(i - 1 - 1 + 1) /\ 1 + k - 1 = k
    BY <1>1
  <2> QED  BY <1>1, <2>2, <2>3
<1>3. /\ v \in Seq(S) /\ Len(v) = n - i
      /\ \A k \in 1..(n - i) : v[k] = s[i + k]
  <2>1. \A k \in (i + 1)..n : s[k] \in S
    BY <1>1
  <2>2. /\ v \in Seq(S) /\ Len(v) = IF i + 1 <= n THEN n - (i + 1) + 1 ELSE 0
        /\ \A k \in 1..(n - (i + 1) + 1) : v[k] = s[(i + 1) + k - 1]
    BY <1>1, <2>1, SubSeqProperties DEF n
  <2>3. \A k \in 1..(n - i) : k \in 1..(n - (i + 1) + 1) /\ (i + 1) + k - 1 = i + k
    BY <1>1
  <2>4. Len(v) = n - i
    BY <1>1, <2>2
  <2> QED  BY <2>2, <2>3, <2>4
<1> HIDE DEF u, v
<1>4. RemoveAt(s, i) = u \o v
  BY DEF RemoveAt, u, v
<1>5. /\ u \o v \in Seq(S) /\ Len(u \o v) = (i - 1) + (n - i)
      /\ \A k \in 1..((i - 1) + (n - i)) :
             (u \o v)[k] = IF k <= i - 1 THEN u[k] ELSE v[k - (i - 1)]
  <2>1. /\ u \o v \in Seq(S) /\ Len(u \o v) = Len(u) + Len(v)
        /\ \A k \in 1..(Len(u) + Len(v)) :
               (u \o v)[k] = IF k <= Len(u) THEN u[k] ELSE v[k - Len(u)]
    BY <1>2, <1>3, ConcatProperties
  <2> QED  BY <1>2, <1>3, <2>1
<1>6. ASSUME NEW k \in 1..(n - 1)
      PROVE  (u \o v)[k] = IF k < i THEN s[k] ELSE s[k + 1]
  <2>1. k \in 1..((i - 1) + (n - i))
    BY <1>1
  <2>2. CASE k < i
    <3>1. k <= i - 1 /\ k \in 1..(i - 1)
      BY <1>1, <2>2
    <3> QED  BY <1>2, <1>5, <2>1, <2>2, <3>1
  <2>3. CASE ~(k < i)
    <3>1. ~(k <= i - 1) /\ k - (i - 1) \in 1..(n - i) /\ i + (k - (i - 1)) = k + 1
      BY <1>1, <2>3
    <3>2. (u \o v)[k] = v[k - (i - 1)]
      BY <1>5, <2>1, <3>1
    <3>3. v[k - (i - 1)] = s[i + (k - (i - 1))]
      BY <1>3, <3>1
    <3> QED  BY <2>3, <3>1, <3>2, <3>3
  <2> QED  BY <2>2, <2>3
<1>7. (i - 1) + (n - i) = n - 1
  BY <1>1
<1> QED  BY <1>4, <1>5, <1>6, <1>7 DEF n

\* The ledger s in which the entry of id, if it has one, has moved to the end.
Moved(s, ledger, id, upto) ==
    /\ s \in Seq(Entry) /\ Len(s) \in 1..(Len(ledger) + 1)
    /\ s[Len(s)] = [id |-> id, upto |-> upto]
    /\ \A k \in 1..(Len(s) - 1) : s[k].id # id /\ \E i \in DOMAIN ledger : s[k] = ledger[i]
    /\ \A k, l \in DOMAIN s : s[k].id = s[l].id => k = l

LEMMA NotedFacts ==
  ASSUME NEW ledger \in Seq(Entry), NEW id \in Nat, NEW upto \in Nat,
         \A i, j \in DOMAIN ledger : ledger[i].id = ledger[j].id => i = j
  PROVE  Moved(Noted(ledger, id, upto), ledger, id, upto)
<1> DEFINE at == Entries(ledger, id)
           others == IF at = {} THEN ledger ELSE RemoveAt(ledger, CHOOSE i \in at : TRUE)
           entry == [id |-> id, upto |-> upto]
           all == Append(others, entry)
<1>1. /\ Len(ledger) \in Nat /\ DOMAIN ledger = 1..Len(ledger)
      /\ \A i \in DOMAIN ledger : ledger[i] \in Entry
  OBVIOUS
<1>2. entry \in Entry
  BY DEF Entry
<1>3. /\ others \in Seq(Entry) /\ Len(others) \in Nat /\ Len(others) <= Len(ledger)
      /\ \A k \in 1..Len(others) :
             others[k].id # id /\ \E i \in DOMAIN ledger : others[k] = ledger[i]
      /\ \A k, l \in 1..Len(others) : others[k].id = others[l].id => k = l
  <2>1. CASE at = {}
    <3>1. \A i \in DOMAIN ledger : ledger[i].id # id
      BY <2>1 DEF Entries
    <3> QED  BY <1>1, <2>1, <3>1
  <2>2. CASE at # {}
    <3>1. PICK i \in 1..Len(ledger) : ledger[i].id = id /\ others = RemoveAt(ledger, i)
      BY <1>1, <2>2 DEF Entries
    <3> HIDE DEF others
    <3> DEFINE n == Len(ledger) - 1
               from == [k \in 1..n |-> IF k < i THEN k ELSE k + 1]
    <3>2. others \in Seq(Entry) /\ Len(others) = n /\ n \in Nat
      <4>1. others \in Seq(Entry) /\ Len(others) = Len(ledger) - 1
        BY <3>1, RemoveAtFacts
      <4>2. Len(ledger) - 1 \in Nat
        BY <1>1
      <4> QED  BY <4>1, <4>2
    <3>3. ASSUME NEW k \in 1..n
          PROVE  from[k] \in DOMAIN ledger /\ from[k] # i /\ others[k] = ledger[from[k]]
      <4>1. others[k] = IF k < i THEN ledger[k] ELSE ledger[k + 1]
        BY <3>1, RemoveAtFacts
      <4> QED  BY <1>1, <4>1
    <3>4. \A k, l \in 1..n : from[k] = from[l] => k = l
      BY <1>1
    <3> HIDE DEF from
    <3>5. \A k \in 1..n : others[k].id # id
      BY <1>1, <3>1, <3>3
    <3>6. \A k, l \in 1..n : others[k].id = others[l].id => k = l
      <4>1. ASSUME NEW k \in 1..n, NEW l \in 1..n, others[k].id = others[l].id
            PROVE  k = l
        <5>1. ledger[from[k]].id = ledger[from[l]].id
          BY <3>3, <4>1
        <5>2. from[k] = from[l]
          BY <3>3, <5>1
        <5> QED  BY <3>4, <5>2
      <4> QED  BY <4>1
    <3> QED  BY <1>1, <3>2, <3>3, <3>5, <3>6
  <2> QED  BY <2>1, <2>2
<1>4. Noted(ledger, id, upto) = all
  BY DEF Noted
<1> HIDE DEF others, entry
<1>5. /\ all \in Seq(Entry) /\ Len(all) = Len(others) + 1 /\ DOMAIN all = 1..(Len(others) + 1)
      /\ \A k \in 1..Len(others) : all[k] = others[k]
      /\ all[Len(others) + 1] = entry
  BY <1>2, <1>3
<1> HIDE DEF all
<1>6. entry.id = id
  BY DEF entry
<1>7. Len(all) \in 1..(Len(ledger) + 1) /\ Len(all) - 1 = Len(others)
  BY <1>1, <1>3, <1>5
<1>8. \A k \in 1..Len(others) :
          all[k].id # id /\ \E i \in DOMAIN ledger : all[k] = ledger[i]
  BY <1>3, <1>5
<1>9. ASSUME NEW k \in DOMAIN all, NEW l \in DOMAIN all, all[k].id = all[l].id
      PROVE  k = l
  <2>1. /\ k \in 1..Len(others) \/ k = Len(others) + 1
        /\ l \in 1..Len(others) \/ l = Len(others) + 1
    BY <1>3, <1>5
  <2>2. all[Len(others) + 1].id = id
    BY <1>5, <1>6
  <2> QED  BY <1>3, <1>5, <1>8, <1>9, <2>1, <2>2
<1>10. all[Len(all)] = [id |-> id, upto |-> upto]
  BY <1>5 DEF entry
<1>11. Moved(all, ledger, id, upto)
  BY <1>5, <1>7, <1>8, <1>9, <1>10 DEF Moved
<1> QED  BY <1>4, <1>11

LEMMA PriorFacts ==
  ASSUME NEW ledger, NEW slices, LedgerOK(ledger, slices), NEW id \in Nat
  PROVE  /\ Prior(ledger, id) \in Nat
         /\ \A n \in 1..Prior(ledger, id) : <<id, n>> \in slices
<1> DEFINE at == Entries(ledger, id)
<1>1. CASE at = {}
  <2>1. Prior(ledger, id) = 0
    BY <1>1 DEF Prior
  <2> QED  BY <2>1
<1>2. CASE at # {}
  <2>1. PICK i \in DOMAIN ledger : ledger[i].id = id /\ Prior(ledger, id) = ledger[i].upto
    BY <1>2 DEF Prior, Entries
  <2>2. ledger[i].upto \in Nat
    <3>1. ledger \in Seq(Entry)
      BY DEF LedgerOK
    <3>2. ledger[i] \in Entry
      BY <3>1
    <3> QED  BY <3>2 DEF Entry
  <2>3. \A n \in 1..ledger[i].upto : <<id, n>> \in slices
    BY <2>1 DEF LedgerOK
  <2> QED  BY <2>1, <2>2, <2>3
<1> QED  BY <1>1, <1>2

LEMMA ObserveKeeps ==
  ASSUME messages \in Seq(Requests), NEW ledger, NEW slices, LedgerOK(ledger, slices),
         NEW id \in Ids, NEW offset \in Nat, NEW more,
         slices \subseteq more, offset + 1 \in 1..SizeOf(id) => <<id, offset + 1>> \in more
  PROVE  LedgerOK(Observe(ledger, id, offset), more)
<1> DEFINE prior == Prior(ledger, id)
           size == SizeOf(id)
           upto == Max({prior, Min({offset + 1, size})})
           all == Noted(ledger, id, upto)
           last == Len(all)
<1>1. id \in Nat /\ size \in Nat \ {0} /\ prior \in Nat /\ MaxTracked \in Nat \ {0}
  BY IdsAreNat, SizeIsPositive, PriorFacts, InboxAssumption
<1>2. /\ ledger \in Seq(Entry) /\ Len(ledger) \in Nat /\ Len(ledger) <= MaxTracked
      /\ \A i, j \in DOMAIN ledger : ledger[i].id = ledger[j].id => i = j
  BY DEF LedgerOK
<1>3. CASE offset > prior
  <2>1. Observe(ledger, id, offset) = ledger
    BY <1>3 DEF Observe
  <2> QED  BY <2>1 DEF LedgerOK
<1>4. CASE ~(offset > prior)
  <2>1. /\ Min({offset + 1, size}) = IF offset + 1 <= size THEN offset + 1 ELSE size
        /\ Min({offset + 1, size}) \in Nat
    BY <1>1, OfTwo
  <2>2. upto = (IF prior >= Min({offset + 1, size}) THEN prior ELSE Min({offset + 1, size}))
    BY <1>1, <2>1, OfTwo
  <2>3. upto \in Nat
    BY <1>1, <2>1, <2>2
  <2>4. ASSUME NEW n \in 1..upto
        PROVE  <<id, n>> \in more
    <3>1. CASE n <= prior
      <4>1. n \in 1..prior
        BY <1>1, <2>3, <3>1
      <4> QED  BY <1>1, <4>1, PriorFacts
    <3>2. CASE ~(n <= prior)
      <4>1. n = offset + 1 /\ offset + 1 \in 1..size
        BY <1>1, <1>4, <2>1, <2>2, <2>3, <3>2
      <4> QED  BY <4>1
    <3> QED  BY <3>1, <3>2
  <2> HIDE DEF upto
  <2>5. /\ all \in Seq(Entry) /\ last \in 1..(Len(ledger) + 1)
        /\ all[last] = [id |-> id, upto |-> upto]
        /\ \A k \in 1..(last - 1) : \E i \in DOMAIN ledger : all[k] = ledger[i]
        /\ \A k, l \in DOMAIN all : all[k].id = all[l].id => k = l
    <3>1. Moved(all, ledger, id, upto)
      BY <1>1, <1>2, <2>3, NotedFacts
    <3> HIDE DEF all
    <3> QED  BY <3>1 DEF Moved
  <2> HIDE DEF all
  <2>6. last \in Nat /\ DOMAIN all = 1..last
    BY <1>2, <2>5
  <2>7. ASSUME NEW k \in DOMAIN all
        PROVE  \A n \in 1..all[k].upto : <<all[k].id, n>> \in more
    <3>1. CASE k = last
      <4>1. all[k].upto = upto /\ all[k].id = id
        BY <2>5, <3>1
      <4> QED  BY <2>4, <4>1
    <3>2. CASE k # last
      <4>1. k \in 1..(last - 1)
        BY <2>6, <3>2
      <4>2. PICK i \in DOMAIN ledger : all[k] = ledger[i]
        BY <2>5, <4>1
      <4> QED  BY <4>2 DEF LedgerOK
    <3> QED  BY <3>1, <3>2
  <2>8. CASE last > MaxTracked
    <3>1. Observe(ledger, id, offset) = Tail(all)
      BY <1>4, <2>8 DEF Observe, Extended, all, upto
    <3>2. /\ Tail(all) \in Seq(Entry) /\ Len(Tail(all)) = last - 1
          /\ DOMAIN Tail(all) = 1..(last - 1)
          /\ \A k \in 1..(last - 1) : k + 1 \in DOMAIN all /\ Tail(all)[k] = all[k + 1]
      BY <1>1, <2>5, <2>6, <2>8
    <3>3. last - 1 <= MaxTracked
      BY <1>1, <1>2, <2>5, <2>6
    <3>4. \A k, l \in 1..(last - 1) : Tail(all)[k].id = Tail(all)[l].id => k = l
      <4>1. \A k, l \in 1..(last - 1) : k + 1 = l + 1 => k = l
        BY <2>6
      <4> QED  BY <2>5, <3>2, <4>1
    <3>5. \A k \in 1..(last - 1) : \A n \in 1..Tail(all)[k].upto :
              <<Tail(all)[k].id, n>> \in more
      BY <2>7, <3>2
    <3> QED  BY <3>1, <3>2, <3>3, <3>4, <3>5 DEF LedgerOK
  <2>9. CASE ~(last > MaxTracked)
    <3>1. Observe(ledger, id, offset) = all
      BY <1>4, <2>9 DEF Observe, Extended, all, upto
    <3>2. last <= MaxTracked
      BY <1>1, <2>6, <2>9
    <3> QED  BY <2>5, <2>7, <3>1, <3>2 DEF LedgerOK
  <2> QED  BY <2>8, <2>9
<1> QED  BY <1>3, <1>4

(***************************************************************************)
(* The bodies of a read are observed one after the other.  The recursive   *)
(* function exists, up to every index; it would fail at a smallest one.    *)
(***************************************************************************)
LEMMA SmallestNat ==
  ASSUME NEW S \in SUBSET Nat, S # {}
  PROVE  \E m \in S : \A k \in S : m <= k
<1> DEFINE R == {pair \in Nat \X Nat : pair[1] < pair[2]}
<1>1. IsWellFoundedOn(R, Nat)
  BY NatLessThanWellFounded DEF OpToRel
<1>2. PICK m \in S : \A k \in S : ~(<<k, m>> \in R)
  <2> HIDE DEF R
  <2> QED  BY <1>1, WFMin
<1>3. \A k \in S : ~(k < m)
  BY <1>2
<1> QED  BY <1>3

IsObserved(f, ledger, ids, n) ==
    f = [i \in 0..n |-> IF i = 0 THEN ledger ELSE Observe(f[i - 1], ids[i], 0)]

LEMMA ObservedExists ==
  ASSUME NEW ledger, NEW ids, NEW n \in Nat
  PROVE  \E f : IsObserved(f, ledger, ids, n)
<1> DEFINE Up(f, m) == IsObserved(f, ledger, ids, m)
           bad == {m \in Nat : ~ \E f : Up(f, m)}
<1> SUFFICES ASSUME bad # {}
             PROVE  FALSE
  OBVIOUS
<1>1. PICK m \in bad : \A k \in bad : m <= k
  <2>1. bad \in SUBSET Nat
    OBVIOUS
  <2> HIDE DEF bad
  <2> QED  BY <2>1, SmallestNat
<1>2. m \in Nat /\ ~ \E f : Up(f, m)
  OBVIOUS
<1>3. CASE m = 0
  <2> DEFINE f == [i \in 0..0 |-> ledger]
  <2>1. Up(f, 0)
    <3>1. \A i \in 0..0 : i = 0
      OBVIOUS
    <3> QED  BY <3>1 DEF IsObserved
  <2> QED  BY <1>2, <1>3, <2>1
<1>4. CASE m # 0
  <2>1. m - 1 \in Nat /\ m - 1 \notin bad
    <3>1. m - 1 \in Nat /\ ~(m <= m - 1)
      BY <1>2, <1>4
    <3> QED  BY <1>1, <3>1
  <2>2. PICK g : Up(g, m - 1)
    BY <2>1
  <2> DEFINE f == [i \in 0..m |-> IF i = m THEN Observe(g[m - 1], ids[m], 0) ELSE g[i]]
             value(i) == IF i = 0 THEN ledger ELSE Observe(f[i - 1], ids[i], 0)
  <2>3. \A i \in 0..(m - 1) : f[i] = g[i] /\ i \in 0..m
    BY <1>2, <1>4
  <2>4. f[m] = Observe(g[m - 1], ids[m], 0)
    BY <1>2
  <2>5. ASSUME NEW i \in 0..m
        PROVE  f[i] = value(i)
    <3>1. CASE i = m
      <4>1. m - 1 \in 0..(m - 1)
        BY <1>2, <1>4
      <4>2. f[m - 1] = g[m - 1]
        BY <2>3, <4>1
      <4> HIDE DEF f
      <4> QED  BY <1>4, <2>4, <3>1, <4>2
    <3>2. CASE i # m /\ i # 0
      <4>1. i \in 0..(m - 1) /\ i - 1 \in 0..(m - 1)
        BY <1>2, <3>2
      <4>2. g[i] = Observe(g[i - 1], ids[i], 0)
        BY <2>2, <3>2, <4>1 DEF IsObserved
      <4>3. f[i] = g[i] /\ f[i - 1] = g[i - 1]
        BY <2>3, <4>1
      <4> HIDE DEF f
      <4> QED  BY <3>2, <4>2, <4>3
    <3>3. CASE i # m /\ i = 0
      <4>1. 0 \in 0..(m - 1)
        BY <1>2, <1>4
      <4>2. g[0] = ledger
        BY <2>2, <4>1 DEF IsObserved
      <4>3. f[0] = g[0]
        BY <2>3, <4>1
      <4> HIDE DEF f
      <4> QED  BY <3>3, <4>2, <4>3
    <3> QED  BY <3>1, <3>2, <3>3
  <2>6. f = [i \in 0..m |-> f[i]]
    OBVIOUS
  <2> HIDE DEF f
  <2>7. f = [i \in 0..m |-> value(i)]
    BY <2>5, <2>6
  <2>8. Up(f, m)
    BY <2>7 DEF IsObserved
  <2> QED  BY <1>2, <2>8
<1> QED  BY <1>3, <1>4

LEMMA ObserveAllKeeps ==
  ASSUME messages \in Seq(Requests), NEW ledger, NEW slices, LedgerOK(ledger, slices),
         NEW ids \in Seq(Ids), NEW more, slices \subseteq more,
         \A i \in DOMAIN ids : <<ids[i], 1>> \in more
  PROVE  LedgerOK(ObserveAll(ledger, ids), more)
<1> DEFINE n == Len(ids)
           f == CHOOSE g : IsObserved(g, ledger, ids, n)
<1>1. n \in Nat /\ DOMAIN ids = 1..n /\ \A i \in 1..n : ids[i] \in Ids
  OBVIOUS
<1>2. IsObserved(f, ledger, ids, n)
  <2>1. \E g : IsObserved(g, ledger, ids, n)
    BY <1>1, ObservedExists
  <2> QED  BY <2>1
<1>3. ObserveAll(ledger, ids) = f[n]
  BY DEF ObserveAll, IsObserved
<1> HIDE DEF f
<1> DEFINE bad == {i \in 0..n : ~LedgerOK(f[i], more)}
<1>4. bad = {}
  <2> SUFFICES ASSUME bad # {}
               PROVE  FALSE
    OBVIOUS
  <2>1. PICK m \in bad : \A k \in bad : m <= k
    <3>1. bad \in SUBSET Nat
      BY <1>1
    <3> HIDE DEF bad
    <3> QED  BY <3>1, SmallestNat
  <2>2. m \in 0..n /\ ~LedgerOK(f[m], more)
    OBVIOUS
  <2>3. CASE m = 0
    <3>1. f[0] = ledger
      BY <1>1, <1>2 DEF IsObserved
    <3>2. LedgerOK(ledger, more)
      BY DEF LedgerOK
    <3> QED  BY <2>2, <2>3, <3>1, <3>2
  <2>4. CASE m # 0
    <3>1. m \in 1..n /\ m - 1 \in 0..n /\ ~(m <= m - 1)
      BY <1>1, <2>2, <2>4
    <3>2. LedgerOK(f[m - 1], more)
      BY <2>1, <3>1
    <3>3. f[m] = Observe(f[m - 1], ids[m], 0)
      BY <1>2, <2>2, <2>4 DEF IsObserved
    <3>4. ids[m] \in Ids /\ <<ids[m], 0 + 1>> \in more
      BY <1>1, <3>1
    <3>5. LedgerOK(Observe(f[m - 1], ids[m], 0), more)
      BY <3>2, <3>4, ObserveKeeps
    <3> QED  BY <2>2, <3>3, <3>5
  <2> QED  BY <2>3, <2>4
<1>5. n \in 0..n
  BY <1>1
<1> QED  BY <1>3, <1>4, <1>5

(***************************************************************************)
(* What tasks rest on only grows.                                          *)
(***************************************************************************)
BoardGrows ==
    /\ messages \in Seq(Requests) /\ messages' \in Seq(Requests) /\ Grows
    /\ Len(messages) <= Len(messages')
    /\ cursors \in [Seats -> [Channels -> Nat]] /\ cursors' \in [Seats -> [Channels -> Nat]]
    /\ \A c \in Channels : cursors[Seat][c] <= cursors'[Seat][c]

LEMMA OldMessages ==
  ASSUME BoardGrows
  PROVE  /\ Ids \subseteq Ids'
         /\ \A c : In(c) \subseteq In(c)'
         /\ \A c : \A id \in In(c)' : id \in Nat /\ (id <= Len(messages) => id \in In(c))
         /\ \A id \in Ids : messages'[id] = messages[id] /\ SizeOf(id)' = SizeOf(id)
<1>1. /\ Len(messages) \in Nat /\ Len(messages') \in Nat
      /\ \A id \in Ids : id \in Ids' /\ messages'[id] = messages[id]
  BY DEF BoardGrows, Grows
<1>2. \A id \in Ids' : id \in Nat /\ (id <= Len(messages) => id \in Ids)
  BY <1>1 DEF Ids
<1>3. \A c : In(c) \subseteq In(c)'
  BY <1>1 DEF In
<1>4. \A c : \A id \in In(c)' : id \in Nat /\ (id <= Len(messages) => id \in In(c))
  BY <1>1, <1>2 DEF In
<1>5. \A id \in Ids : SizeOf(id)' = SizeOf(id)
  BY <1>1 DEF SizeOf
<1> QED  BY <1>1, <1>3, <1>4, <1>5

LEMMA WindowStays ==
  ASSUME BoardGrows, NEW s, NEW c, NEW low \in Nat, NEW high, high = End(s, low),
         Window(s, c, low, high)
  PROVE  Window(s, c, low, high)'
<1>1. s \in Seq(Nat) /\ Len(s) \in Nat /\ DOMAIN s = 1..Len(s) /\ \A i \in DOMAIN s : s[i] \in In(c)
  BY DEF Window
<1>2. ASSUME NEW id \in In(c)', low < id, id <= high
      PROVE  id \in In(c)
  <2>1. s # <<>>
    <3>1. CASE s = <<>>
      <4>1. high = low
        BY <3>1 DEF End
      <4>2. id \in Nat /\ ~(low < low)
        BY OldMessages
      <4> QED  BY <1>2, <4>1, <4>2
    <3> QED  BY <3>1
  <2>2. Len(s) \in DOMAIN s /\ high = s[Len(s)]
    BY <1>1, <2>1 DEF End
  <2>3. high \in Nat /\ high <= Len(messages) /\ Len(messages) \in Nat
    BY <1>1, <2>2, IdsAreNat DEF BoardGrows, In, Ids
  <2>4. id \in Nat /\ id <= Len(messages)
    BY <1>2, <2>3, OldMessages
  <2> QED  BY <2>4, OldMessages
<1>3. \A i \in DOMAIN s : s[i] \in In(c)'
  BY <1>1, OldMessages
<1> QED  BY <1>2, <1>3 DEF Window

LEMMA ReadStays ==
  ASSUME BoardGrows, NEW t, t.from \in Nat, ReadOK(t)
  PROVE  ReadOK(t)'
<1>1. Window(t.rows, t.channel, t.from, t.after)'
  BY WindowStays DEF ReadOK
<1> QED  BY <1>1 DEF ReadOK

LEMMA AnswerStays ==
  ASSUME BoardGrows, NEW t, t.from \in Nat, t.asof \in Nat, AnswerOK(t)
  PROVE  AnswerOK(t)'
<1> DEFINE high == End(t.rows, t.from)
<1>1. Window(t.rows, t.channel, t.from, high)'
  BY WindowStays DEF AnswerOK
<1>2. t.asof <= Len(messages) /\ t.asof <= Len(messages') /\ Len(messages) \in Nat
  BY DEF AnswerOK, BoardGrows
<1>3. \A id \in In(t.channel)' : id <= t.asof => id \in In(t.channel)
  BY <1>2, OldMessages
<1>4. (\E id \in In(t.channel) : high < id /\ id <= t.asof)
      <=> (\E id \in In(t.channel)' : high < id /\ id <= t.asof)
  BY <1>3, OldMessages
<1> QED  BY <1>1, <1>2, <1>4 DEF AnswerOK

LEMMA ReturnedStays ==
  ASSUME BoardGrows, NEW p, NEW c \in Channels, NEW upto \in Ids \cup {0},
         shown[p] \subseteq shown'[p], Returned(p, c, upto)
  PROVE  Returned(p, c, upto)'
<1>1. ASSUME NEW id \in In(c)', cursors'[Seat][c] < id, id <= upto
      PROVE  {id} \X (1..SizeOf(id)') \subseteq shown'[p]
  <2>1. /\ Len(messages) \in Nat /\ upto \in Nat /\ upto <= Len(messages) /\ id \in Nat
        /\ cursors[Seat][c] \in Nat /\ cursors'[Seat][c] \in Nat
        /\ cursors[Seat][c] <= cursors'[Seat][c]
    BY OldMessages, InboxAssumption DEF BoardGrows, Ids
  <2>2. id <= Len(messages) /\ cursors[Seat][c] < id
    BY <1>1, <2>1
  <2>3. id \in In(c) /\ id \in Ids
    BY <2>2, OldMessages DEF In
  <2>4. {id} \X (1..SizeOf(id)) \subseteq shown[p]
    BY <1>1, <2>2, <2>3 DEF Returned
  <2> QED  BY <2>3, <2>4, OldMessages
<1> QED  BY <1>1 DEF Returned

LEMMA AdvanceStays ==
  ASSUME BoardGrows, NEW p, NEW t, t.channel \in Channels, shown[p] \subseteq shown'[p],
         AdvanceOK(p, t)
  PROVE  AdvanceOK(p, t)'
<1>1. t.target \in Ids' /\ (t.target \in In(t.channel) => t.target \in In(t.channel)')
  BY OldMessages DEF AdvanceOK
<1>2. ASSUME t.step = "walk"
      PROVE  t.after \in Ids' \cup {0} /\ Returned(p, t.channel, t.after)'
  <2>1. t.after \in Ids \cup {0} /\ Returned(p, t.channel, t.after)
    BY <1>2 DEF AdvanceOK
  <2> QED  BY <2>1, ReturnedStays, OldMessages
<1>3. ASSUME t.step = "commit"
      PROVE  Returned(p, t.channel, t.target)'
  <2>1. t.target \in Ids /\ Returned(p, t.channel, t.target)
    BY <1>3 DEF AdvanceOK
  <2> QED  BY <2>1, ReturnedStays
<1> QED  BY <1>1, <1>2, <1>3 DEF AdvanceOK

\* What a task holds, by the kind of the task.
LEMMA TaskFields ==
  ASSUME NEW t \in Tasks
  PROVE  /\ t.op \in {"idle", "read", "answered", "advance"}
         /\ t.op = "read" => t.step \in {"cursor", "page"} /\ t.channel \in Channels
                             /\ t.limit \in Nat \ {0}
         /\ t.op = "read" /\ t.step = "page" =>
                t.from \in Nat /\ t.after \in Nat /\ t.rows \in Seq(Nat)
         /\ t.op = "answered" => /\ t.channel \in Channels /\ t.from \in Nat /\ t.asof \in Nat
                                 /\ t.rows \in Seq(Nat) /\ t.more \in BOOLEAN
         /\ t.op = "advance" => /\ t.step \in {"cursor", "walk", "commit"}
                                /\ t.channel \in Channels /\ t.target \in Nat
         /\ t.op = "advance" /\ t.step \in {"walk", "commit"} => t.after \in Nat /\ t.walked \in Nat
<1>1. CASE t = Idle
  BY <1>1 DEF Idle
<1>2. CASE t \in [op: {"read"}, step: {"cursor"}, channel: Channels, limit: Nat \ {0}]
  BY <1>2
<1>3. CASE t \in [op: {"read"}, step: {"page"}, channel: Channels, limit: Nat \ {0},
                  from: Nat, after: Nat, rows: Seq(Nat)]
  BY <1>3
<1>4. CASE t \in [op: {"answered"}, channel: Channels, from: Nat, rows: Seq(Nat),
                  more: BOOLEAN, asof: Nat]
  BY <1>4
<1>5. CASE t \in [op: {"advance"}, step: {"cursor"}, channel: Channels, target: Nat]
  BY <1>5
<1>6. CASE t \in [op: {"advance"}, step: {"walk", "commit"}, channel: Channels, target: Nat,
                  after: Nat, walked: Nat]
  BY <1>6
<1> QED  BY <1>1, <1>2, <1>3, <1>4, <1>5, <1>6 DEF Tasks

LEMMA TaskStays ==
  ASSUME BoardGrows, NEW p, NEW t \in Tasks, TaskOK(p, t),
         p \in CodexAgents => shown[p] \subseteq shown'[p]
  PROVE  TaskOK(p, t)'
<1>1. ASSUME t.op = "read", t.step = "page"
      PROVE  ReadOK(t)'
  BY <1>1, TaskFields, ReadStays DEF TaskOK
<1>2. ASSUME t.op = "answered"
      PROVE  AnswerOK(t)'
  BY <1>2, TaskFields, AnswerStays DEF TaskOK
<1>3. ASSUME t.op = "advance"
      PROVE  AdvanceOK(p, t)'
  <2>1. AdvanceOK(p, t) /\ p \in CodexAgents /\ t.channel \in Channels
    BY <1>3, TaskFields DEF TaskOK, AdvanceOK
  <2> QED  BY <2>1, AdvanceStays
<1> QED  BY <1>1, <1>2, <1>3 DEF TaskOK

(***************************************************************************)
(* The agents' steps.                                                      *)
(***************************************************************************)
LEMMA BoardFacts ==
  ASSUME TypeOK
  PROVE  /\ messages \in Seq(Requests) /\ Len(messages) \in Nat
         /\ cursors \in [Seats -> [Channels -> Ids \cup {0}]]
         /\ cursors \in [Seats -> [Channels -> Nat]]
<1>1. messages \in Seq(Requests) /\ cursors \in [Seats -> [Channels -> Ids \cup {0}]]
  BY DEF TypeOK
<1>2. Ids \cup {0} \subseteq Nat /\ Len(messages) \in Nat
  BY <1>1, IdsAreNat
<1> QED  BY <1>1, <1>2

LEMMA SameBoardGrows ==
  ASSUME TypeOK, UNCHANGED vars
  PROVE  BoardGrows /\ TypeOK'
<1>1. TypeOK'
  BY DEF TypeOK, Ids, vars, posts, listening
<1>2. messages' = messages /\ cursors' = cursors
  BY DEF vars, posts
<1>3. \A c \in Channels : cursors[Seat][c] <= cursors[Seat][c]
  BY BoardFacts, InboxAssumption
<1> QED  BY <1>1, <1>2, <1>3, BoardFacts DEF BoardGrows, Grows, Ids

\* The step of one agent: its task becomes t, and only its ledger may change.
AgentStep(p, t) ==
    /\ BoardGrows /\ TypeOK'
    /\ task' = [task EXCEPT ![p] = t]
    /\ delivered' \in [CodexAgents -> Seq(Entry)]
    /\ shown' \in [CodexAgents -> SUBSET (Nat \X Nat)]
    /\ \A q \in CodexAgents : q # p => delivered'[q] = delivered[q] /\ shown'[q] = shown[q]
    /\ p \in CodexAgents => /\ LedgerOK(delivered'[p], shown'[p])
                            /\ t = Idle \/ shown[p] \subseteq shown'[p]

LEMMA AgentKeeps ==
  ASSUME InboxInv, NEW p \in Agents, NEW t \in Tasks, TaskOK(p, t), AgentStep(p, t)
  PROVE  InboxInv'
<1>1. /\ task \in [Agents -> Tasks]
      /\ \A q \in CodexAgents : LedgerOK(delivered[q], shown[q])
      /\ \A q \in Agents : \A u \in Tasks : task[q] = u => TaskOK(q, u)
  BY DEF InboxInv
<1>2. /\ BoardGrows /\ TypeOK' /\ task' = [task EXCEPT ![p] = t]
      /\ \A q \in CodexAgents : q # p => delivered'[q] = delivered[q] /\ shown'[q] = shown[q]
      /\ p \in CodexAgents => /\ LedgerOK(delivered'[p], shown'[p])
                              /\ t = Idle \/ shown[p] \subseteq shown'[p]
      /\ delivered' \in [CodexAgents -> Seq(Entry)]
      /\ shown' \in [CodexAgents -> SUBSET (Nat \X Nat)]
  BY DEF AgentStep
<1>3. task' \in [Agents -> Tasks]
  BY <1>1, <1>2
<1>4. ASSUME NEW q \in CodexAgents
      PROVE  LedgerOK(delivered'[q], shown'[q])
  <2>1. CASE q = p
    BY <1>2, <2>1
  <2>2. CASE q # p
    <3>1. delivered'[q] = delivered[q] /\ shown'[q] = shown[q]
      BY <1>2, <2>2
    <3>2. LedgerOK(delivered[q], shown[q])
      BY <1>1
    <3> QED  BY <3>1, <3>2
  <2> QED  BY <2>1, <2>2
<1>5. ASSUME NEW q \in Agents, NEW u \in Tasks, task'[q] = u
      PROVE  TaskOK(q, u)'
  <2>1. CASE q # p
    <3>1. task[q] = u
      BY <1>1, <1>2, <1>5, <2>1
    <3>2. q \in CodexAgents => shown[q] \subseteq shown'[q]
      BY <1>2, <2>1
    <3>3. TaskOK(q, u)
      BY <1>1, <3>1
    <3> QED  BY <1>2, <3>2, <3>3, TaskStays
  <2>2. CASE q = p /\ t # Idle
    <3>1. u = t
      BY <1>1, <1>2, <1>5, <2>2
    <3>2. p \in CodexAgents => shown[p] \subseteq shown'[p]
      BY <1>2, <2>2
    <3> QED  BY <1>2, <2>2, <3>1, <3>2, TaskStays
  <2>3. CASE q = p /\ t = Idle
    <3>1. u = Idle
      BY <1>1, <1>2, <1>5, <2>3
    <3>2. u.op = "idle"
      BY <3>1 DEF Idle
    <3> QED  BY <3>2 DEF TaskOK
  <2> QED  BY <2>1, <2>2, <2>3
<1> QED  BY <1>2, <1>3, <1>4, <1>5 DEF InboxInv

LEMMA IdleIsOK ==
  ASSUME NEW p
  PROVE  Idle \in Tasks /\ TaskOK(p, Idle)
  BY DEF Tasks, TaskOK, Idle

\* The ledgers, and what was returned, stay.
LEMMA QuietStep ==
  ASSUME InboxInv, NEW p \in Agents, NEW t, BoardGrows, TypeOK',
         task' = [task EXCEPT ![p] = t], UNCHANGED <<delivered, shown>>
  PROVE  AgentStep(p, t)
<1>1. /\ delivered \in [CodexAgents -> Seq(Entry)]
      /\ shown \in [CodexAgents -> SUBSET (Nat \X Nat)]
      /\ \A q \in CodexAgents : LedgerOK(delivered[q], shown[q])
  BY DEF InboxInv
<1>2. delivered' = delivered /\ shown' = shown
  OBVIOUS
<1>3. p \in CodexAgents => LedgerOK(delivered'[p], shown'[p])
  BY <1>1, <1>2
<1> QED  BY <1>1, <1>2, <1>3 DEF AgentStep

LEMMA TaskOf ==
  ASSUME InboxInv, NEW p \in Agents
  PROVE  \E t \in Tasks : task[p] = t /\ TaskOK(p, t)
<1>1. task[p] \in Tasks /\ \A t \in Tasks : task[p] = t => TaskOK(p, t)
  BY DEF InboxInv
<1> QED  BY <1>1

LEMMA NothingReadYet ==
  ASSUME NEW c \in Channels, NEW n \in Nat \ {0}, NEW start \in Nat, NEW p,
         messages \in Seq(Requests),
         NEW t, t = Reading(c, n, start, start, <<>>)
  PROVE  t \in Tasks /\ TaskOK(p, t)
<1>1. <<>> \in Seq(Nat) /\ Len(<<>>) = 0 /\ DOMAIN <<>> = {}
  OBVIOUS
<1>2. t \in Tasks
  BY <1>1 DEF Tasks, Reading
<1>3. \A id \in In(c) : ~(start < id /\ id <= start)
  BY IdsAreNat
<1>4. Window(<<>>, c, start, start)
  BY <1>1, <1>3 DEF Window
<1>5. ReadOK(t)
  BY <1>1, <1>4 DEF ReadOK, End, Reading
<1>6. t.op = "read"
  BY DEF Reading
<1> QED  BY <1>2, <1>5, <1>6 DEF TaskOK

LEMMA StartReadKeeps ==
  ASSUME InboxInv, NEW p \in Agents, NEW c \in Channels, NEW n \in Limits[p], StartRead(p, c, n)
  PROVE  InboxInv'
<1>1. n \in Nat \ {0} /\ TypeOK /\ messages \in Seq(Requests)
  BY InboxAssumption, BoardFacts DEF InboxInv
<1>2. BoardGrows /\ TypeOK' /\ UNCHANGED <<delivered, shown>>
  BY <1>1, SameBoardGrows DEF StartRead
<1>3. \E t \in Tasks : TaskOK(p, t) /\ task' = [task EXCEPT ![p] = t]
  <2>1. CASE task' = [task EXCEPT ![p] = [op |-> "read", step |-> "cursor", channel |-> c,
                                          limit |-> n]]
    <3> DEFINE t == [op |-> "read", step |-> "cursor", channel |-> c, limit |-> n]
    <3>1. t \in Tasks
      BY <1>1 DEF Tasks
    <3>2. t.op = "read" /\ t.step = "cursor"
      OBVIOUS
    <3>3. TaskOK(p, t)
      BY <3>2 DEF TaskOK
    <3> QED  BY <2>1, <3>1, <3>3
  <2>2. CASE \E start \in Ids \cup {0} :
                 task' = [task EXCEPT ![p] = Reading(c, n, start, start, <<>>)]
    <3>1. PICK start \in Ids \cup {0} :
              task' = [task EXCEPT ![p] = Reading(c, n, start, start, <<>>)]
      BY <2>2
    <3>2. start \in Nat
      BY <1>1, IdsAreNat
    <3> QED  BY <1>1, <3>1, <3>2, NothingReadYet
  <2> QED  BY <2>1, <2>2 DEF StartRead
<1>4. PICK t \in Tasks : TaskOK(p, t) /\ task' = [task EXCEPT ![p] = t]
  BY <1>3
<1> QED  BY <1>2, <1>4, QuietStep, AgentKeeps

LEMMA ReadCursorKeeps ==
  ASSUME InboxInv, NEW p \in Agents, ReadCursor(p)
  PROVE  InboxInv'
<1>1. PICK t \in Tasks : task[p] = t /\ TaskOK(p, t)
  BY TaskOf
<1>2. t.op = "read" /\ t.step = "cursor"
  BY <1>1 DEF ReadCursor
<1>3. t.channel \in Channels /\ t.limit \in Nat \ {0}
  BY <1>2, TaskFields
<1> DEFINE start == cursors[Seat][t.channel]
           u == Reading(t.channel, t.limit, start, start, <<>>)
<1>4. TypeOK /\ messages \in Seq(Requests) /\ start \in Nat
  BY <1>3, InboxAssumption, BoardFacts DEF InboxInv
<1>5. task' = [task EXCEPT ![p] = u] /\ UNCHANGED <<delivered, shown>>
  BY <1>1 DEF ReadCursor
<1>6. BoardGrows /\ TypeOK'
  BY <1>4, SameBoardGrows DEF ReadCursor
<1>7. u \in Tasks /\ TaskOK(p, u)
  BY <1>3, <1>4, NothingReadYet
<1> HIDE DEF u
<1> QED  BY <1>5, <1>6, <1>7, QuietStep, AgentKeeps

LEMMA WalkTask ==
  ASSUME NEW t \in Tasks, t.op = "advance", t.step = "walk"
  PROVE  t = [op |-> "advance", step |-> "walk", channel |-> t.channel, target |-> t.target,
              after |-> t.after, walked |-> t.walked]
<1>1. CASE t = Idle
  BY <1>1 DEF Idle
<1>2. CASE t \in [op: {"read"}, step: {"page"}, channel: Channels, limit: Nat \ {0},
                  from: Nat, after: Nat, rows: Seq(Nat)]
  BY <1>2
<1>3. CASE t \in [op: {"read"}, step: {"cursor"}, channel: Channels, limit: Nat \ {0}]
  BY <1>3
<1>4. CASE t \in [op: {"answered"}, channel: Channels, from: Nat, rows: Seq(Nat),
                  more: BOOLEAN, asof: Nat]
  BY <1>4
<1>5. CASE t \in [op: {"advance"}, step: {"cursor"}, channel: Channels, target: Nat]
  BY <1>5
<1>6. CASE t \in [op: {"advance"}, step: {"walk", "commit"}, channel: Channels, target: Nat,
                  after: Nat, walked: Nat]
  BY <1>6
<1> QED  BY <1>1, <1>2, <1>3, <1>4, <1>5, <1>6 DEF Tasks

\* A result that was cut, and has_more for it.
LEMMA CutFacts ==
  ASSUME messages \in Seq(Requests), NEW c, NEW low \in Nat, NEW got,
         Window(got, c, low, End(got, low)),
         NEW k \in Min({1, Len(got)})..Len(got), NEW rows, rows = SubSeq(got, 1, k)
  PROVE  /\ rows \in Seq(Nat) /\ Window(rows, c, low, End(rows, low))
         /\ k < Len(got) =>
                \E id \in In(c) : End(rows, low) < id /\ id <= Len(messages)
         /\ ~(k < Len(got)) =>
                ((\E id \in In(c) : End(rows, low) < id /\ id <= Len(messages))
                     <=> (\E id \in In(c) : End(got, low) < id))
<1>1. got \in Seq(Nat) /\ Len(got) \in Nat /\ DOMAIN got = 1..Len(got)
  BY DEF Window
<1>2. k \in 0..Len(got) /\ (Len(got) # 0 => k # 0)
  <2>1. Min({1, Len(got)}) = IF 1 <= Len(got) THEN 1 ELSE Len(got)
    BY <1>1, OfTwo
  <2>2. PICK n : n = Len(got)
    OBVIOUS
  <2>3. n \in Nat /\ k \in (IF 1 <= n THEN 1 ELSE n)..n
    BY <1>1, <2>1, <2>2
  <2>4. k \in 0..n /\ (n # 0 => k # 0)
    BY ONLY <2>3
  <2> QED  BY <2>2, <2>4
<1>3. rows \in Seq(Nat) /\ Window(rows, c, low, End(rows, low))
  <2>1. End(got, low) \in Nat
    BY EndOfWindow
  <2>2. Window(SubSeq(got, 1, k), c, low, End(SubSeq(got, 1, k), low))
    BY <1>2, <2>1, PrefixIsWindow
  <2> QED  BY <1>1, <1>2, <2>2, PrefixAt
<1>4. \A id \in In(c) : id <= Len(messages)
  BY IdsAreNat DEF Ids
<1>5. ASSUME k < Len(got)
      PROVE  \E id \in In(c) : End(rows, low) < id /\ id <= Len(messages)
  <2>1. k # 0 /\ k \in DOMAIN got /\ k + 1 \in DOMAIN got /\ k < k + 1
    BY <1>1, <1>2, <1>5
  <2>2. got[k + 1] \in In(c) /\ got[k] < got[k + 1]
    BY <2>1 DEF Window
  <2>3. End(rows, low) = got[k]
    BY <1>1, <1>2, <2>1, EndOfPrefix
  <2> QED  BY <1>4, <2>2, <2>3
<1>6. ASSUME ~(k < Len(got))
      PROVE  rows = got
  <2>1. k = Len(got)
    <3>1. k \in Nat /\ Len(got) \in Nat /\ k <= Len(got)
      BY <1>1, <1>2
    <3> QED  BY ONLY <1>6, <3>1
  <2> QED  BY <1>1, <2>1, SubSeqFull
<1> QED  BY <1>3, <1>4, <1>5, <1>6

\* What the adapter takes note of when a read returns.
LEMMA ReturnStep ==
  ASSUME InboxInv, NEW p \in Agents, NEW rows \in Seq(Nat), NEW more, NEW t,
         Return(p, rows, more), \A i \in DOMAIN rows : rows[i] \in Ids, UNCHANGED vars,
         task' = [task EXCEPT ![p] = t]
  PROVE  AgentStep(p, t)
<1>1. /\ delivered \in [CodexAgents -> Seq(Entry)]
      /\ shown \in [CodexAgents -> SUBSET (Nat \X Nat)]
      /\ \A q \in CodexAgents : LedgerOK(delivered[q], shown[q])
      /\ TypeOK
  BY DEF InboxInv
<1>2. BoardGrows /\ TypeOK' /\ messages \in Seq(Requests)
  BY <1>1, SameBoardGrows, BoardFacts
<1>3. CASE p \notin CodexAgents
  <2>1. UNCHANGED <<delivered, shown>>
    BY <1>3 DEF Return
  <2> QED  BY <1>2, <2>1, QuietStep
<1>4. CASE p \in CodexAgents
  <2> DEFINE ledger == ObserveAll(delivered[p], rows)
             slices == shown[p] \cup (Range(rows) \X {1})
  <2>1. /\ delivered' = [delivered EXCEPT ![p] = ledger]
        /\ shown' = [shown EXCEPT ![p] = slices]
    BY <1>4 DEF Return
  <2>2. \A i \in DOMAIN rows : <<rows[i], 1>> \in slices
    BY DEF Range
  <2>3. rows \in Seq(Ids)
    OBVIOUS
  <2>4. shown[p] \subseteq slices /\ LedgerOK(delivered[p], shown[p])
    BY <1>1, <1>4
  <2>5. slices \in SUBSET (Nat \X Nat)
    BY <1>1, <1>4 DEF Range
  <2> HIDE DEF slices
  <2>6. LedgerOK(ledger, slices)
    BY <1>2, <2>2, <2>3, <2>4, ObserveAllKeeps
  <2> HIDE DEF ledger
  <2>7. ledger \in Seq(Entry)
    BY <2>6 DEF LedgerOK
  <2>8. delivered' \in [CodexAgents -> Seq(Entry)] /\ delivered'[p] = ledger
    BY <1>1, <1>4, <2>1, <2>7
  <2>9. shown' \in [CodexAgents -> SUBSET (Nat \X Nat)] /\ shown'[p] = slices
    BY <1>1, <1>4, <2>1, <2>5
  <2>10. \A q \in CodexAgents : q # p => delivered'[q] = delivered[q] /\ shown'[q] = shown[q]
    BY <1>1, <2>1
  <2> QED  BY <1>2, <2>4, <2>6, <2>8, <2>9, <2>10 DEF AgentStep
<1> QED  BY <1>3, <1>4

LEMMA FetchPageKeeps ==
  ASSUME InboxInv, NEW p \in Agents, FetchPage(p)
  PROVE  InboxInv'
<1>1. PICK t \in Tasks : task[p] = t /\ TaskOK(p, t)
  BY TaskOf
<1>2. t.op = "read" /\ t.step = "page"
  BY <1>1 DEF FetchPage
<1>3. /\ t.channel \in Channels /\ t.limit \in Nat \ {0}
      /\ t.from \in Nat /\ t.after \in Nat /\ t.rows \in Seq(Nat)
  BY <1>2, TaskFields
<1>4. ReadOK(t)
  BY <1>1, <1>2 DEF TaskOK
<1>5. /\ t.after = End(t.rows, t.from) /\ Window(t.rows, t.channel, t.from, t.after)
      /\ Len(t.rows) < t.limit
  BY <1>4 DEF ReadOK
<1>6. TypeOK /\ messages \in Seq(Requests) /\ Len(messages) \in Nat
  BY BoardFacts DEF InboxInv
<1> DEFINE want == t.limit - Len(t.rows)
<1>7. want \in Nat \ {0}
  BY <1>3, <1>5
<1>8. UNCHANGED vars /\ BoardGrows /\ TypeOK'
  BY <1>6, SameBoardGrows DEF FetchPage
<1> DEFINE got(page) == t.rows \o SubSeq(page.rows, 1, Min({want, Len(page.rows)}))
           more(page) == page.more \/ Len(page.rows) > want
<1>9. PICK page \in Pages(t.channel, t.after, want + 1) :
          IF more(page) /\ Len(got(page)) < t.limit
          THEN /\ task' = [task EXCEPT ![p] =
                      Reading(t.channel, t.limit, t.from, Last(got(page)), got(page))]
               /\ UNCHANGED <<delivered, shown>>
          ELSE \E k \in Min({1, Len(got(page))})..Len(got(page)) :
                   Return(p, SubSeq(got(page), 1, k), more(page) \/ k < Len(got(page)))
  BY <1>1 DEF FetchPage
<1>10. PICK g, m : g = got(page) /\ m = more(page)
  OBVIOUS
<1> HIDE DEF want
<1>11. /\ g \in Seq(Nat) /\ Window(g, t.channel, t.from, End(g, t.from))
       /\ m <=> \E id \in In(t.channel) : End(g, t.from) < id
       /\ m => g # <<>>
  <2>1. Fetched(g, m, t.channel, t.from)
    BY <1>3, <1>5, <1>6, <1>7, <1>10, FetchFacts
  <2> QED  BY <2>1 DEF Fetched
<1>12. CASE m /\ Len(g) < t.limit
  <2> DEFINE u == Reading(t.channel, t.limit, t.from, Last(g), g)
  <2>1. task' = [task EXCEPT ![p] = u] /\ UNCHANGED <<delivered, shown>>
    BY <1>9, <1>10, <1>12
  <2>4. Last(g) = End(g, t.from) /\ Last(g) \in Nat
    BY <1>11, <1>12 DEF Last, End
  <2>5. u \in Tasks
    BY <1>3, <1>11, <2>4 DEF Tasks, Reading
  <2>6. ReadOK(u)
    BY <1>11, <1>12, <2>4 DEF ReadOK, Reading
  <2>7. TaskOK(p, u)
    <3>1. u.op = "read"
      BY DEF Reading
    <3> HIDE DEF u
    <3> QED  BY <2>6, <3>1 DEF TaskOK
  <2> HIDE DEF u
  <2> QED  BY <1>8, <2>1, <2>5, <2>7, QuietStep, AgentKeeps
<1>13. CASE ~(m /\ Len(g) < t.limit)
  <2>1. PICK k \in Min({1, Len(g)})..Len(g) : Return(p, SubSeq(g, 1, k), m \/ k < Len(g))
    BY <1>9, <1>10, <1>13
  <2>2. PICK rows, left : rows = SubSeq(g, 1, k) /\ left = (m \/ k < Len(g))
    OBVIOUS
  <2>3. /\ rows \in Seq(Nat) /\ Window(rows, t.channel, t.from, End(rows, t.from))
        /\ left <=> \E id \in In(t.channel) : End(rows, t.from) < id /\ id <= Len(messages)
    BY <1>3, <1>6, <1>11, <2>2, CutFacts
  <2> DEFINE u == [op |-> "answered", channel |-> t.channel, from |-> t.from, rows |-> rows,
                   more |-> left, asof |-> Len(messages)]
  <2>4. task' = [task EXCEPT ![p] = u]
    BY <1>1, <2>1, <2>2 DEF Return
  <2>5. u \in Tasks
    <3>1. left \in BOOLEAN
      BY <2>2
    <3> QED  BY <1>3, <1>6, <2>3, <3>1 DEF Tasks
  <2>6. AnswerOK(u)
    BY <1>6, <2>3 DEF AnswerOK
  <2>7. TaskOK(p, u)
    <3>1. u.op = "answered"
      OBVIOUS
    <3> HIDE DEF u
    <3> QED  BY <2>6, <3>1 DEF TaskOK
  <2>8. \A i \in DOMAIN rows : rows[i] \in Ids
    BY <1>6, <2>3, IdsAreNat DEF Window
  <2> HIDE DEF u
  <2>9. AgentStep(p, u)
    BY <1>8, <2>1, <2>2, <2>3, <2>4, <2>8, ReturnStep
  <2> QED  BY <2>5, <2>7, <2>9, AgentKeeps
<1> QED  BY <1>12, <1>13

LEMMA GetKeeps ==
  ASSUME InboxInv, NEW p \in Agents, NEW id \in 1..MaxMessages, NEW offset \in 0..2,
         Get(p, id, offset)
  PROVE  InboxInv'
<1>1. /\ delivered \in [CodexAgents -> Seq(Entry)]
      /\ shown \in [CodexAgents -> SUBSET (Nat \X Nat)]
      /\ \A q \in CodexAgents : LedgerOK(delivered[q], shown[q])
      /\ TypeOK
  BY DEF InboxInv
<1>2. p \in CodexAgents /\ id \in Ids /\ id \in Nat /\ offset \in Nat
  BY BoardAssumption DEF Get
<1>3. BoardGrows /\ TypeOK' /\ messages \in Seq(Requests)
  BY <1>1, SameBoardGrows, BoardFacts DEF Get
<1> DEFINE ledger == Observe(delivered[p], id, offset)
           slices == shown[p] \cup ({id} \X ({offset + 1} \cap (1..SizeOf(id))))
<1>4. /\ delivered' = [delivered EXCEPT ![p] = ledger]
      /\ shown' = [shown EXCEPT ![p] = slices]
      /\ task' = [task EXCEPT ![p] = Idle]
  BY DEF Get
<1>5. shown[p] \subseteq slices /\ (offset + 1 \in 1..SizeOf(id) => <<id, offset + 1>> \in slices)
  OBVIOUS
<1>6. slices \in SUBSET (Nat \X Nat)
  BY <1>1, <1>2
<1> HIDE DEF slices
<1>7. LedgerOK(ledger, slices)
  BY <1>1, <1>2, <1>3, <1>5, ObserveKeeps
<1> HIDE DEF ledger
<1>8. ledger \in Seq(Entry)
  BY <1>7 DEF LedgerOK
<1>9. /\ delivered' \in [CodexAgents -> Seq(Entry)] /\ delivered'[p] = ledger
      /\ shown' \in [CodexAgents -> SUBSET (Nat \X Nat)] /\ shown'[p] = slices
  BY <1>1, <1>2, <1>4, <1>6, <1>8
<1>10. \A q \in CodexAgents : q # p => delivered'[q] = delivered[q] /\ shown'[q] = shown[q]
  BY <1>1, <1>4
<1>11. AgentStep(p, Idle)
  BY <1>3, <1>4, <1>7, <1>9, <1>10 DEF AgentStep
<1> QED  BY <1>11, IdleIsOK, AgentKeeps

LEMMA AgentRestartKeeps ==
  ASSUME InboxInv, NEW p \in Agents, Restart(p)
  PROVE  InboxInv'
<1>1. /\ delivered \in [CodexAgents -> Seq(Entry)]
      /\ shown \in [CodexAgents -> SUBSET (Nat \X Nat)]
      /\ TypeOK
  BY DEF InboxInv
<1>2. /\ p \in CodexAgents /\ task' = [task EXCEPT ![p] = Idle]
      /\ delivered' = [delivered EXCEPT ![p] = <<>>]
      /\ shown' = [shown EXCEPT ![p] = {}]
  BY DEF Restart
<1>3. BoardGrows /\ TypeOK'
  BY <1>1, SameBoardGrows DEF Restart
<1>4. <<>> \in Seq(Entry) /\ LedgerOK(<<>>, {})
  BY InboxAssumption DEF LedgerOK
<1>5. /\ delivered' \in [CodexAgents -> Seq(Entry)] /\ delivered'[p] = <<>>
      /\ shown' \in [CodexAgents -> SUBSET (Nat \X Nat)] /\ shown'[p] = {}
      /\ \A q \in CodexAgents : q # p => delivered'[q] = delivered[q] /\ shown'[q] = shown[q]
  BY <1>1, <1>2, <1>4
<1>6. AgentStep(p, Idle)
  BY <1>2, <1>3, <1>4, <1>5 DEF AgentStep
<1> QED  BY <1>6, IdleIsOK, AgentKeeps

LEMMA FailKeeps ==
  ASSUME InboxInv, NEW p \in Agents, Fail(p)
  PROVE  InboxInv'
<1>1. BoardGrows /\ TypeOK'
  BY SameBoardGrows DEF Fail, InboxInv
<1>2. task' = [task EXCEPT ![p] = Idle] /\ UNCHANGED <<delivered, shown>>
  BY DEF Fail
<1> QED  BY <1>1, <1>2, IdleIsOK, QuietStep, AgentKeeps

LEMMA StartAdvanceKeeps ==
  ASSUME InboxInv, NEW p \in Agents, NEW c \in Channels, NEW id \in 1..MaxMessages,
         StartAdvance(p, c, id)
  PROVE  InboxInv'
<1> DEFINE t == [op |-> "advance", step |-> "cursor", channel |-> c, target |-> id]
<1>1. BoardGrows /\ TypeOK'
  BY SameBoardGrows DEF StartAdvance, InboxInv
<1>2. /\ p \in CodexAgents /\ id \in Ids /\ id \in Nat
      /\ task' = [task EXCEPT ![p] = t] /\ UNCHANGED <<delivered, shown>>
  BY BoardAssumption DEF StartAdvance
<1>3. t \in Tasks
  BY <1>2 DEF Tasks
<1>4. t.op = "advance" /\ t.step = "cursor" /\ t.target = id
  OBVIOUS
<1> HIDE DEF t
<1>5. TaskOK(p, t)
  BY <1>2, <1>4 DEF TaskOK, AdvanceOK
<1> QED  BY <1>1, <1>2, <1>3, <1>5, QuietStep, AgentKeeps

LEMMA AdvanceFromKeeps ==
  ASSUME InboxInv, NEW p \in Agents, AdvanceFrom(p)
  PROVE  InboxInv'
<1>1. PICK t \in Tasks : task[p] = t /\ TaskOK(p, t)
  BY TaskOf
<1>2. t.op = "advance" /\ t.step = "cursor"
  BY <1>1 DEF AdvanceFrom
<1>3. t.channel \in Channels /\ t.target \in Nat /\ AdvanceOK(p, t)
  BY <1>1, <1>2, TaskFields DEF TaskOK
<1> DEFINE start == cursors[Seat][t.channel]
           u == Walking(t.channel, t.target, start, 0)
<1>4. TypeOK /\ messages \in Seq(Requests) /\ start \in Ids \cup {0} /\ start \in Nat
  BY <1>3, InboxAssumption, BoardFacts DEF InboxInv
<1>5. BoardGrows /\ TypeOK' /\ UNCHANGED <<delivered, shown>>
  BY <1>4, SameBoardGrows DEF AdvanceFrom
<1>6. task' \in {[task EXCEPT ![p] = Idle], [task EXCEPT ![p] = u]}
  BY <1>1 DEF AdvanceFrom
<1>7. u \in Tasks
  BY <1>3, <1>4 DEF Tasks, Walking
<1>8. TaskOK(p, u)
  <2>1. \A id \in In(t.channel) : ~(start < id /\ id <= start)
    BY <1>4, IdsAreNat
  <2>2. Returned(p, t.channel, start)
    BY <2>1 DEF Returned
  <2>3. /\ u.op = "advance" /\ u.step = "walk" /\ u.after = start
        /\ u.target = t.target /\ u.channel = t.channel
    BY DEF Walking
  <2> HIDE DEF u
  <2> QED  BY <1>3, <1>4, <2>2, <2>3 DEF TaskOK, AdvanceOK
<1> HIDE DEF u
<1> QED  BY <1>5, <1>6, <1>7, <1>8, IdleIsOK, QuietStep, AgentKeeps

\* What passes is the next message above the walk, and it was delivered.
LEMMA NextIsReturned ==
  ASSUME InboxInv, NEW p \in CodexAgents, NEW c \in Channels, NEW upto \in Ids \cup {0},
         Returned(p, c, upto), NEW id \in In(c), id > upto,
         \A k \in In(c) : k > upto => id <= k, Complete(p, id)
  PROVE  Returned(p, c, id)
<1>1. messages \in Seq(Requests) /\ LedgerOK(delivered[p], shown[p])
  BY BoardFacts DEF InboxInv
<1>2. id \in Ids /\ id \in Nat /\ upto \in Nat
  BY <1>1, IdsAreNat
<1>3. {id} \X (1..SizeOf(id)) \subseteq shown[p]
  <2>1. \A n \in 1..Prior(delivered[p], id) : <<id, n>> \in shown[p]
    BY <1>1, <1>2, PriorFacts
  <2>2. \A n \in 1..SizeOf(id) : <<id, n>> \in shown[p]
    BY <2>1 DEF Complete
  <2> QED  BY <2>2
<1>4. ASSUME NEW k \in In(c), cursors[Seat][c] < k, k <= id
      PROVE  {k} \X (1..SizeOf(k)) \subseteq shown[p]
  <2>1. k \in Nat
    BY <1>1, IdsAreNat
  <2>2. CASE k <= upto
    BY <1>4, <2>2 DEF Returned
  <2>3. CASE ~(k <= upto)
    <3>1. k = id
      BY <1>2, <1>4, <2>1, <2>3
    <3> QED  BY <1>3, <3>1
  <2> QED  BY <2>2, <2>3
<1> QED  BY <1>4 DEF Returned

LEMMA WalkKeeps ==
  ASSUME InboxInv, NEW p \in Agents, Walk(p)
  PROVE  InboxInv'
<1>1. PICK t \in Tasks : task[p] = t /\ TaskOK(p, t)
  BY TaskOf
<1>2. t.op = "advance" /\ t.step = "walk"
  BY <1>1 DEF Walk
<1>3. /\ t.channel \in Channels /\ t.target \in Nat /\ t.after \in Nat /\ t.walked \in Nat
      /\ AdvanceOK(p, t)
  BY <1>1, <1>2, TaskFields DEF TaskOK
<1>4. /\ p \in CodexAgents /\ t.target \in Ids
      /\ t.after \in Ids \cup {0} /\ Returned(p, t.channel, t.after)
  BY <1>2, <1>3 DEF AdvanceOK
<1>5. TypeOK /\ messages \in Seq(Requests) /\ BoardGrows /\ TypeOK'
  BY BoardFacts, SameBoardGrows DEF InboxInv, Walk
<1>6. UNCHANGED <<delivered, shown>>
  BY DEF Walk
<1> DEFINE next == {id \in In(t.channel) :
                        id > t.after /\ \A k \in In(t.channel) : k > t.after => id <= k}
           passes == \E id \in next : id <= t.target /\ Complete(p, id)
           commit == [t EXCEPT !.step = "commit"]
           walk == Walking(t.channel, t.target, CHOOSE id \in next : TRUE, t.walked + 1)
<1>7. \/ task' = [task EXCEPT ![p] = Idle]
      \/ passes /\ t.target \in next /\ task' = [task EXCEPT ![p] = commit]
      \/ passes /\ task' = [task EXCEPT ![p] = walk]
  BY <1>1 DEF Walk
<1>8. ASSUME passes, NEW id \in next
      PROVE  id \in In(t.channel) /\ id \in Ids /\ id \in Nat /\ Returned(p, t.channel, id)
  <2>1. PICK found \in next : Complete(p, found)
    BY <1>8
  <2>2. id \in Ids /\ id \in Nat /\ found \in Nat
    BY <1>5, IdsAreNat
  <2>3. id <= found /\ found <= id
    BY <1>8, <2>1
  <2>4. id = found
    BY <2>2, <2>3
  <2>5. Complete(p, id)
    BY <2>1, <2>4
  <2> QED  BY <1>3, <1>4, <2>2, <2>5, NextIsReturned
<1> HIDE DEF next, passes
<1>9. CASE task' = [task EXCEPT ![p] = Idle]
  BY <1>5, <1>6, <1>9, IdleIsOK, QuietStep, AgentKeeps
<1>10. CASE passes /\ t.target \in next /\ task' = [task EXCEPT ![p] = commit]
  <2>1. commit = [op |-> "advance", step |-> "commit", channel |-> t.channel,
                  target |-> t.target, after |-> t.after, walked |-> t.walked]
    BY <1>2, WalkTask
  <2>2. commit \in Tasks
    BY <1>3, <2>1 DEF Tasks
  <2>3. /\ commit.op = "advance" /\ commit.step = "commit"
        /\ commit.channel = t.channel /\ commit.target = t.target
    BY <2>1
  <2> HIDE DEF commit
  <2>4. t.target \in In(t.channel) /\ Returned(p, t.channel, t.target)
    BY <1>8, <1>10
  <2>5. TaskOK(p, commit)
    BY <1>4, <2>3, <2>4 DEF TaskOK, AdvanceOK
  <2> QED  BY <1>5, <1>6, <1>10, <2>2, <2>5, QuietStep, AgentKeeps
<1>11. CASE passes /\ task' = [task EXCEPT ![p] = walk]
  <2>1. PICK id \in next : id = CHOOSE k \in next : TRUE
    BY <1>11 DEF passes
  <2>2. id \in Ids /\ id \in Nat /\ Returned(p, t.channel, id)
    BY <1>8, <1>11
  <2>3. walk = Walking(t.channel, t.target, id, t.walked + 1)
    BY <2>1
  <2> HIDE DEF walk
  <2>4. walk \in Tasks
    <3>1. t.walked + 1 \in Nat
      BY <1>3
    <3> QED  BY <1>3, <2>2, <2>3, <3>1 DEF Tasks, Walking
  <2>5. /\ walk.op = "advance" /\ walk.step = "walk" /\ walk.after = id
        /\ walk.channel = t.channel /\ walk.target = t.target
    BY <2>3 DEF Walking
  <2>6. TaskOK(p, walk)
    BY <1>4, <2>2, <2>5 DEF TaskOK, AdvanceOK
  <2> QED  BY <1>5, <1>6, <1>11, <2>4, <2>6, QuietStep, AgentKeeps
<1> QED  BY <1>7, <1>9, <1>10, <1>11

(***************************************************************************)
(* Cursors and arrivals.                                                   *)
(***************************************************************************)
LEMMA CursorMoves ==
  ASSUME TypeOK, NEW c \in Channels, NEW id, AdvanceCursor(Seat, c, id), UNCHANGED Rest
  PROVE  BoardGrows /\ TypeOK'
<1>1. /\ messages \in Seq(Requests) /\ Len(messages) \in Nat
      /\ cursors \in [Seats -> [Channels -> Ids \cup {0}]]
      /\ cursors \in [Seats -> [Channels -> Nat]] /\ Seat \in Seats
  BY BoardFacts, InboxAssumption
<1>2. /\ messages' = messages /\ sent' = sent /\ copies' = copies /\ told' = told
      /\ filter' = filter /\ out' = out /\ closed' = closed /\ restarts' = restarts
      /\ stage' = stage /\ mark' = mark /\ after' = after /\ handled' = handled
  BY DEF Rest, listening
<1> DEFINE old == cursors[Seat][c]
           new == IF old > id THEN old ELSE id
<1>3. cursors' = [cursors EXCEPT ![Seat][c] = new]
  BY DEF AdvanceCursor
<1>4. id \in Ids \cup {0} /\ id \in Nat /\ old \in Ids \cup {0} /\ old \in Nat
  <2>1. id = 0 \/ id \in In(c)
    BY DEF AdvanceCursor
  <2>2. id \in Ids \cup {0} /\ id \in Nat
    BY <1>1, <2>1, IdsAreNat
  <2> QED  BY <1>1, <2>2
<1>5. new \in Ids \cup {0} /\ new \in Nat /\ old <= new
  BY <1>4
<1> HIDE DEF old, new
<1>6. cursors' \in [Seats -> [Channels -> Ids \cup {0}]]
  BY <1>1, <1>3, <1>5
<1>7. cursors' \in [Seats -> [Channels -> Nat]]
  BY <1>1, <1>3, <1>5
<1>8. \A d \in Channels : cursors[Seat][d] <= cursors'[Seat][d]
  <2>1. cursors'[Seat][c] = new
    BY <1>1, <1>3
  <2>2. \A d \in Channels : d # c => cursors'[Seat][d] = cursors[Seat][d]
    BY <1>1, <1>3
  <2>3. \A d \in Channels : cursors[Seat][d] \in Nat
    BY <1>1
  <2> QED  BY <1>5, <2>1, <2>2, <2>3 DEF old
<1>9. Ids' = Ids
  BY <1>2 DEF Ids
<1>10. TypeOK'
  BY <1>2, <1>6, <1>9 DEF TypeOK
<1>11. Grows
  BY <1>2, UnchangedGrows
<1> QED  BY <1>1, <1>2, <1>7, <1>8, <1>10, <1>11 DEF BoardGrows

LEMMA AcknowledgeKeeps ==
  ASSUME InboxInv, NEW p \in Agents, Acknowledge(p)
  PROVE  InboxInv'
<1>1. PICK t \in Tasks : task[p] = t /\ TaskOK(p, t)
  BY TaskOf
<1>2. t.op = "advance" /\ AdvanceCursor(Seat, t.channel, t.target)
  BY <1>1 DEF Acknowledge
<1>3. t.channel \in Channels
  BY <1>2, TaskFields
<1>4. BoardGrows /\ TypeOK'
  <2>1. TypeOK /\ UNCHANGED Rest
    BY DEF InboxInv, Acknowledge
  <2> QED  BY <1>2, <1>3, <2>1, CursorMoves
<1>5. task' = [task EXCEPT ![p] = Idle] /\ UNCHANGED <<delivered, shown>>
  BY DEF Acknowledge
<1> QED  BY <1>4, <1>5, IdleIsOK, QuietStep, AgentKeeps

LEMMA AdvanceUnreadKeeps ==
  ASSUME InboxInv, NEW p \in Agents, NEW c \in Channels, NEW id, AdvanceUnread(p, c, id)
  PROVE  InboxInv'
<1>1. BoardGrows /\ TypeOK'
  <2>1. TypeOK /\ AdvanceCursor(Seat, c, id) /\ UNCHANGED Rest
    BY DEF InboxInv, AdvanceUnread
  <2> QED  BY <2>1, CursorMoves
<1>2. task' = [task EXCEPT ![p] = Idle] /\ UNCHANGED <<delivered, shown>>
  BY DEF AdvanceUnread
<1> QED  BY <1>1, <1>2, IdleIsOK, QuietStep, AgentKeeps

LEMMA ArrivalGrows ==
  ASSUME TypeOK, NEW r \in Requests, Arrive(r)
  PROVE  BoardGrows /\ TypeOK'
<1>1. /\ messages \in Seq(Requests) /\ Len(messages) \in Nat
      /\ cursors \in [Seats -> [Channels -> Ids \cup {0}]]
      /\ cursors \in [Seats -> [Channels -> Nat]] /\ Seat \in Seats
  BY BoardFacts, InboxAssumption
<1>2. /\ messages' = Append(messages, r) /\ Len(messages) < MaxMessages
      /\ filter' = [l \in Listeners |-> filter'[l]] /\ closed' = [l \in Listeners |-> closed'[l]]
  BY DEF Arrive, StoreAndRing, Fanout
<1>3. Listeners = {}
  BY InboxAssumption
<1>4. /\ sent' = sent /\ copies' = copies /\ told' = told /\ cursors' = cursors
      /\ restarts' = restarts
      /\ stage' = stage /\ mark' = mark /\ after' = after /\ handled' = handled
  BY DEF Arrive, listening
<1>5. /\ messages' \in Seq(Requests) /\ Len(messages') = Len(messages) + 1
      /\ \A id \in 1..Len(messages) : id \in 1..Len(messages') /\ messages'[id] = messages[id]
  BY <1>1, <1>2
<1>6. Grows /\ Ids \subseteq Ids'
  BY <1>5 DEF Grows, Ids
<1>7. cursors' \in [Seats -> [Channels -> Ids' \cup {0}]]
  BY <1>1, <1>4, <1>6
<1>8. Len(messages') <= MaxMessages
  BY <1>1, <1>2, <1>5, BoardAssumption
<1>9. TypeOK'
  <2>1. filter' \in [Listeners -> SUBSET Channels] /\ closed' \in [Listeners -> BOOLEAN]
    BY <1>2, <1>3
  <2>2. handled \in [Listeners -> SUBSET Ids']
    BY <1>3 DEF TypeOK
  <2> QED  BY <1>3, <1>4, <1>5, <1>7, <1>8, <2>1, <2>2 DEF TypeOK
<1>10. \A d \in Channels : cursors[Seat][d] <= cursors'[Seat][d]
  BY <1>1, <1>4
<1>11. Len(messages) <= Len(messages')
  BY <1>1, <1>5
<1> QED  BY <1>1, <1>4, <1>5, <1>6, <1>9, <1>10, <1>11 DEF BoardGrows

LEMMA ArriveKeeps ==
  ASSUME InboxInv, NEW r \in Requests, Arrive(r)
  PROVE  InboxInv'
<1>1. BoardGrows /\ TypeOK'
  BY ArrivalGrows DEF InboxInv
<1>2. task' = task /\ delivered' = delivered /\ shown' = shown
  BY DEF Arrive, inbox
<1>3. ASSUME NEW p \in Agents, NEW t \in Tasks, task'[p] = t
      PROVE  TaskOK(p, t)'
  <2>1. TaskOK(p, t)
    BY <1>2, <1>3 DEF InboxInv
  <2> QED  BY <1>1, <1>2, <2>1, TaskStays
<1> QED  BY <1>1, <1>2, <1>3 DEF InboxInv

LEMMA InboxStep ==
  ASSUME InboxInv, [InboxNext]_inboxVars
  PROVE  InboxInv'
<1>1. CASE UNCHANGED inboxVars
  <2>1. TypeOK /\ UNCHANGED vars /\ task' = task /\ delivered' = delivered /\ shown' = shown
    BY <1>1 DEF InboxInv, inboxVars, inbox
  <2>2. BoardGrows /\ TypeOK'
    BY <2>1, SameBoardGrows
  <2>3. ASSUME NEW p \in Agents, NEW t \in Tasks, task'[p] = t
        PROVE  TaskOK(p, t)'
    <3>1. TaskOK(p, t)
      BY <2>1, <2>3 DEF InboxInv
    <3> QED  BY <2>1, <2>2, <3>1, TaskStays
  <2> QED  BY <2>1, <2>2, <2>3 DEF InboxInv
<1>2. CASE \E r \in Requests : Arrive(r)
  BY <1>2, ArriveKeeps
<1>3. ASSUME NEW p \in Agents,
             ReadCursor(p) \/ FetchPage(p) \/ AdvanceFrom(p) \/ Walk(p)
             \/ Acknowledge(p) \/ Fail(p) \/ Restart(p)
      PROVE  InboxInv'
  BY <1>3, ReadCursorKeeps, FetchPageKeeps, AdvanceFromKeeps, WalkKeeps, AcknowledgeKeeps,
     FailKeeps, AgentRestartKeeps
<1>4. ASSUME NEW p \in Agents, NEW c \in Channels, NEW n \in Limits[p], StartRead(p, c, n)
      PROVE  InboxInv'
  BY <1>4, StartReadKeeps
<1>5. ASSUME NEW p \in Agents, NEW c \in Channels, NEW id \in 1..MaxMessages,
             StartAdvance(p, c, id) \/ AdvanceUnread(p, c, id)
      PROVE  InboxInv'
  BY <1>5, StartAdvanceKeeps, AdvanceUnreadKeeps
<1>6. ASSUME NEW p \in Agents, NEW id \in 1..MaxMessages, NEW offset \in 0..2, Get(p, id, offset)
      PROVE  InboxInv'
  BY <1>6, GetKeeps
<1> QED  BY <1>1, <1>2, <1>3, <1>4, <1>5, <1>6 DEF InboxNext

LEMMA InboxStarts ==
  ASSUME InboxInit
  PROVE  InboxInv
<1>1. TypeOK
  <2>1. Init
    BY DEF InboxInit
  <2>2. messages \in Seq(Requests) /\ Len(messages) = 0
    BY <2>1 DEF Init
  <2> QED  BY <2>1, <2>2, BoardAssumption DEF Init, TypeOK, Ids
<1>2. <<>> \in Seq(Entry) /\ LedgerOK(<<>>, {})
  BY InboxAssumption DEF LedgerOK
<1>3. /\ task = [p \in Agents |-> Idle]
      /\ delivered = [p \in CodexAgents |-> <<>>]
      /\ shown = [p \in CodexAgents |-> {}]
  BY DEF InboxInit
<1>4. ASSUME NEW p \in Agents, NEW t \in Tasks, task[p] = t
      PROVE  TaskOK(p, t)
  <2>1. t = Idle
    BY <1>3, <1>4
  <2> QED  BY <2>1, IdleIsOK
<1>5. task \in [Agents -> Tasks]
  BY <1>3, IdleIsOK
<1> QED  BY <1>1, <1>2, <1>3, <1>4, <1>5 DEF InboxInv

LEMMA InboxInvariant == InboxSpec => []InboxInv
<1>1. InboxInit => InboxInv
  BY InboxStarts
<1>2. InboxInv /\ [InboxNext]_inboxVars => InboxInv'
  BY InboxStep
<1> QED  BY <1>1, <1>2, PTL DEF InboxSpec

(***************************************************************************)
(* What the invariant gives.                                               *)
(***************************************************************************)

\* Tasks, ledgers and the board keep their shape; a ledger is bounded, names a
\* message once, and claims no slice that was not returned (Adapter._observe).
THEOREM LedgersAreHonest == InboxSpec => []InboxTypeOK
<1>1. ASSUME InboxInv
      PROVE  InboxTypeOK
  <2>1. \A p \in Agents : task[p] \in Tasks
    BY <1>1 DEF InboxInv
  <2>2. \A p \in Agents : task[p].op \in {"idle", "answered", "read", "advance"}
    BY <2>1, TaskFields
  <2>3. ASSUME NEW p \in CodexAgents
        PROVE  /\ Len(delivered[p]) <= MaxTracked
               /\ IsInjective([i \in DOMAIN delivered[p] |-> delivered[p][i].id])
               /\ \A i \in DOMAIN delivered[p] :
                      \A n \in 1..delivered[p][i].upto : <<delivered[p][i].id, n>> \in shown[p]
    BY <1>1 DEF InboxInv, LedgerOK, IsInjective
  <2> QED  BY <1>1, <2>2, <2>3 DEF InboxTypeOK, InboxInv
<1> QED  BY <1>1, InboxInvariant, PTL

\* What wire_read and read return is the messages from their start on, none
\* left out however it was paged and cut, and has_more is the truth.
THEOREM WindowsAreTruthful == InboxSpec => []WindowIsTruthful
<1>1. ASSUME InboxInv
      PROVE  WindowIsTruthful
  <2> DEFINE last(t) == IF t.rows = <<>> THEN t.from ELSE Last(t.rows)
             beyond(t) == {id \in In(t.channel) : id > last(t) /\ id <= t.asof}
  <2> SUFFICES ASSUME NEW p \in Agents, task[p].op = "answered"
               PROVE  LET t == task[p]
                      IN  /\ t.rows = Sorted({id \in In(t.channel) :
                                                  t.from < id /\ id <= last(t)})
                          /\ t.more <=> (beyond(t) # {})
    BY DEF WindowIsTruthful
  <2>1. PICK t \in Tasks : task[p] = t /\ TaskOK(p, t)
    BY <1>1, TaskOf
  <2>2. AnswerOK(t) /\ t.from \in Nat /\ t.more \in BOOLEAN /\ t.asof \in Nat
    BY <2>1, TaskFields DEF TaskOK
  <2>3. messages \in Seq(Requests)
    BY <1>1, BoardFacts DEF InboxInv
  <2>4. last(t) = End(t.rows, t.from)
    BY DEF End, Last
  <2>5. t.rows = Sorted({id \in In(t.channel) : t.from < id /\ id <= last(t)})
    BY <2>2, <2>3, <2>4, WindowIsSorted DEF AnswerOK
  <2>6. t.more <=> (beyond(t) # {})
    <3>1. last(t) \in Nat
      BY <2>2, <2>4, EndOfWindow DEF AnswerOK
    <3>2. \A id \in In(t.channel) : last(t) < id <=> id > last(t)
      BY <2>3, <3>1, IdsAreNat
    <3> QED  BY <2>2, <2>4, <3>2 DEF AnswerOK
  <2> QED  BY <2>1, <2>5, <2>6
<1> QED  BY <1>1, InboxInvariant, PTL

\* A step that moves a cursor is an acknowledgement.
LEMMA CursorsMoveWhen ==
  ASSUME InboxNext
  PROVE  \/ cursors' = cursors
         \/ \E p \in Agents : Acknowledge(p)
         \/ \E p \in Agents, c \in Channels, id \in 1..MaxMessages : AdvanceUnread(p, c, id)
<1>1. ASSUME NEW r \in Requests, Arrive(r)
      PROVE  cursors' = cursors
  BY <1>1 DEF Arrive
<1>2. ASSUME NEW p \in Agents,
             ReadCursor(p) \/ FetchPage(p) \/ AdvanceFrom(p) \/ Walk(p) \/ Fail(p) \/ Restart(p)
      PROVE  cursors' = cursors
  BY <1>2 DEF ReadCursor, FetchPage, AdvanceFrom, Walk, Fail, Restart, vars
<1>3. ASSUME NEW p \in Agents, NEW c \in Channels, NEW n \in Limits[p], StartRead(p, c, n)
      PROVE  cursors' = cursors
  BY <1>3 DEF StartRead, vars
<1>4. ASSUME NEW p \in Agents, NEW c \in Channels, NEW id \in 1..MaxMessages,
             StartAdvance(p, c, id)
      PROVE  cursors' = cursors
  BY <1>4 DEF StartAdvance, vars
<1>5. ASSUME NEW p \in Agents, NEW id \in 1..MaxMessages, NEW offset \in 0..2, Get(p, id, offset)
      PROVE  cursors' = cursors
  BY <1>5 DEF Get, vars
<1> QED  BY <1>1, <1>2, <1>3, <1>4, <1>5 DEF InboxNext

LEMMA StoredWhen ==
  ASSUME InboxNext
  PROVE  messages' = messages \/ \E r \in Requests : Arrive(r)
<1>1. ASSUME NEW p \in Agents,
             ReadCursor(p) \/ FetchPage(p) \/ AdvanceFrom(p) \/ Walk(p) \/ Acknowledge(p)
             \/ Fail(p) \/ Restart(p)
      PROVE  messages' = messages
  BY <1>1 DEF ReadCursor, FetchPage, AdvanceFrom, Walk, Acknowledge, Fail, Restart, vars, posts, Rest
<1>2. ASSUME NEW p \in Agents, NEW c \in Channels, NEW n \in Limits[p], StartRead(p, c, n)
      PROVE  messages' = messages
  BY <1>2 DEF StartRead, vars, posts
<1>3. ASSUME NEW p \in Agents, NEW c \in Channels, NEW id \in 1..MaxMessages,
             StartAdvance(p, c, id) \/ AdvanceUnread(p, c, id)
      PROVE  messages' = messages
  BY <1>3 DEF StartAdvance, AdvanceUnread, vars, posts, Rest
<1>4. ASSUME NEW p \in Agents, NEW id \in 1..MaxMessages, NEW offset \in 0..2, Get(p, id, offset)
      PROVE  messages' = messages
  BY <1>4 DEF Get, vars, posts
<1> QED  BY <1>1, <1>2, <1>3, <1>4 DEF InboxNext

\* wire_advance of the Codex adapter moves the cursor over nothing it did not
\* return completely, whatever arrived and whoever moved the cursor while it
\* was walking.
THEOREM AcknowledgedIsRead == InboxSpec => AcknowledgedWasShown
<1> DEFINE Moves(p, c) ==
               task'[p] # task[p] =>
                   \A id \in In(c) :
                       cursors[Seat][c] < id /\ id <= cursors'[Seat][c] =>
                           {id} \X (1..SizeOf(id)) \subseteq shown[p]
           A == \A p \in CodexAgents, c \in Channels : Moves(p, c)
<1>1. ASSUME InboxInv, InboxNext, NEW p \in CodexAgents, NEW c \in Channels
      PROVE  Moves(p, c)
  <2>1. /\ messages \in Seq(Requests) /\ Seat \in Seats
        /\ cursors \in [Seats -> [Channels -> Nat]] /\ p \in Agents
        /\ task \in [Agents -> Tasks]
    BY <1>1, BoardFacts, InboxAssumption DEF InboxInv
  <2>2. ASSUME cursors'[Seat][c] = cursors[Seat][c]
        PROVE  Moves(p, c)
    <3>1. \A id \in In(c) : ~(cursors[Seat][c] < id /\ id <= cursors[Seat][c])
      BY <2>1, IdsAreNat
    <3> QED  BY <2>2, <3>1
  <2>3. ASSUME NEW q \in Agents, NEW d \in Channels, NEW id, AdvanceUnread(q, d, id)
        PROVE  Moves(p, c)
    <3>1. q # p /\ task'[p] = task[p]
      BY <2>1, <2>3 DEF AdvanceUnread
    <3> QED  BY <3>1
  <2>4. ASSUME NEW q \in Agents, Acknowledge(q), q # p
        PROVE  Moves(p, c)
    <3>1. task'[p] = task[p]
      BY <2>1, <2>4 DEF Acknowledge
    <3> QED  BY <3>1
  <2>5. ASSUME Acknowledge(p)
        PROVE  Moves(p, c)
    <3>1. PICK t \in Tasks : task[p] = t /\ TaskOK(p, t)
      BY <1>1, <2>1, TaskOf
    <3>2. /\ t.op = "advance" /\ t.step = "commit"
          /\ AdvanceCursor(Seat, t.channel, t.target)
      BY <2>5, <3>1 DEF Acknowledge
    <3>3. t.channel \in Channels /\ Returned(p, t.channel, t.target) /\ t.target \in Nat
      BY <3>1, <3>2, TaskFields DEF TaskOK, AdvanceOK
    <3>4. CASE c # t.channel
      <4>1. cursors'[Seat][c] = cursors[Seat][c]
        BY <2>1, <3>2, <3>3, <3>4 DEF AdvanceCursor
      <4> QED  BY <2>2, <4>1
    <3>5. CASE c = t.channel /\ cursors[Seat][c] > t.target
      <4>1. cursors'[Seat][c] = cursors[Seat][c]
        BY <2>1, <3>2, <3>5 DEF AdvanceCursor
      <4> QED  BY <2>2, <4>1
    <3>6. CASE c = t.channel /\ ~(cursors[Seat][c] > t.target)
      <4>1. cursors'[Seat][c] = t.target
        BY <2>1, <3>2, <3>6 DEF AdvanceCursor
      <4> QED  BY <3>3, <3>6, <4>1 DEF Returned
    <3> QED  BY <3>4, <3>5, <3>6
  <2>6. cursors' = cursors => Moves(p, c)
    BY <2>2
  <2> HIDE DEF Moves
  <2> QED  BY <1>1, <2>3, <2>4, <2>5, <2>6, CursorsMoveWhen
<1>2. InboxInv /\ [InboxNext]_inboxVars => [A]_inboxVars
  <2> HIDE DEF Moves
  <2> QED  BY <1>1
<1>3. AcknowledgedWasShown <=> [][A]_inboxVars
  BY DEF AcknowledgedWasShown
<1> HIDE DEF A
<1> QED  BY <1>2, <1>3, InboxInvariant, PTL DEF InboxSpec

\* The cursor of the seat only moves forward, whichever adapter acknowledges
\* last, and the messages a read or a walk has gone through are never rewritten.
THEOREM CursorsOnlyAdvance == InboxSpec => HistoryOnlyGrows
<1> DEFINE Forward == \A s \in Seats : \A c \in Channels : cursors'[s][c] >= cursors[s][c]
           A == /\ \A s \in Seats : \A c \in Channels : cursors'[s][c] >= cursors[s][c]
                /\ SubSeq(messages', 1, Len(messages)) = messages
<1>1. ASSUME InboxInv, InboxNext
      PROVE  A
  <2>1. /\ messages \in Seq(Requests) /\ Seat \in Seats
        /\ cursors \in [Seats -> [Channels -> Ids \cup {0}]]
        /\ cursors \in [Seats -> [Channels -> Nat]]
    BY <1>1, BoardFacts, InboxAssumption DEF InboxInv
  <2>2. cursors' = cursors => Forward
    BY <2>1
  <2>3. ASSUME NEW c \in Channels, NEW id, AdvanceCursor(Seat, c, id)
        PROVE  Forward
    <3>1. id \in Nat
      <4>1. id = 0 \/ id \in In(c)
        BY <2>3 DEF AdvanceCursor
      <4> QED  BY <2>1, <4>1, IdsAreNat
    <3> DEFINE old == cursors[Seat][c]
               new == IF old > id THEN old ELSE id
    <3>2. cursors' = [cursors EXCEPT ![Seat][c] = new]
      BY <2>3 DEF AdvanceCursor
    <3>3. old \in Nat /\ new \in Nat /\ new >= old
      BY <2>1, <3>1
    <3> HIDE DEF old, new
    <3>4. ASSUME NEW s \in Seats, NEW d \in Channels
          PROVE  cursors'[s][d] >= cursors[s][d]
      <4>1. cursors[s][d] \in Nat
        BY <2>1
      <4>2. CASE s = Seat /\ d = c
        BY <2>1, <3>2, <3>3, <4>2 DEF old
      <4>3. CASE ~(s = Seat /\ d = c)
        <5>1. cursors'[s][d] = cursors[s][d]
          BY <2>1, <3>2, <4>3
        <5> QED  BY <4>1, <5>1
      <4> QED  BY <4>2, <4>3
    <3> QED  BY <3>4
  <2>4. ASSUME NEW p \in Agents, Acknowledge(p)
        PROVE  Forward
    <3>1. PICK t \in Tasks : task[p] = t
      BY <1>1, TaskOf
    <3>2. t.op = "advance" /\ AdvanceCursor(Seat, t.channel, t.target)
      BY <2>4, <3>1 DEF Acknowledge
    <3> QED  BY <2>3, <3>2, TaskFields
  <2>5. Forward
    <3> HIDE DEF Forward
    <3> QED  BY <1>1, <2>2, <2>3, <2>4, CursorsMoveWhen DEF AdvanceUnread
  <2>6. SubSeq(messages', 1, Len(messages)) = messages
    <3>1. CASE messages' = messages
      BY <2>1, <3>1, SubSeqFull
    <3>2. ASSUME NEW r \in Requests, Arrive(r)
          PROVE  SubSeq(messages', 1, Len(messages)) = messages
      <4>1. messages' = Append(messages, r)
        BY <3>2 DEF Arrive, StoreAndRing
      <4>2. /\ messages' \in Seq(Requests) /\ Len(messages') = Len(messages) + 1
            /\ Len(messages) \in Nat
            /\ \A i \in 1..Len(messages) : messages'[i] = messages[i]
        BY <2>1, <4>1
      <4> DEFINE n == Len(messages)
                 u == SubSeq(messages', 1, n)
      <4>3. /\ u \in Seq(Requests) /\ Len(u) = IF 1 <= n THEN n - 1 + 1 ELSE 0
            /\ \A i \in 1..(n - 1 + 1) : u[i] = messages'[1 + i - 1]
        <5>1. \A i \in 1..n : messages'[i] \in Requests
          BY <4>2
        <5> QED  BY <4>2, <5>1, SubSeqProperties
      <4>4. Len(u) = n /\ \A i \in 1..n : i \in 1..(n - 1 + 1) /\ 1 + i - 1 = i
        BY <4>2, <4>3
      <4>5. \A i \in 1..n : u[i] = messages[i]
        <5>1. \A i \in 1..n : u[i] = messages'[1 + i - 1] /\ 1 + i - 1 = i
          BY <4>3, <4>4
        <5> QED  BY <4>2, <5>1
      <4> HIDE DEF u
      <4>6. u = messages
        BY <2>1, <4>3, <4>4, <4>5, SeqEqual
      <4> QED  BY <4>6 DEF u
    <3>3. messages' = messages \/ \E r \in Requests : Arrive(r)
      BY <1>1, StoredWhen
    <3> QED  BY <3>1, <3>2, <3>3
  <2> QED  BY <2>5, <2>6
<1>2. InboxInv /\ [InboxNext]_inboxVars => [A]_vars
  <2>1. UNCHANGED inboxVars => UNCHANGED vars
    BY DEF inboxVars
  <2> HIDE DEF A
  <2> QED  BY <1>1, <2>1
<1>3. HistoryOnlyGrows <=> [][A]_vars
  BY DEF HistoryOnlyGrows
<1> HIDE DEF A
<1> QED  BY <1>2, <1>3, InboxInvariant, PTL DEF InboxSpec

(***************************************************************************)
(* The notice hooks read: the theorems above are theorems of NoticeSpec.   *)
(***************************************************************************)
\* Whatever hooks run, the adapters' board, cursors and ledgers take the steps
\* of InboxSpec.
THEOREM HooksOnlyRead == NoticeSpec => InboxSpec
<1>1. NoticeInit => InboxInit
  BY DEF NoticeInit
<1>2. [NoticeNext]_noticeVars => [InboxNext]_inboxVars
  <2>1. ASSUME NEW h \in Hooks,
               \/ StartHook(h) \/ AskCursor(h) \/ CodexDecide(h)
               \/ Recall(h) \/ Remember(h) \/ EndHook(h)
        PROVE  UNCHANGED inboxVars
    BY <2>1 DEF StartHook, AskCursor, CodexDecide, Recall, Remember, EndHook
  <2> QED  BY <2>1 DEF NoticeNext, noticeVars
<1> QED  BY <1>1, <1>2, PTL DEF NoticeSpec, InboxSpec

(***************************************************************************)
(* Inventories.                                                            *)
(***************************************************************************)
\* The elements of a set, the largest first.
Downwards(rows, S) ==
    /\ rows \in Seq(Nat) /\ Len(rows) \in Nat /\ DOMAIN rows = 1..Len(rows)
    /\ \A i \in DOMAIN rows : rows[i] \in S
    /\ \A i, j \in DOMAIN rows : i < j => rows[j] < rows[i]
    /\ \A a \in S : \E i \in DOMAIN rows : rows[i] = a

LEMMA ReversedFacts ==
  ASSUME NEW S \in SUBSET Nat, IsFiniteSet(S)
  PROVE  Downwards(Reverse(Sorted(S)), S)
<1> DEFINE s == Sorted(S)
           n == Len(s)
           rows == Reverse(s)
<1>1. /\ s \in Seq(S) /\ n \in Nat /\ DOMAIN s = 1..n
      /\ \A i \in 1..n : s[i] \in S
      /\ \A i, j \in 1..n : i < j => s[i] < s[j]
      /\ \A a \in S : \E i \in 1..n : s[i] = a
  <2>1. s \in Seq(S) /\ n \in Nat
    BY SortedFacts
  <2>2. DOMAIN s = 1..n
    BY <2>1
  <2> QED  BY <2>1, <2>2, SortedFacts
<1> HIDE DEF s
<1>2. rows = [i \in 1..n |-> s[(n - i) + 1]]
  BY DEF Reverse
<1>3. \A i \in 1..n : (n - i) + 1 \in 1..n /\ (n - ((n - i) + 1)) + 1 = i
  BY <1>1
<1> HIDE DEF n, rows
<1>4. \A i \in 1..n : rows[i] \in S /\ rows[i] = s[(n - i) + 1]
  BY <1>1, <1>2, <1>3
<1>5. rows \in Seq(Nat) /\ Len(rows) = n /\ DOMAIN rows = 1..n
  <2>1. rows \in [1..n -> Nat]
    BY <1>2, <1>4
  <2> QED  BY <1>1, <1>2, <2>1
<1>6. ASSUME NEW i \in 1..n, NEW j \in 1..n, i < j
      PROVE  rows[j] < rows[i]
  <2>1. (n - j) + 1 < (n - i) + 1
    BY <1>1, <1>6
  <2> QED  BY <1>1, <1>3, <1>4, <2>1
<1>7. ASSUME NEW a \in S
      PROVE  \E i \in 1..n : rows[i] = a
  <2>1. PICK i \in 1..n : s[i] = a
    BY <1>1
  <2>2. rows[(n - i) + 1] = s[(n - ((n - i) + 1)) + 1]
    BY <1>3, <1>4
  <2> QED  BY <1>3, <2>1, <2>2
<1>8. Downwards(rows, S)
  BY <1>1, <1>4, <1>5, <1>6, <1>7 DEF Downwards
<1> QED  BY <1>8 DEF rows, s

LEMMA InventoryFacts ==
  ASSUME NEW m \in Nat
  PROVE  Downwards(InventoryAt(m), LatestAt(m))
<1>1. IsFiniteSet(1..m)
  BY FS_Interval
<1>2. LatestAt(m) \in SUBSET (1..m)
  BY DEF LatestAt
<1>3. LatestAt(m) \in SUBSET Nat /\ IsFiniteSet(LatestAt(m))
  BY <1>1, <1>2, FS_Subset
<1> QED  BY <1>3, ReversedFacts DEF InventoryAt

LEMMA ChannelOf ==
  ASSUME messages \in Seq(Requests), NEW id \in Ids
  PROVE  messages[id].channel \in Channels /\ id \in In(messages[id].channel)
<1>1. messages[id] \in Requests
  BY DEF Ids
<1>2. messages[id].channel \in Channels
  BY <1>1, BoardAssumption
<1> QED  BY <1>2 DEF In

LEMMA LatestFacts ==
  ASSUME messages \in Seq(Requests), NEW c, In(c) # {}
  PROVE  Latest(c) \in In(c) /\ \A k \in In(c) : k <= Latest(c)
<1>1. /\ In(c) \in SUBSET Nat /\ Len(messages) \in Nat
      /\ \A k \in In(c) : k <= Len(messages)
  BY IdsAreNat DEF Ids
<1>2. \E m \in In(c) : \A k \in In(c) : k <= m
  BY <1>1, HasLargest
<1> QED  BY <1>2 DEF Latest, Largest

\* What StartHook is told is the inventory of the board as it is.
LEMMA InventoryIsCurrent ==
  ASSUME messages \in Seq(Requests)
  PROVE  Inventory = InventoryAt(Len(messages))
<1> DEFINE S == {Latest(c) : c \in {k \in Channels : In(k) # {}}}
           n == Len(messages)
<1>1. n \in Nat /\ Ids = 1..n
  BY DEF Ids
<1>2. ASSUME NEW c \in Channels, In(c) # {}
      PROVE  Latest(c) \in LatestAt(n)
  <2>1. Latest(c) \in In(c) /\ \A k \in In(c) : k <= Latest(c)
    BY <1>2, LatestFacts
  <2>2. Latest(c) \in 1..n /\ messages[Latest(c)].channel = c
    BY <1>1, <2>1 DEF In
  <2>3. \A k \in 1..n : k > Latest(c) => messages[k].channel # c
    BY <1>1, <2>1, <2>2 DEF In
  <2> QED  BY <2>2, <2>3 DEF LatestAt
<1>3. ASSUME NEW id \in LatestAt(n)
      PROVE  id \in S
  <2> DEFINE c == messages[id].channel
  <2>1. id \in Ids /\ \A k \in Ids : k > id => messages[k].channel # c
    BY <1>1 DEF LatestAt
  <2>2. c \in Channels /\ id \in In(c)
    BY <2>1, ChannelOf
  <2> HIDE DEF c
  <2>3. Latest(c) \in In(c) /\ id <= Latest(c)
    BY <2>2, LatestFacts
  <2>4. Latest(c) \in Ids /\ ~(Latest(c) > id)
    BY <2>1, <2>3 DEF In
  <2>5. Latest(c) = id
    BY <2>1, <2>3, <2>4, IdsAreNat
  <2> QED  BY <2>2, <2>5
<1>4. S = LatestAt(n)
  BY <1>2, <1>3
<1> QED  BY <1>4 DEF Inventory, InventoryAt

LEMMA NewerRow ==
  ASSUME messages \in Seq(Requests), NEW n \in Nat, NEW id \in 1..n
  PROVE  \E k \in LatestAt(n) : id <= k /\ messages[k].channel = messages[id].channel
<1> DEFINE S == {k \in 1..n : messages[k].channel = messages[id].channel}
<1>1. S \in SUBSET Nat /\ id \in S /\ \A k \in S : k <= n
  OBVIOUS
<1>2. PICK k \in S : \A l \in S : l <= k
  <2> HIDE DEF S
  <2> QED  BY <1>1, HasLargest
<1>3. k \in 1..n /\ messages[k].channel = messages[id].channel /\ id <= k
  BY <1>1, <1>2
<1>4. \A l \in 1..n : l > k => messages[l].channel # messages[k].channel
  BY <1>2, <1>3
<1> QED  BY <1>3, <1>4 DEF LatestAt

LEMMA TopRow ==
  ASSUME NEW m \in Nat \ {0}
  PROVE  1 \in DOMAIN InventoryAt(m) /\ InventoryAt(m)[1] = m
<1> DEFINE rows == InventoryAt(m)
<1>1. Downwards(rows, LatestAt(m))
  BY InventoryFacts
<1>2. m \in LatestAt(m) /\ \A id \in LatestAt(m) : id \in Nat /\ id <= m
  BY DEF LatestAt
<1> HIDE DEF rows
<1>3. PICK i \in DOMAIN rows : rows[i] = m
  BY <1>1, <1>2 DEF Downwards
<1>4. i \in Nat /\ 1 <= i /\ 1 \in DOMAIN rows
  BY <1>1 DEF Downwards
<1>5. ~(1 < i)
  <2>1. rows[1] \in Nat /\ rows[1] <= m /\ ~(rows[i] < rows[1])
    BY <1>1, <1>2, <1>3, <1>4 DEF Downwards
  <2> QED  BY <1>1, <1>4, <2>1 DEF Downwards
<1>6. i = 1
  BY <1>4, <1>5
<1> QED  BY <1>3, <1>4, <1>6 DEF rows

\* A channel that is quiet sinks in the inventory: it was no lower before.
LEMMA RowsSink ==
  ASSUME messages \in Seq(Requests), NEW m \in Nat, NEW n \in Nat, m <= n,
         NEW i \in DOMAIN InventoryAt(n), InventoryAt(n)[i] <= m
  PROVE  \E j \in DOMAIN InventoryAt(m) : j <= i /\ InventoryAt(m)[j] = InventoryAt(n)[i]
<1> DEFINE old == InventoryAt(m)
           new == InventoryAt(n)
           a == new[i]
<1>1. Downwards(old, LatestAt(m)) /\ Downwards(new, LatestAt(n))
  BY InventoryFacts
<1> HIDE DEF old, new
<1>2. i \in Nat /\ i \in 1..Len(new) /\ Len(new) \in Nat /\ a \in LatestAt(n)
  BY <1>1 DEF Downwards, new
<1>3. a \in LatestAt(m)
  BY <1>2 DEF LatestAt, a, new
<1>4. PICK j \in DOMAIN old : old[j] = a
  BY <1>1, <1>3 DEF Downwards
<1>5. j \in Nat /\ j \in 1..Len(old) /\ Len(old) \in Nat
  BY <1>1 DEF Downwards
<1> DEFINE Same(l, k) == messages[old[l]].channel = messages[new[k]].channel
<1>6. ASSUME NEW l \in 1..j
      PROVE  \E k \in 1..i : Same(l, k)
  <2>1. l \in DOMAIN old /\ (l < j => old[j] < old[l]) /\ (l = j \/ l < j)
    <3>1. l \in 1..Len(old) /\ (l = j \/ l < j)
      BY <1>5
    <3>2. DOMAIN old = 1..Len(old) /\ \A k, r \in DOMAIN old : k < r => old[r] < old[k]
      BY <1>1 DEF Downwards
    <3> QED  BY <1>5, <3>1, <3>2
  <2>2. old[l] \in LatestAt(m) /\ old[l] \in Nat /\ a \in Nat
    <3>1. old[l] \in LatestAt(m)
      BY <1>1, <2>1 DEF Downwards
    <3> QED  BY <1>3, <3>1 DEF LatestAt
  <2>3. a <= old[l]
    BY <1>4, <2>1, <2>2
  <2>4. old[l] \in 1..n
    BY <2>2 DEF LatestAt
  <2>5. PICK b \in LatestAt(n) : old[l] <= b /\ messages[b].channel = messages[old[l]].channel
    BY <2>4, NewerRow
  <2>6. PICK k \in DOMAIN new : new[k] = b
    BY <1>1, <2>5 DEF Downwards
  <2>7. b \in Nat /\ ~(b < a)
    BY <2>2, <2>3, <2>5 DEF LatestAt
  <2>8. ~(i < k)
    BY <1>1, <2>6, <2>7 DEF Downwards, a, new
  <2>9. k \in 1..i
    BY <1>1, <1>2, <2>6, <2>8 DEF Downwards
  <2> QED  BY <2>5, <2>6, <2>9
<1>7. ASSUME NEW l \in 1..j, NEW r \in 1..j, NEW k \in 1..i, Same(l, k), Same(r, k)
      PROVE  l = r
  <2>1. l \in DOMAIN old /\ r \in DOMAIN old
    BY <1>1, <1>5 DEF Downwards
  <2>2. old[l] \in LatestAt(m) /\ old[r] \in LatestAt(m)
    BY <1>1, <2>1 DEF Downwards
  <2>3. messages[old[l]].channel = messages[old[r]].channel
    BY <1>7
  <2>4. ~(old[l] < old[r]) /\ ~(old[r] < old[l])
    BY <2>2, <2>3 DEF LatestAt
  <2>5. l \in Nat /\ r \in Nat
    BY <1>5
  <2>6. \A e, g \in DOMAIN old : e < g => old[g] < old[e]
    BY <1>1 DEF Downwards
  <2>7. ~(l < r) /\ ~(r < l)
    BY <2>1, <2>4, <2>6
  <2> QED  BY <2>5, <2>7
<1> DEFINE f == [l \in 1..j |-> CHOOSE k \in 1..i : Same(l, k)]
<1> HIDE DEF Same
<1>8. f \in [1..j -> 1..i] /\ \A l \in 1..j : Same(l, f[l])
  BY <1>6
<1> HIDE DEF f
<1>9. j <= i
  <2> SUFFICES ASSUME ~(j <= i)
               PROVE  FALSE
    OBVIOUS
  <2>1. /\ IsFiniteSet(1..j) /\ Cardinality(1..j) = j
        /\ IsFiniteSet(1..i) /\ Cardinality(1..i) = i
    BY <1>2, <1>5, FS_Interval
  <2>2. Cardinality(1..i) < Cardinality(1..j)
    BY <1>2, <1>5, <2>1
  <2>3. PICK l \in 1..j, r \in 1..j : l # r /\ f[l] = f[r]
    BY <1>8, <2>1, <2>2, FS_PigeonHole
  <2>4. f[l] \in 1..i /\ Same(l, f[l]) /\ Same(r, f[l])
    BY <1>8, <2>3
  <2> QED  BY <1>7, <2>3, <2>4
<1> QED  BY <1>4, <1>9 DEF old, new, a

(***************************************************************************)
(* What hooks rest on only grows.                                          *)
(***************************************************************************)
NoticeGrows ==
    /\ BoardGrows
    /\ undertaken \in [codex: SUBSET Nat, claude: SUBSET Nat]
    /\ undertaken.codex \subseteq undertaken'.codex
    /\ undertaken.claude \subseteq undertaken'.claude

LEMMA OldIds ==
  ASSUME BoardGrows, NEW id \in Ids
  PROVE  /\ id \in Ids' /\ messages'[id] = messages[id]
         /\ messages[id].channel \in Channels
         /\ IsRead(id) => IsRead(id)'
<1>1. /\ messages \in Seq(Requests) /\ Seat \in Seats
      /\ cursors \in [Seats -> [Channels -> Nat]] /\ cursors' \in [Seats -> [Channels -> Nat]]
      /\ \A c \in Channels : cursors[Seat][c] <= cursors'[Seat][c]
  BY InboxAssumption DEF BoardGrows
<1>2. id \in Ids' /\ messages'[id] = messages[id] /\ id \in Nat
  BY <1>1, IdsAreNat DEF BoardGrows, Grows
<1>3. messages[id].channel \in Channels
  BY <1>1, ChannelOf
<1> DEFINE c == messages[id].channel
<1>4. cursors[Seat][c] \in Nat /\ cursors'[Seat][c] \in Nat /\ cursors[Seat][c] <= cursors'[Seat][c]
  BY <1>1, <1>3
<1>5. id <= cursors[Seat][c] => id <= cursors'[Seat][c]
  BY <1>2, <1>4
<1> QED  BY <1>2, <1>3, <1>5 DEF IsRead

LEMMA OldInventory ==
  ASSUME BoardGrows, NEW m \in 0..Len(messages)
  PROVE  LatestAt(m)' = LatestAt(m) /\ InventoryAt(m)' = InventoryAt(m)
<1>1. Len(messages) \in Nat /\ \A id \in 1..m : id \in Ids
  BY DEF BoardGrows, Ids
<1>2. \A id \in 1..m : messages'[id] = messages[id]
  BY <1>1 DEF BoardGrows, Grows
<1>3. LatestAt(m)' = LatestAt(m)
  BY <1>2 DEF LatestAt
<1> QED  BY <1>3 DEF InventoryAt, Sorted

LEMMA CoveredStays ==
  ASSUME BoardGrows, NEW id \in Ids, NEW told1, NEW told2, told1 \subseteq told2,
         Covered(id, told1)
  PROVE  Covered(id, told2)'
<1>1. PICK k \in told1 : k \in In(messages[id].channel) /\ id <= k
  BY DEF Covered
<1>2. messages'[id] = messages[id]
  BY OldIds
<1>3. k \in In(messages[id].channel)'
  <2> DEFINE c == messages[id].channel
  <2>1. k \in In(c)
    BY <1>1
  <2> HIDE DEF c
  <2>2. k \in Ids' /\ messages'[k].channel = c
    BY <2>1, OldMessages DEF In
  <2> QED  BY <1>2, <2>2 DEF In, c
<1> QED  BY <1>1, <1>3 DEF Covered

LEMMA AnnouncedStays ==
  ASSUME NoticeGrows, NEW c \in Channels, NEW v, SeenOK(c, v)
  PROVE  SeenOK(c, v)'
<1>1. undertaken.claude \subseteq undertaken'.claude /\ In(c) \subseteq In(c)'
  BY OldMessages DEF NoticeGrows
<1> QED  BY <1>1 DEF SeenOK

LEMMA SeenStaysAnnounced ==
  ASSUME NoticeGrows, SeenIsAnnounced, seen' = seen
  PROVE  SeenIsAnnounced'
<1>1. ASSUME NEW c \in Channels
      PROVE  \E v : v = seen[c] /\ SeenOK(c, v)'
  <2>1. PICK v : v = seen[c]
    OBVIOUS
  <2>2. SeenOK(c, v)'
    BY <2>1, AnnouncedStays DEF SeenIsAnnounced
  <2> QED  BY <2>1, <2>2
<1> QED  BY <1>1 DEF SeenIsAnnounced, SeenOK

\* What a hook's state holds, by its stage.
LEMMA HookFields ==
  ASSUME NEW t \in HookStates
  PROVE  /\ t.stage \in {"off", "printing", "quiet", "asking", "recalled"}
         /\ t.stage \in {"quiet", "asking", "recalled"} =>
                t.rows \in Seq(Nat) /\ t.asked \in Nat
         /\ t.stage \in {"asking", "recalled"} => t.starting \in BOOLEAN /\ t.unread \in SUBSET Nat
         /\ t.stage = "recalled" => t.fresh \in SUBSET Nat /\ t.seen \in [Channels -> Nat]
<1>1. CASE t \in {Off, Printing}
  BY <1>1 DEF Off, Printing
<1>2. CASE t \in [stage: {"quiet"}, rows: Seq(Nat), asked: Nat]
  BY <1>2
<1>3. CASE t \in [stage: {"asking"}, starting: BOOLEAN, rows: Seq(Nat), asked: Nat,
                  unread: SUBSET Nat]
  BY <1>3
<1>4. CASE t \in [stage: {"recalled"}, starting: BOOLEAN, rows: Seq(Nat), asked: Nat,
                  unread: SUBSET Nat, fresh: SUBSET Nat, seen: [Channels -> Nat]]
  BY <1>4
<1> QED  BY <1>1, <1>2, <1>3, <1>4 DEF HookStates

\* The rows a hook asked about are messages.
LEMMA AskedRows ==
  ASSUME messages \in Seq(Requests), NEW t, t.asked \in Nat, AskedOK(t), NEW i \in 1..t.asked
  PROVE  i \in DOMAIN t.rows /\ t.rows[i] \in Ids
<1>1. PICK m \in 0..Len(messages) : t.rows = InventoryAt(m)
  BY DEF AskedOK
<1>2. Len(messages) \in Nat /\ m \in Nat
  OBVIOUS
<1>3. Downwards(t.rows, LatestAt(m))
  BY <1>1, <1>2, InventoryFacts
<1>4. i \in DOMAIN t.rows
  BY <1>3 DEF AskedOK, Downwards
<1>5. t.rows[i] \in LatestAt(m)
  BY <1>3, <1>4 DEF Downwards
<1> QED  BY <1>2, <1>4, <1>5 DEF LatestAt, Ids

LEMMA AskedStays ==
  ASSUME BoardGrows, NEW t, t.asked \in Nat, AskedOK(t)
  PROVE  AskedOK(t)' /\ (FoundOK(t) => FoundOK(t)')
<1>1. messages \in Seq(Requests) /\ Len(messages) \in Nat /\ Len(messages') \in Nat
      /\ Len(messages) <= Len(messages')
  BY DEF BoardGrows
<1>2. PICK m \in 0..Len(messages) : t.rows = InventoryAt(m)
  BY DEF AskedOK
<1>3. m \in 0..Len(messages') /\ InventoryAt(m)' = InventoryAt(m)
  BY <1>1, OldInventory
<1>4. AskedOK(t)'
  BY <1>2, <1>3 DEF AskedOK
<1>5. ASSUME NEW i \in 1..t.asked
      PROVE  IsRead(t.rows[i]) => IsRead(t.rows[i])'
  BY <1>1, AskedRows, OldIds
<1>6. FoundOK(t) => FoundOK(t)'
  BY <1>5 DEF FoundOK
<1> QED  BY <1>4, <1>6

LEMMA HookStays ==
  ASSUME NoticeGrows, NEW h, NEW t \in HookStates, HookOK(h, t)
  PROVE  HookOK(h, t)'
<1>1. /\ BoardGrows /\ messages \in Seq(Requests)
      /\ undertaken.codex \subseteq undertaken'.codex
      /\ undertaken.claude \subseteq undertaken'.claude
  BY DEF NoticeGrows, BoardGrows
<1>2. ASSUME t.stage = "asking"
      PROVE  AskedOK(t)' /\ FoundOK(t)'
  BY <1>1, <1>2, HookFields, AskedStays DEF HookOK
<1>3. ASSUME t.stage = "recalled"
      PROVE  /\ AskedOK(t)' /\ FoundOK(t)'
             /\ \A id \in t.unread : id \in t.fresh \/ Covered(id, undertaken.claude)'
             /\ \A c \in Channels : SeenOK(c, t.seen[c])'
  <2>1. t.asked \in Nat /\ AskedOK(t) /\ FoundOK(t)
    BY <1>3, HookFields DEF HookOK
  <2>2. AskedOK(t)' /\ FoundOK(t)'
    BY <1>1, <2>1, AskedStays
  <2>3. ASSUME NEW id \in t.unread, id \notin t.fresh
        PROVE  Covered(id, undertaken.claude)'
    <3>1. Covered(id, undertaken.claude)
      BY <1>3, <2>3 DEF HookOK
    <3>2. id \in Ids
      BY <1>1, <2>1, <2>3, AskedRows DEF FoundOK
    <3>3. PICK told1, told2 : told1 = undertaken.claude /\ told2 = undertaken'.claude
      OBVIOUS
    <3>4. Covered(id, told2)'
      BY <1>1, <3>1, <3>2, <3>3, CoveredStays
    <3> QED  BY <3>3, <3>4 DEF Covered
  <2>4. \A c \in Channels : SeenOK(c, t.seen[c])'
    BY <1>3, AnnouncedStays DEF HookOK
  <2> QED  BY <2>2, <2>3, <2>4
<1>4. ASSUME t.stage = "quiet"
      PROVE  /\ AskedOK(t)'
             /\ \A i \in 1..t.asked :
                    \/ IsRead(t.rows[i])'
                    \/ h \in CodexHooks /\ Covered(t.rows[i], undertaken.codex)'
                    \/ h \notin CodexHooks /\ Covered(t.rows[i], undertaken.claude)'
  <2>1. t.asked \in Nat /\ AskedOK(t)
    BY <1>4, HookFields DEF HookOK
  <2>2. AskedOK(t)'
    BY <1>1, <2>1, AskedStays
  <2>3. ASSUME NEW i \in 1..t.asked
        PROVE  \/ IsRead(t.rows[i])'
               \/ h \in CodexHooks /\ Covered(t.rows[i], undertaken.codex)'
               \/ h \notin CodexHooks /\ Covered(t.rows[i], undertaken.claude)'
    <3>1. PICK id \in Ids : id = t.rows[i]
      BY <1>1, <2>1, AskedRows
    <3>2. \/ IsRead(id)
          \/ h \in CodexHooks /\ Covered(id, undertaken.codex)
          \/ h \notin CodexHooks /\ Covered(id, undertaken.claude)
      BY <1>4, <3>1 DEF HookOK
    <3>3. IsRead(id) => IsRead(id)'
      BY <1>1, OldIds
    <3>4. ASSUME NEW told1, NEW told2, told1 \subseteq told2, Covered(id, told1)
          PROVE  Covered(id, told2)'
      BY <1>1, <3>4, CoveredStays
    <3>5. /\ Covered(id, undertaken.codex) => Covered(id, undertaken.codex)'
          /\ Covered(id, undertaken.claude) => Covered(id, undertaken.claude)'
      <4>1. PICK told1, told2 : told1 = undertaken.codex /\ told2 = undertaken'.codex
        OBVIOUS
      <4>2. PICK told3, told4 : told3 = undertaken.claude /\ told4 = undertaken'.claude
        OBVIOUS
      <4>3. Covered(id, told1) => Covered(id, told2)'
        BY <1>1, <3>4, <4>1
      <4>4. Covered(id, told3) => Covered(id, told4)'
        BY <1>1, <3>4, <4>2
      <4> QED  BY <4>1, <4>2, <4>3, <4>4 DEF Covered
    <3> QED  BY <3>1, <3>2, <3>3, <3>5
  <2> QED  BY <2>2, <2>3
<1> QED  BY <1>2, <1>3, <1>4 DEF HookOK

LEMMA FingerprintStays ==
  ASSUME NoticeGrows, FingerprintOK, fingerprint' = fingerprint
  PROVE  FingerprintOK'
<1>1. /\ BoardGrows /\ messages \in Seq(Requests) /\ undertaken.codex \subseteq undertaken'.codex
      /\ Len(messages) \in Nat /\ Len(messages') \in Nat /\ Len(messages) <= Len(messages')
  BY DEF NoticeGrows, BoardGrows
<1>2. ASSUME NEW m \in 1..Len(messages), MaxInspected < Len(InventoryAt(m)),
             NEW i \in 1..MaxInspected, IsRead(InventoryAt(m)[i])
      PROVE  IsRead(InventoryAt(m)[i])'
  <2>1. InventoryAt(m)[i] \in LatestAt(m)
    <3>1. Downwards(InventoryAt(m), LatestAt(m)) /\ MaxInspected \in Nat
      BY <1>1, InventoryFacts, NoticeAssumption
    <3>2. i \in DOMAIN InventoryAt(m)
      BY <1>2, <3>1 DEF Downwards
    <3> QED  BY <3>1, <3>2 DEF Downwards
  <2>2. InventoryAt(m)[i] \in Ids
    BY <1>1, <2>1 DEF LatestAt, Ids
  <2>3. PICK id \in Ids : id = InventoryAt(m)[i]
    BY <2>2
  <2>4. IsRead(id)'
    BY <1>1, <1>2, <2>3, OldIds
  <2>5. InventoryAt(m)' = InventoryAt(m)
    BY <1>1, OldInventory
  <2> QED  BY <2>3, <2>4, <2>5
<1>3. \A m \in 1..Len(messages) : m \in 1..Len(messages') /\ InventoryAt(m)' = InventoryAt(m)
  BY <1>1, OldInventory
<1> QED  BY <1>1, <1>2, <1>3 DEF FingerprintOK

(***************************************************************************)
(* The hooks' steps.                                                       *)
(***************************************************************************)
LEMMA InboxGrowsBoard ==
  ASSUME InboxInv, [InboxNext]_inboxVars
  PROVE  BoardGrows
<1>1. TypeOK
  BY DEF InboxInv
<1>2. CASE UNCHANGED vars
  BY <1>1, <1>2, SameBoardGrows
<1>3. ASSUME NEW r \in Requests, Arrive(r)
      PROVE  BoardGrows
  BY <1>1, <1>3, ArrivalGrows
<1>4. ASSUME NEW p \in Agents, Acknowledge(p)
      PROVE  BoardGrows
  <2>1. PICK t \in Tasks : task[p] = t
    BY TaskOf
  <2>2. t.op = "advance" /\ AdvanceCursor(Seat, t.channel, t.target) /\ UNCHANGED Rest
    BY <1>4, <2>1 DEF Acknowledge
  <2> QED  BY <1>1, <2>2, TaskFields, CursorMoves
<1>5. ASSUME NEW p \in Agents, NEW c \in Channels, NEW id, AdvanceUnread(p, c, id)
      PROVE  BoardGrows
  BY <1>1, <1>5, CursorMoves DEF AdvanceUnread
<1>6. ASSUME NEW p \in Agents,
             ReadCursor(p) \/ FetchPage(p) \/ AdvanceFrom(p) \/ Walk(p) \/ Fail(p) \/ Restart(p)
      PROVE  UNCHANGED vars
  BY <1>6 DEF ReadCursor, FetchPage, AdvanceFrom, Walk, Fail, Restart
<1>7. ASSUME NEW p \in Agents, NEW c \in Channels, NEW n \in Limits[p], StartRead(p, c, n)
      PROVE  UNCHANGED vars
  BY <1>7 DEF StartRead
<1>8. ASSUME NEW p \in Agents, NEW c \in Channels, NEW id \in 1..MaxMessages,
             StartAdvance(p, c, id)
      PROVE  UNCHANGED vars
  BY <1>8 DEF StartAdvance
<1>9. ASSUME NEW p \in Agents, NEW id \in 1..MaxMessages, NEW offset \in 0..2, Get(p, id, offset)
      PROVE  UNCHANGED vars
  BY <1>9 DEF Get
<1>10. UNCHANGED inboxVars => UNCHANGED vars
  BY DEF inboxVars
<1> QED  BY <1>2, <1>3, <1>4, <1>5, <1>6, <1>7, <1>8, <1>9, <1>10 DEF InboxNext

\* One hook moves to t; what the sessions hold is as they promise.
LEMMA HookKeeps ==
  ASSUME NoticeInv, NoticeGrows, NEW h \in Hooks, NEW t \in HookStates, HookOK(h, t)',
         hook' = [hook EXCEPT ![h] = t],
         fingerprint' \in Seq(Nat), FingerprintOK',
         undertaken' \in [codex: SUBSET Nat, claude: SUBSET Nat],
         seen' \in [Channels -> Nat], SeenIsAnnounced'
  PROVE  NoticeInv'
<1>1. hook \in [Hooks -> HookStates] /\ \A g \in Hooks : \A u \in HookStates :
          hook[g] = u => HookOK(g, u)
  BY DEF NoticeInv
<1>2. hook' \in [Hooks -> HookStates]
  BY <1>1
<1>3. ASSUME NEW g \in Hooks, NEW u \in HookStates, hook'[g] = u
      PROVE  HookOK(g, u)'
  <2>1. CASE g = h
    <3>1. u = t
      BY <1>1, <1>3, <2>1
    <3> QED  BY <2>1, <3>1
  <2>2. CASE g # h
    <3>1. hook[g] = u
      BY <1>1, <1>3, <2>2
    <3> QED  BY <1>1, <3>1, HookStays
  <2> QED  BY <2>1, <2>2
<1> QED  BY <1>2, <1>3 DEF NoticeInv

LEMMA OthersKeep ==
  ASSUME NoticeInv, BoardGrows, UNCHANGED <<hook, fingerprint, seen, undertaken>>
  PROVE  NoticeInv'
<1>1. NoticeGrows
  BY DEF NoticeGrows, NoticeInv
<1>2. FingerprintOK'
  BY <1>1, FingerprintStays DEF NoticeInv
<1>3. SeenIsAnnounced'
  BY <1>1, SeenStaysAnnounced DEF NoticeInv
<1>4. ASSUME NEW g \in Hooks, NEW u \in HookStates, hook'[g] = u
      PROVE  HookOK(g, u)'
  BY <1>1, <1>4, HookStays DEF NoticeInv
<1> QED  BY <1>2, <1>3, <1>4 DEF NoticeInv

\* A hook that reads or ends changes its own state only.
LEMMA QuietHookKeeps ==
  ASSUME NoticeInv, BoardGrows, NEW h \in Hooks, NEW t \in HookStates, HookOK(h, t)',
         hook' = [hook EXCEPT ![h] = t], UNCHANGED <<fingerprint, seen, undertaken>>
  PROVE  NoticeInv'
<1>1. NoticeGrows
  BY DEF NoticeGrows, NoticeInv
<1>2. FingerprintOK'
  BY <1>1, FingerprintStays DEF NoticeInv
<1>3. SeenIsAnnounced'
  BY <1>1, SeenStaysAnnounced DEF NoticeInv
<1>4. fingerprint' \in Seq(Nat) /\ seen' \in [Channels -> Nat]
      /\ undertaken' \in [codex: SUBSET Nat, claude: SUBSET Nat]
  BY DEF NoticeInv
<1> QED  BY <1>1, <1>2, <1>3, <1>4, HookKeeps

LEMMA HookOf ==
  ASSUME NoticeInv, NEW h \in Hooks
  PROVE  \E t \in HookStates : hook[h] = t /\ HookOK(h, t)
<1>1. hook[h] \in HookStates /\ \A t \in HookStates : hook[h] = t => HookOK(h, t)
  BY DEF NoticeInv
<1> QED  BY <1>1

LEMMA SilentIsOK ==
  ASSUME NEW h
  PROVE  /\ Off \in HookStates /\ HookOK(h, Off)'
         /\ Printing \in HookStates /\ HookOK(h, Printing)'
  BY DEF HookStates, HookOK, Off, Printing

LEMMA EndHookKeeps ==
  ASSUME InboxInv, NoticeInv, NEW h \in Hooks, EndHook(h)
  PROVE  NoticeInv'
<1>1. BoardGrows
  BY SameBoardGrows DEF InboxInv, EndHook, inboxVars
<1>2. hook' = [hook EXCEPT ![h] = Off] /\ UNCHANGED <<fingerprint, seen, undertaken>>
  BY DEF EndHook
<1> QED  BY <1>1, <1>2, SilentIsOK, QuietHookKeeps

\* The board, and with it every inventory, is as it was.
LEMMA StillAsked ==
  ASSUME InboxInv, UNCHANGED inboxVars
  PROVE  /\ BoardGrows
         /\ \A t : AskedOK(t)' <=> AskedOK(t)
         /\ \A t : FoundOK(t)' <=> FoundOK(t)
         /\ \A id : IsRead(id)' <=> IsRead(id)
         /\ \A m : InventoryAt(m)' = InventoryAt(m)
<1>1. messages' = messages /\ cursors' = cursors /\ BoardGrows
  BY SameBoardGrows DEF InboxInv, inboxVars, vars, posts
<1>2. \A m : InventoryAt(m)' = InventoryAt(m)
  BY <1>1 DEF InventoryAt, LatestAt, Sorted
<1>3. \A id : IsRead(id)' <=> IsRead(id)
  BY <1>1 DEF IsRead
<1> QED  BY <1>1, <1>2, <1>3 DEF AskedOK, FoundOK

LEMMA StartHookKeeps ==
  ASSUME InboxInv, NoticeInv, NEW h \in Hooks, StartHook(h)
  PROVE  NoticeInv'
<1>1. messages \in Seq(Requests) /\ Len(messages) \in Nat /\ MaxInspected \in Nat
  BY BoardFacts, NoticeAssumption DEF InboxInv
<1>2. PICK starting \in BOOLEAN : hook' = [hook EXCEPT ![h] = Asking(starting, Inventory, 0, {})]
  BY DEF StartHook
<1>3. UNCHANGED <<inboxVars, fingerprint, seen, undertaken>>
  BY DEF StartHook
<1> DEFINE rows == InventoryAt(Len(messages))
<1>4. PICK t : t = Asking(starting, rows, 0, {})
  OBVIOUS
<1>5. hook' = [hook EXCEPT ![h] = t]
  BY <1>1, <1>2, <1>4, InventoryIsCurrent
<1>6. rows \in Seq(Nat) /\ Len(rows) \in Nat
  BY <1>1, InventoryFacts DEF Downwards
<1>7. AskedOK(t)
  <2>1. \E m \in 0..Len(messages) : rows = InventoryAt(m)
    BY <1>1
  <2>2. t.rows = rows /\ t.asked = 0
    BY <1>4 DEF Asking
  <2> HIDE DEF rows
  <2> QED  BY <1>1, <1>6, <2>1, <2>2 DEF AskedOK
<1> HIDE DEF rows
<1>8. t \in HookStates
  BY <1>6, <1>4 DEF HookStates, Asking
<1>9. t.stage = "asking" /\ t.asked = 0 /\ t.unread = {}
  BY <1>4 DEF Asking
<1>10. FoundOK(t)
  BY <1>9 DEF FoundOK
<1>11. BoardGrows /\ AskedOK(t)' /\ FoundOK(t)'
  <2>1. UNCHANGED inboxVars
    BY <1>3
  <2> QED  BY <1>7, <1>10, <2>1, StillAsked
<1>12. HookOK(h, t)'
  BY <1>9, <1>11 DEF HookOK
<1> QED  BY <1>3, <1>5, <1>8, <1>11, <1>12, QuietHookKeeps

LEMMA AskCursorKeeps ==
  ASSUME InboxInv, NoticeInv, NEW h \in Hooks, AskCursor(h)
  PROVE  NoticeInv'
<1>1. PICK t \in HookStates : hook[h] = t /\ HookOK(h, t)
  BY HookOf
<1>2. t.stage = "asking" /\ t.asked < Min({Len(t.rows), MaxInspected})
  BY <1>1 DEF AskCursor, Inspected
<1>3. /\ t.rows \in Seq(Nat) /\ t.asked \in Nat /\ t.starting \in BOOLEAN
      /\ t.unread \in SUBSET Nat /\ AskedOK(t) /\ FoundOK(t)
  BY <1>1, <1>2, HookFields DEF HookOK
<1>4. t.asked + 1 \in Nat /\ t.asked + 1 <= Len(t.rows) /\ t.asked + 1 <= MaxInspected
      /\ t.asked + 1 \in DOMAIN t.rows
  <2>1. Len(t.rows) \in Nat /\ MaxInspected \in Nat /\ DOMAIN t.rows = 1..Len(t.rows)
    BY <1>3, NoticeAssumption
  <2>2. t.asked < Len(t.rows) /\ t.asked < MaxInspected
    BY <1>2, <1>3, <2>1, OfTwo
  <2> QED  BY <1>3, <2>1, <2>2
<1> DEFINE latest == t.rows[t.asked + 1]
           found == IF latest > cursors[Seat][messages[latest].channel]
                    THEN t.unread \cup {latest} ELSE t.unread
<1>5. PICK u : u = Asking(t.starting, t.rows, t.asked + 1, found)
  OBVIOUS
<1>6. hook' = [hook EXCEPT ![h] = u] /\ UNCHANGED <<inboxVars, fingerprint, seen, undertaken>>
  BY <1>1, <1>5 DEF AskCursor
<1>7. latest \in Nat
  BY <1>3, <1>4
<1>8. latest \in found \/ IsRead(latest)
  <2>1. latest \in Ids
    <3>1. messages \in Seq(Requests) /\ Len(messages) \in Nat
      BY BoardFacts DEF InboxInv
    <3>2. PICK m \in 0..Len(messages) : t.rows = InventoryAt(m)
      BY <1>3 DEF AskedOK
    <3>3. Downwards(t.rows, LatestAt(m))
      BY <3>1, <3>2, InventoryFacts
    <3>4. latest \in LatestAt(m)
      BY <1>4, <3>3 DEF Downwards
    <3> QED  BY <3>1, <3>4 DEF LatestAt, Ids
  <2>2. cursors[Seat][messages[latest].channel] \in Nat
    <3>1. TypeOK /\ messages \in Seq(Requests)
      BY BoardFacts DEF InboxInv
    <3> QED  BY <2>1, <3>1, BoardFacts, ChannelOf, InboxAssumption
  <2> QED  BY <1>7, <2>2 DEF IsRead
<1>9. found \in SUBSET Nat /\ \A id \in found : id \in t.unread \/ id = latest
  BY <1>3, <1>7
<1>10. t.unread \subseteq found
  OBVIOUS
<1> HIDE DEF latest, found
<1>11. u \in HookStates
  BY <1>3, <1>4, <1>9, <1>5 DEF HookStates, Asking
<1>12. u.stage = "asking" /\ u.rows = t.rows /\ u.asked = t.asked + 1 /\ u.unread = found
  BY <1>5 DEF Asking
<1>13. AskedOK(u)
  BY <1>3, <1>4, <1>12 DEF AskedOK
<1>14. FoundOK(u)
  <2>1. ASSUME NEW id \in found
        PROVE  \E i \in 1..(t.asked + 1) : id = t.rows[i]
    <3>1. CASE id = latest
      <4>1. t.asked + 1 \in 1..(t.asked + 1)
        BY <1>4
      <4> QED  BY <3>1, <4>1 DEF latest
    <3>2. CASE id \in t.unread
      <4>1. PICK i \in 1..t.asked : id = t.rows[i]
        BY <1>3, <3>2 DEF FoundOK
      <4>2. i \in 1..(t.asked + 1)
        BY <1>3
      <4> QED  BY <4>1, <4>2
    <3> QED  BY <1>9, <3>1, <3>2
  <2>2. ASSUME NEW i \in 1..(t.asked + 1)
        PROVE  t.rows[i] \in found \/ IsRead(t.rows[i])
    <3>1. CASE i = t.asked + 1
      BY <1>8, <3>1 DEF latest
    <3>2. CASE i # t.asked + 1
      <4>1. i \in 1..t.asked
        BY <1>3, <3>2
      <4> QED  BY <1>3, <1>10, <4>1 DEF FoundOK
    <3> QED  BY <3>1, <3>2
  <2> QED  BY <1>12, <2>1, <2>2 DEF FoundOK
<1>15. BoardGrows /\ AskedOK(u)' /\ FoundOK(u)'
  <2>1. UNCHANGED inboxVars
    BY <1>6
  <2> QED  BY <1>13, <1>14, <2>1, StillAsked
<1>16. HookOK(h, u)'
  BY <1>2, <1>12, <1>15 DEF HookOK
<1> QED  BY <1>6, <1>11, <1>15, <1>16, QuietHookKeeps

\* A hook that found what the fingerprint tells of may keep quiet.  The two
\* kinds of fingerprint are both lists of numbers and may be equal: a list of
\* two unread messages that reads as the inventory at m tells of messages that
\* were among the inspected ones at m, and were read.
LEMMA SameFinding ==
  ASSUME messages \in Seq(Requests), NEW t, t.asked \in Nat, AskedOK(t), FoundOK(t),
         FingerprintOK, fingerprint = Sorted(t.unread), NEW i \in 1..t.asked
  PROVE  IsRead(t.rows[i]) \/ Covered(t.rows[i], undertaken.codex)
<1> DEFINE a == t.rows[i]
<1>1. Len(messages) \in Nat /\ MaxInspected \in Nat
  BY NoticeAssumption
<1>2. i \in DOMAIN t.rows /\ a \in Ids /\ a \in Nat
  BY AskedRows, IdsAreNat
<1>3. t.unread \in SUBSET Nat /\ IsFiniteSet(t.unread)
  <2>1. t.unread \in SUBSET Ids
    BY AskedRows DEF FoundOK
  <2> QED  BY <2>1, IdsAreNat
<1>4. /\ \A j \in DOMAIN fingerprint : fingerprint[j] \in t.unread
      /\ \A j, k \in DOMAIN fingerprint : j < k => fingerprint[j] < fingerprint[k]
      /\ \A id \in t.unread : \E j \in DOMAIN fingerprint : fingerprint[j] = id
  BY <1>3, SortedFacts
<1>5. CASE a \notin t.unread
  BY <1>5 DEF FoundOK
<1>6. CASE a \in t.unread /\ \A j \in DOMAIN fingerprint : fingerprint[j] \in undertaken.codex
  <2>1. a \in undertaken.codex
    BY <1>4, <1>6
  <2>2. a \in In(messages[a].channel) /\ a <= a
    BY <1>2, ChannelOf
  <2> QED  BY <2>1, <2>2 DEF Covered
<1>7. CASE a \in t.unread /\ \E m \in 1..Len(messages) :
               /\ MaxInspected < Len(InventoryAt(m))
               /\ fingerprint = <<Len(InventoryAt(m)), m>>
               /\ \A j \in 1..MaxInspected : IsRead(InventoryAt(m)[j])
  <2>1. PICK m \in 1..Len(messages) :
               /\ MaxInspected < Len(InventoryAt(m))
               /\ fingerprint = <<Len(InventoryAt(m)), m>>
               /\ \A j \in 1..MaxInspected : IsRead(InventoryAt(m)[j])
    BY <1>7
  <2>2. m \in Nat /\ DOMAIN fingerprint = {1, 2} /\ fingerprint[2] = m
    BY <1>1, <2>1
  <2>3. m \in t.unread
    BY <1>4, <2>2
  <2>4. a <= m
    <3>1. PICK j \in {1, 2} : fingerprint[j] = a
      BY <1>4, <1>7, <2>2
    <3>2. j = 2 \/ fingerprint[j] < fingerprint[2]
      BY <1>4, <2>2
    <3> QED  BY <1>2, <2>2, <3>1, <3>2
  <2>5. PICK n \in 0..Len(messages) : t.rows = InventoryAt(n)
    BY DEF AskedOK
  <2>6. n \in Nat /\ m <= n
    <3>1. PICK k \in 1..t.asked : m = t.rows[k]
      BY <2>3 DEF FoundOK
    <3>2. k \in DOMAIN t.rows
      BY <3>1, AskedRows
    <3>3. n \in Nat
      BY <1>1
    <3>4. m \in LatestAt(n)
      BY <2>5, <3>1, <3>2, <3>3, InventoryFacts DEF Downwards
    <3> QED  BY <3>3, <3>4 DEF LatestAt
  <2>7. PICK j \in DOMAIN InventoryAt(m) : j <= i /\ InventoryAt(m)[j] = a
    BY <1>2, <2>2, <2>4, <2>5, <2>6, RowsSink
  <2>8. j \in 1..MaxInspected
    <3>1. i \in Nat /\ t.asked \in Nat /\ i <= t.asked /\ t.asked <= MaxInspected
      BY DEF AskedOK
    <3>2. j \in Nat /\ 1 <= j
      <4>1. Downwards(InventoryAt(m), LatestAt(m))
        BY <2>2, InventoryFacts
      <4>2. j \in 1..Len(InventoryAt(m)) /\ Len(InventoryAt(m)) \in Nat
        BY <2>7, <4>1 DEF Downwards
      <4> QED  BY <4>2
    <3> QED  BY <1>1, <2>7, <3>1, <3>2
  <2> QED  BY <2>1, <2>7, <2>8
<1> HIDE DEF a
<1> QED  BY <1>5, <1>6, <1>7 DEF FingerprintOK, a

\* A hook that has nothing new to say falls quiet.
LEMMA QuietKeeps ==
  ASSUME InboxInv, NoticeInv, NEW h \in Hooks, NEW t \in HookStates, hook[h] = t,
         t.stage \in {"asking", "recalled"}, AskedOK(t),
         \A i \in 1..t.asked :
             \/ IsRead(t.rows[i])
             \/ h \in CodexHooks /\ Covered(t.rows[i], undertaken.codex)
             \/ h \notin CodexHooks /\ Covered(t.rows[i], undertaken.claude),
         hook' = [hook EXCEPT ![h] = Quiet(t)],
         UNCHANGED inboxVars, UNCHANGED <<fingerprint, seen, undertaken>>
  PROVE  NoticeInv'
<1>1. PICK u : u = Quiet(t)
  OBVIOUS
<1>2. u \in HookStates
  BY <1>1, HookFields DEF HookStates, Quiet
<1>3. u.stage = "quiet" /\ u.rows = t.rows /\ u.asked = t.asked
  BY <1>1 DEF Quiet
<1>4. HookOK(h, u)
  BY <1>3 DEF HookOK, AskedOK
<1>5. BoardGrows
  BY StillAsked
<1>6. HookOK(h, u)'
  <2>1. NoticeGrows
    BY <1>5 DEF NoticeGrows, NoticeInv
  <2> QED  BY <1>2, <1>4, <2>1, HookStays
<1> QED  BY <1>1, <1>2, <1>5, <1>6, QuietHookKeeps

LEMMA CodexDecideKeeps ==
  ASSUME InboxInv, NoticeInv, NEW h \in Hooks, CodexDecide(h)
  PROVE  NoticeInv'
<1>1. PICK t \in HookStates : hook[h] = t /\ HookOK(h, t)
  BY HookOf
<1>2. /\ h \in CodexHooks /\ t.stage = "asking"
      /\ t.asked = Min({Len(t.rows), MaxInspected})
      /\ UNCHANGED inboxVars /\ seen' = seen
  BY <1>1 DEF CodexDecide, Inspected
<1>3. /\ t.rows \in Seq(Nat) /\ Len(t.rows) \in Nat /\ t.asked \in Nat
      /\ t.unread \in SUBSET Nat /\ AskedOK(t) /\ FoundOK(t)
  BY <1>1, <1>2, HookFields DEF HookOK
<1>4. /\ messages \in Seq(Requests) /\ Len(messages) \in Nat /\ FingerprintOK
      /\ MaxInspected \in Nat \ {0}
  BY BoardFacts, NoticeAssumption DEF InboxInv, NoticeInv
<1>5. /\ undertaken \in [codex: SUBSET Nat, claude: SUBSET Nat]
      /\ seen \in [Channels -> Nat] /\ SeenIsAnnounced
  BY DEF NoticeInv
<1> DEFINE finding == IF t.unread # {} THEN Sorted(t.unread)
                      ELSE IF Len(t.rows) > MaxInspected THEN <<Len(t.rows), t.rows[1]>>
                      ELSE <<>>
<1>6. CodexFinding(h) = finding
  BY <1>1 DEF CodexFinding
<1>7. t.unread \in SUBSET Ids /\ IsFiniteSet(t.unread)
  <2>1. t.unread \in SUBSET Ids
    BY <1>3, <1>4, AskedRows DEF FoundOK
  <2> QED  BY <1>4, <2>1, IdsAreNat
<1>8. /\ Sorted(t.unread) \in Seq(Nat) /\ (t.unread # {} => Sorted(t.unread) # <<>>)
      /\ \A i \in DOMAIN Sorted(t.unread) : Sorted(t.unread)[i] \in t.unread
  <2>1. /\ Sorted(t.unread) \in Seq(t.unread)
        /\ \A i \in DOMAIN Sorted(t.unread) : Sorted(t.unread)[i] \in t.unread
        /\ \A id \in t.unread : \E i \in DOMAIN Sorted(t.unread) : Sorted(t.unread)[i] = id
    BY <1>3, <1>7, SortedFacts
  <2>2. Sorted(t.unread) \in Seq(Nat)
    BY <1>3, <2>1, SeqMonotonic
  <2> QED  BY <2>1, <2>2
<1>9. BoardGrows
  BY <1>2, StillAsked
<1>10. CASE finding \in {<<>>, fingerprint}
  <2>1. hook' = [hook EXCEPT ![h] = Quiet(t)] /\ UNCHANGED <<fingerprint, undertaken>>
    BY <1>1, <1>6, <1>10 DEF CodexDecide
  <2>2. ASSUME NEW i \in 1..t.asked
        PROVE  IsRead(t.rows[i]) \/ Covered(t.rows[i], undertaken.codex)
    <3>1. CASE t.unread = {}
      BY <1>3, <3>1 DEF FoundOK
    <3>2. CASE t.unread # {}
      <4>1. fingerprint = Sorted(t.unread)
        BY <1>8, <1>10, <3>2
      <4> QED  BY <1>3, <1>4, <4>1, SameFinding
    <3> QED  BY <3>1, <3>2
  <2> HIDE DEF finding
  <2> QED  BY <1>1, <1>2, <1>3, <2>1, <2>2, QuietKeeps
<1>11. CASE finding \notin {<<>>, fingerprint}
  <2>1. /\ hook' = [hook EXCEPT ![h] = Printing] /\ fingerprint' = finding
        /\ undertaken' = [undertaken EXCEPT !.codex = @ \cup t.unread]
    BY <1>1, <1>6, <1>11 DEF CodexDecide
  <2>2. /\ undertaken' \in [codex: SUBSET Nat, claude: SUBSET Nat]
        /\ undertaken'.codex = undertaken.codex \cup t.unread
        /\ undertaken'.claude = undertaken.claude
    BY <1>3, <1>5, <2>1
  <2>3. NoticeGrows
    BY <1>5, <1>9, <2>2 DEF NoticeGrows
  <2>4. CASE t.unread # {}
    <3>1. fingerprint' = Sorted(t.unread)
      BY <2>1, <2>4
    <3>2. \A i \in DOMAIN fingerprint' : fingerprint'[i] \in undertaken'.codex
      BY <1>8, <2>2, <3>1
    <3>3. fingerprint' \in Seq(Nat) /\ FingerprintOK'
      BY <1>8, <3>1, <3>2 DEF FingerprintOK
    <3> QED  BY <1>2, <1>5, <2>1, <2>2, <2>3, <3>3, SeenStaysAnnounced, SilentIsOK, HookKeeps
  <2>5. CASE t.unread = {}
    <3>1. fingerprint' = <<Len(t.rows), t.rows[1]>> /\ Len(t.rows) > MaxInspected
      BY <1>11, <2>1, <2>5
    <3>2. PICK m \in 0..Len(messages) : t.rows = InventoryAt(m)
      BY <1>3 DEF AskedOK
    <3>3. t.asked = MaxInspected
      <4>1. Min({Len(t.rows), MaxInspected})
                = IF Len(t.rows) <= MaxInspected THEN Len(t.rows) ELSE MaxInspected
        BY <1>3, <1>4, OfTwo
      <4>2. ~(Len(t.rows) <= MaxInspected)
        BY <1>3, <1>4, <3>1
      <4> QED  BY ONLY <1>2, <4>1, <4>2
    <3>4. m \in 1..Len(messages) /\ m \in Nat \ {0}
      <4>1. m \in Nat
        BY <1>4
      <4>2. 1 \in DOMAIN t.rows
        BY <1>3, <1>4, <3>1
      <4>3. t.rows[1] \in LatestAt(m)
        BY <3>2, <4>1, <4>2, InventoryFacts DEF Downwards
      <4>4. m # 0
        BY <4>1, <4>3 DEF LatestAt
      <4> QED  BY <1>4, <4>1, <4>4
    <3>5. t.rows[1] = m
      BY <3>2, <3>4, TopRow
    <3>6. \A i \in 1..MaxInspected : IsRead(InventoryAt(m)[i])
      BY <1>3, <2>5, <3>2, <3>3 DEF FoundOK
    <3>7. fingerprint' \in Seq(Nat)
      BY <1>3, <3>1, <3>4, <3>5
    <3>8. FingerprintOK'
      <4>1. /\ \A id : IsRead(id)' <=> IsRead(id)
            /\ InventoryAt(m)' = InventoryAt(m)
        BY <1>2, StillAsked
      <4>2. m \in 1..Len(messages')
        BY <1>2, <3>4 DEF inboxVars, vars, posts
      <4>3. ASSUME NEW i \in 1..MaxInspected
            PROVE  IsRead(InventoryAt(m)[i])'
        <5>1. PICK id : id = InventoryAt(m)[i]
          OBVIOUS
        <5>2. IsRead(id)'
          BY <3>6, <4>1, <5>1
        <5>3. InventoryAt(m)'[i] = id
          BY <4>1, <5>1
        <5> QED  BY <5>2, <5>3
      <4>4. MaxInspected < Len(InventoryAt(m)') /\ fingerprint' = <<Len(InventoryAt(m)'), m>>
        BY <1>3, <1>4, <3>1, <3>2, <3>5, <4>1
      <4> QED  BY <4>2, <4>3, <4>4 DEF FingerprintOK
    <3> QED  BY <1>2, <1>5, <2>1, <2>2, <2>3, <3>7, <3>8, SeenStaysAnnounced, SilentIsOK,
                HookKeeps
  <2> QED  BY <2>4, <2>5
<1> HIDE DEF finding
<1> QED  BY <1>10, <1>11

LEMMA RecallKeeps ==
  ASSUME InboxInv, NoticeInv, NEW h \in Hooks, Recall(h)
  PROVE  NoticeInv'
<1>1. PICK t \in HookStates : hook[h] = t /\ HookOK(h, t)
  BY HookOf
<1>2. /\ h \notin CodexHooks /\ t.stage = "asking"
      /\ UNCHANGED inboxVars /\ UNCHANGED <<fingerprint, seen, undertaken>>
  BY <1>1 DEF Recall
<1>3. /\ t.rows \in Seq(Nat) /\ t.asked \in Nat /\ t.starting \in BOOLEAN
      /\ t.unread \in SUBSET Nat /\ AskedOK(t) /\ FoundOK(t)
  BY <1>1, <1>2, HookFields DEF HookOK
<1>4. /\ messages \in Seq(Requests) /\ seen \in [Channels -> Nat] /\ SeenIsAnnounced
  BY BoardFacts DEF InboxInv, NoticeInv
<1> DEFINE fresh == {id \in t.unread : id > seen[messages[id].channel]}
<1>5. PICK u : u = [stage |-> "recalled", starting |-> t.starting, rows |-> t.rows,
                    asked |-> t.asked, unread |-> t.unread, fresh |-> fresh, seen |-> seen]
  OBVIOUS
<1>6. hook' = [hook EXCEPT ![h] = u]
  BY <1>1, <1>5 DEF Recall
<1>7. u \in HookStates
  BY <1>3, <1>4, <1>5 DEF HookStates
<1>8. /\ u.stage = "recalled" /\ u.rows = t.rows /\ u.asked = t.asked /\ u.unread = t.unread
      /\ u.fresh = fresh /\ u.seen = seen
  BY <1>5
<1>9. ASSUME NEW id \in t.unread, id \notin fresh
      PROVE  Covered(id, undertaken.claude)
  <2> DEFINE c == messages[id].channel
  <2>1. id \in Ids /\ id \in Nat /\ id # 0
    BY <1>3, <1>4, AskedRows, IdsAreNat DEF FoundOK
  <2>2. c \in Channels /\ seen[c] \in Nat
    BY <1>4, <2>1, ChannelOf
  <2>3. id <= seen[c] /\ seen[c] # 0
    BY <1>9, <2>1, <2>2
  <2>4. PICK k \in undertaken.claude : k \in In(c) /\ seen[c] <= k
    BY <1>4, <2>2, <2>3 DEF SeenIsAnnounced, SeenOK
  <2>5. id <= k
    BY <1>4, <2>1, <2>2, <2>3, <2>4, IdsAreNat
  <2> QED  BY <2>4, <2>5 DEF Covered
<1>10. AskedOK(u) /\ FoundOK(u)
  BY <1>3, <1>8 DEF AskedOK, FoundOK
<1>11. fresh \subseteq t.unread
  OBVIOUS
<1> HIDE DEF fresh
<1>12. HookOK(h, u)
  BY <1>2, <1>4, <1>8, <1>9, <1>10, <1>11 DEF HookOK, SeenIsAnnounced
<1>13. BoardGrows
  BY <1>2, StillAsked
<1>14. HookOK(h, u)'
  <2>1. NoticeGrows
    BY <1>2, <1>13 DEF NoticeGrows, NoticeInv
  <2> QED  BY <1>7, <1>12, <2>1, HookStays
<1> QED  BY <1>2, <1>6, <1>7, <1>13, <1>14, QuietHookKeeps

\* A hook prints, and a row that was announced may be noted as seen.
LEMMA AnnouncesKeeps ==
  ASSUME InboxInv, NoticeInv, NEW h \in Hooks, NEW announced \in SUBSET Nat,
         UNCHANGED inboxVars, fingerprint' = fingerprint,
         hook' = [hook EXCEPT ![h] = Printing],
         undertaken' = [undertaken EXCEPT !.claude = @ \cup announced],
         seen' \in [Channels -> Nat],
         \A c \in Channels : \/ SeenOK(c, seen'[c])
                             \/ seen'[c] \in announced /\ seen'[c] \in In(c)
  PROVE  NoticeInv'
<1>1. /\ undertaken \in [codex: SUBSET Nat, claude: SUBSET Nat]
      /\ fingerprint \in Seq(Nat) /\ FingerprintOK
  BY DEF NoticeInv
<1>2. /\ undertaken' \in [codex: SUBSET Nat, claude: SUBSET Nat]
      /\ undertaken'.codex = undertaken.codex
      /\ undertaken'.claude = undertaken.claude \cup announced
  BY <1>1
<1>3. BoardGrows
  BY StillAsked
<1>4. NoticeGrows
  BY <1>1, <1>2, <1>3 DEF NoticeGrows
<1>5. ASSUME NEW c \in Channels
      PROVE  \E v : v = seen'[c] /\ SeenOK(c, v)'
  <2>1. PICK v : v = seen'[c]
    OBVIOUS
  <2>2. CASE SeenOK(c, v)
    BY <1>4, <2>1, <2>2, AnnouncedStays
  <2>3. CASE v \in announced /\ v \in In(c)
    <3>1. v \in In(c)' /\ v \in undertaken'.claude
      BY <1>2, <1>3, <2>3, OldMessages
    <3>2. v <= v
      <4>1. v \in Nat
        BY <2>3
      <4> QED  BY <4>1
    <3> QED  BY <2>1, <3>1, <3>2 DEF SeenOK
  <2> QED  BY <2>1, <2>2, <2>3
<1>6. SeenIsAnnounced'
  BY <1>5 DEF SeenIsAnnounced, SeenOK
<1>7. FingerprintOK'
  BY <1>1, <1>4, FingerprintStays
<1> QED  BY <1>1, <1>2, <1>4, <1>6, <1>7, SilentIsOK, HookKeeps

LEMMA RememberKeeps ==
  ASSUME InboxInv, NoticeInv, NEW h \in Hooks, Remember(h)
  PROVE  NoticeInv'
<1>1. PICK t \in HookStates : hook[h] = t /\ HookOK(h, t)
  BY HookOf
<1>2. t.stage = "recalled" /\ UNCHANGED inboxVars /\ fingerprint' = fingerprint
  BY <1>1 DEF Remember
<1>3. /\ t.rows \in Seq(Nat) /\ t.asked \in Nat /\ t.starting \in BOOLEAN
      /\ t.unread \in SUBSET Nat /\ t.fresh \in SUBSET Nat /\ t.seen \in [Channels -> Nat]
  BY <1>2, HookFields
<1>4. /\ h \notin CodexHooks /\ AskedOK(t) /\ FoundOK(t) /\ t.fresh \subseteq t.unread
      /\ \A id \in t.unread : id \in t.fresh \/ Covered(id, undertaken.claude)
      /\ \A c \in Channels : SeenOK(c, t.seen[c])
  BY <1>1, <1>2 DEF HookOK
<1>5. /\ seen \in [Channels -> Nat] /\ \A c \in Channels : SeenOK(c, seen[c])
  BY DEF NoticeInv, SeenIsAnnounced
<1>6. ASSUME NEW ids \in SUBSET Nat, ids \subseteq t.unread, t.fresh \subseteq ids,
             Announces(h, ids), seen' \in [Channels -> Nat],
             \A c \in Channels : \/ SeenOK(c, seen'[c])
                                 \/ seen'[c] \in ids /\ seen'[c] \in In(c),
             ids = {} => seen' = seen
      PROVE  NoticeInv'
  <2>1. CASE ids # {} \/ t.starting
    <3> DEFINE announced == IF t.starting THEN t.unread ELSE ids
    <3>1. /\ hook' = [hook EXCEPT ![h] = Printing]
          /\ undertaken' = [undertaken EXCEPT !.claude = @ \cup announced]
      BY <1>1, <1>6, <2>1 DEF Announces
    <3>2. announced \in SUBSET Nat /\ ids \subseteq announced
      BY <1>3, <1>6
    <3>3. \A c \in Channels : \/ SeenOK(c, seen'[c])
                              \/ seen'[c] \in announced /\ seen'[c] \in In(c)
      BY <1>6, <3>2
    <3> HIDE DEF announced
    <3> QED  BY <1>2, <1>6, <3>1, <3>2, <3>3, AnnouncesKeeps
  <2>2. CASE ~(ids # {} \/ t.starting)
    <3>1. hook' = [hook EXCEPT ![h] = Quiet(t)] /\ undertaken' = undertaken /\ seen' = seen
      BY <1>1, <1>6, <2>2 DEF Announces
    <3>2. \A i \in 1..t.asked : IsRead(t.rows[i]) \/ Covered(t.rows[i], undertaken.claude)
      BY <1>4, <1>6, <2>2 DEF FoundOK
    <3> QED  BY <1>1, <1>2, <1>4, <3>1, <3>2, QuietKeeps
  <2> QED  BY <2>1, <2>2
<1> DEFINE newest(c) == {id \in t.fresh : messages[id].channel = c}
           latest(c) == Largest(newest(c), t.seen[c])
<1>7. CASE Announces(h, t.unread) /\ seen' = seen
  BY <1>3, <1>4, <1>5, <1>6, <1>7
<1>8. CASE /\ seen' = IF t.fresh = {} THEN seen ELSE [c \in Channels |-> latest(c)]
           /\ Announces(h, t.fresh)
  <2>1. ASSUME NEW c \in Channels
        PROVE  /\ latest(c) \in Nat
               /\ \/ SeenOK(c, latest(c))
                  \/ latest(c) \in t.fresh /\ latest(c) \in In(c)
    <3>1. CASE newest(c) = {}
      <4>1. latest(c) = t.seen[c]
        BY <3>1 DEF Largest
      <4>2. t.seen[c] \in Nat /\ SeenOK(c, t.seen[c])
        BY <1>3, <1>4
      <4> HIDE DEF latest
      <4> QED  BY <4>1, <4>2
    <3>2. CASE newest(c) # {}
      <4>1. messages \in Seq(Requests) /\ Len(messages) \in Nat
        BY BoardFacts DEF InboxInv
      <4>2. \A id \in newest(c) : id \in Ids
        BY <1>3, <1>4, <4>1, AskedRows DEF FoundOK
      <4>3. newest(c) \in SUBSET Nat /\ \A id \in newest(c) : id <= Len(messages)
        BY <4>1, <4>2 DEF Ids
      <4>4. \E id \in newest(c) : \A k \in newest(c) : k <= id
        BY <3>2, <4>1, <4>3, HasLargest
      <4>5. latest(c) \in newest(c)
        BY <3>2, <4>4 DEF Largest
      <4>6. latest(c) \in t.fresh /\ messages[latest(c)].channel = c /\ latest(c) \in Ids
        BY <4>2, <4>5
      <4> QED  BY <1>3, <4>6 DEF In
    <3> QED  BY <3>1, <3>2
  <2> HIDE DEF latest
  <2>2. seen' \in [Channels -> Nat]
    BY <1>5, <1>8, <2>1
  <2>3. \A c \in Channels : \/ SeenOK(c, seen'[c])
                            \/ seen'[c] \in t.fresh /\ seen'[c] \in In(c)
    BY <1>5, <1>8, <2>1
  <2> QED  BY <1>3, <1>4, <1>6, <1>8, <2>2, <2>3
<1> QED  BY <1>1, <1>7, <1>8 DEF Remember

LEMMA NoticeStep ==
  ASSUME InboxInv, NoticeInv, [NoticeNext]_noticeVars
  PROVE  NoticeInv'
<1>1. CASE InboxNext /\ UNCHANGED hooks
  <2>1. BoardGrows
    BY <1>1, InboxGrowsBoard
  <2> QED  BY <1>1, <2>1, OthersKeep DEF hooks
<1>2. CASE UNCHANGED noticeVars
  <2>1. UNCHANGED inboxVars /\ UNCHANGED <<hook, fingerprint, seen, undertaken>>
    BY <1>2 DEF noticeVars, hooks
  <2>2. BoardGrows
    BY <2>1, InboxGrowsBoard
  <2> QED  BY <2>1, <2>2, OthersKeep
<1>3. ASSUME NEW h \in Hooks,
             \/ StartHook(h) \/ AskCursor(h) \/ CodexDecide(h)
             \/ Recall(h) \/ Remember(h) \/ EndHook(h)
      PROVE  NoticeInv'
  BY <1>3, StartHookKeeps, AskCursorKeeps, CodexDecideKeeps, RecallKeeps, RememberKeeps,
     EndHookKeeps
<1> QED  BY <1>1, <1>2, <1>3 DEF NoticeNext

LEMMA NoticeInvariant == NoticeSpec => [](InboxInv /\ NoticeInv)
<1>1. NoticeInit => InboxInv /\ NoticeInv
  <2> SUFFICES ASSUME NoticeInit
               PROVE  InboxInv /\ NoticeInv
    OBVIOUS
  <2>1. InboxInv
    BY InboxStarts DEF NoticeInit
  <2>2. /\ hook = [h \in Hooks |-> Off] /\ fingerprint = <<>> /\ seen = Nothing
        /\ undertaken = [codex |-> {}, claude |-> {}]
    BY DEF NoticeInit
  <2>3. hook \in [Hooks -> HookStates] /\ \A h \in Hooks : hook[h] = Off
    BY <2>2 DEF HookStates
  <2>4. \A h \in Hooks : HookOK(h, Off)
    BY DEF HookOK, Off
  <2>5. FingerprintOK /\ fingerprint \in Seq(Nat)
    BY <2>2 DEF FingerprintOK
  <2>6. SeenIsAnnounced /\ seen \in [Channels -> Nat]
    BY <2>2 DEF SeenIsAnnounced, SeenOK, Nothing
  <2>7. undertaken \in [codex: SUBSET Nat, claude: SUBSET Nat]
    BY <2>2
  <2> QED  BY <2>1, <2>3, <2>4, <2>5, <2>6, <2>7 DEF NoticeInv
<1>2. InboxInv /\ NoticeInv /\ [NoticeNext]_noticeVars => (InboxInv /\ NoticeInv)'
  <2> SUFFICES ASSUME InboxInv, NoticeInv, [NoticeNext]_noticeVars
               PROVE  InboxInv' /\ NoticeInv'
    OBVIOUS
  <2>1. [InboxNext]_inboxVars
    <3>1. ASSUME NEW h \in Hooks,
                 \/ StartHook(h) \/ AskCursor(h) \/ CodexDecide(h)
                 \/ Recall(h) \/ Remember(h) \/ EndHook(h)
          PROVE  UNCHANGED inboxVars
      BY <3>1 DEF StartHook, AskCursor, CodexDecide, Recall, Remember, EndHook
    <3> QED  BY <3>1 DEF NoticeNext, noticeVars
  <2> QED  BY <2>1, InboxStep, NoticeStep
<1> QED  BY <1>1, <1>2, PTL DEF NoticeSpec

\* A notice hook that keeps quiet swallows nothing, for any hooks running at
\* once, any inventory and any limit of inspected channels: what is unread of a
\* channel it asked for is covered by a notice a hook of its session set out to
\* print (notice.py and wire_notice.py).
THEOREM QuietHooksSwallowNothing == NoticeSpec => []QuietSwallowsNothing
<1>1. ASSUME InboxInv, NoticeInv
      PROVE  QuietSwallowsNothing
  <2> SUFFICES ASSUME NEW h \in Hooks, hook[h].stage = "quiet", NEW i \in 1..hook[h].asked,
                      NEW id \in In(messages[hook[h].rows[i]].channel),
                      cursors[Seat][messages[hook[h].rows[i]].channel] < id,
                      id <= hook[h].rows[i]
               PROVE  \E k \in undertaken[IF h \in CodexHooks THEN "codex" ELSE "claude"]
                               \cap In(messages[hook[h].rows[i]].channel) : id <= k
    BY DEF QuietSwallowsNothing
  <2>1. PICK t \in HookStates : hook[h] = t /\ HookOK(h, t)
    BY <1>1, HookOf
  <2>2. PICK latest : latest = t.rows[i]
    OBVIOUS
  <2> DEFINE c == messages[latest].channel
  <2>3. id \in In(c) /\ cursors[Seat][c] < id /\ id <= latest /\ i \in 1..t.asked
    BY <2>1, <2>2
  <2>4. /\ t.asked \in Nat /\ AskedOK(t)
        /\ \/ IsRead(latest)
           \/ h \in CodexHooks /\ Covered(latest, undertaken.codex)
           \/ h \notin CodexHooks /\ Covered(latest, undertaken.claude)
    BY <2>1, <2>2, <2>3, HookFields DEF HookOK
  <2>5. /\ TypeOK /\ messages \in Seq(Requests)
        /\ cursors \in [Seats -> [Channels -> Nat]] /\ Seat \in Seats
    BY <1>1, BoardFacts, InboxAssumption DEF InboxInv
  <2>6. latest \in Ids /\ latest \in Nat /\ id \in Nat
    BY <2>2, <2>3, <2>4, <2>5, AskedRows, IdsAreNat
  <2>7. c \in Channels /\ cursors[Seat][c] \in Nat
    BY <2>5, <2>6, ChannelOf
  <2>8. ~IsRead(latest)
    BY <2>3, <2>6, <2>7 DEF IsRead
  <2>9. PICK announced : /\ announced = undertaken[IF h \in CodexHooks THEN "codex" ELSE "claude"]
                         /\ Covered(latest, announced)
    BY <2>4, <2>8
  <2>10. PICK k \in announced : k \in In(c) /\ latest <= k
    BY <2>9 DEF Covered
  <2>11. id <= k
    BY <2>3, <2>5, <2>6, <2>10, IdsAreNat
  <2> QED  BY <2>1, <2>2, <2>9, <2>10, <2>11
<1> QED  BY <1>1, NoticeInvariant, PTL
================================================================================
