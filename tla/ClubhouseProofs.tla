---------------------------- MODULE ClubhouseProofs ----------------------------
(***************************************************************************)
(* Theorems about Clubhouse, for any channels, page sizes, limits and      *)
(* lengths of the board: what a channel shows is in order, what it passed  *)
(* over lies before an own post, and the window goes on refreshing.        *)
(***************************************************************************)
EXTENDS Clubhouse, FiniteSetTheorems, SequenceTheorems, TLAPS

Jobs == [kind: {"refresh", "post"}, channel: Channels, cursor: Nat,
         loaded: Seq(Nat), done: BOOLEAN]

Messages == [channel: Channels, own: BOOLEAN]

(***************************************************************************)
(* What a channel may show: its messages, in order, with gaps only before  *)
(* own posts.                                                              *)
(***************************************************************************)
Good(w, c) ==
    /\ w \in Seq(Nat)
    /\ \A i \in DOMAIN w : w[i] \in In(c)
    /\ \A i, j \in DOMAIN w : i < j => w[i] < w[j]
    /\ \A i \in DOMAIN w :
           \/ board[w[i]].own
           \/ \A id \in In(c) : id < w[i] => i > 1 /\ id <= w[i - 1]

\* What goes on after start: messages above it, in order, without a gap.
Continues(page, start, c) ==
    /\ page \in Seq(Nat)
    /\ \A i \in DOMAIN page : page[i] \in In(c) /\ page[i] > start
    /\ \A i, j \in DOMAIN page : i < j => page[i] < page[j]
    /\ \A i \in DOMAIN page :
           \/ board[page[i]].own
           \/ \A id \in In(c) :
                  start < id /\ id < page[i] => i > 1 /\ id <= page[i - 1]

LEMMA IdsAreNat ==
  ASSUME board \in Seq(Messages)
  PROVE  /\ Len(board) \in Nat /\ Ids \subseteq Nat \ {0}
         /\ \A c : In(c) \subseteq Ids
  BY DEF Ids, In

LEMMA LastIsHighest ==
  ASSUME board \in Seq(Messages), NEW w, NEW c, Good(w, c)
  PROVE  /\ LastOf(w) \in Nat /\ LastOf(w) \in Ids \cup {0}
         /\ \A i \in DOMAIN w : w[i] <= LastOf(w)
         /\ w # <<>> => LastOf(w) = w[Len(w)] /\ Len(w) \in DOMAIN w
<1>1. w \in Seq(Nat) /\ Len(w) \in Nat /\ DOMAIN w = 1..Len(w)
  BY DEF Good
<1>2. CASE w = <<>>
  BY <1>1, <1>2 DEF LastOf
<1>3. CASE w # <<>>
  <2>1. LastOf(w) = w[Len(w)] /\ Len(w) \in DOMAIN w
    BY <1>1, <1>3 DEF LastOf
  <2>2. w[Len(w)] \in Nat /\ w[Len(w)] \in Ids
    BY <1>1, <2>1, IdsAreNat DEF Good
  <2>3. ASSUME NEW i \in DOMAIN w
        PROVE  w[i] <= w[Len(w)]
    <3>1. w[i] \in Nat /\ i \in Nat /\ (i < Len(w) \/ i = Len(w))
      BY <1>1
    <3>2. i < Len(w) => w[i] < w[Len(w)]
      BY <2>1 DEF Good
    <3> QED  BY <2>2, <3>1, <3>2
  <2> QED  BY <2>1, <2>2, <2>3
<1> QED  BY <1>2, <1>3

LEMMA JoinAt ==
  ASSUME NEW w \in Seq(Nat), NEW page \in Seq(Nat)
  PROVE  /\ w \o page \in Seq(Nat) /\ Len(w \o page) = Len(w) + Len(page)
         /\ \A i \in DOMAIN w : i \in DOMAIN (w \o page) /\ (w \o page)[i] = w[i]
         /\ \A i \in DOMAIN page : Len(w) + i \in DOMAIN (w \o page)
                                   /\ (w \o page)[Len(w) + i] = page[i]
         /\ \A i \in DOMAIN (w \o page) :
                i \in DOMAIN w \/ \E k \in DOMAIN page : i = Len(w) + k
<1>1. w \o page \in Seq(Nat) /\ Len(w \o page) = Len(w) + Len(page)
  OBVIOUS
<1>2. \A i \in 1..(Len(w) + Len(page)) :
          (w \o page)[i] = IF i <= Len(w) THEN w[i] ELSE page[i - Len(w)]
  OBVIOUS
<1>3. /\ Len(w) \in Nat /\ Len(page) \in Nat
      /\ DOMAIN w = 1..Len(w) /\ DOMAIN page = 1..Len(page)
      /\ DOMAIN (w \o page) = 1..(Len(w) + Len(page))
  BY <1>1
<1>4. \A i \in DOMAIN page : (w \o page)[Len(w) + i] = page[i]
  <2> SUFFICES ASSUME NEW i \in DOMAIN page
               PROVE  (w \o page)[Len(w) + i] = page[i]
      OBVIOUS
  <2>1. /\ Len(w) + i \in 1..(Len(w) + Len(page)) /\ ~(Len(w) + i <= Len(w))
        /\ (Len(w) + i) - Len(w) = i
      BY <1>3
  <2> QED  BY <1>2, <2>1
<1>5. ASSUME NEW i \in DOMAIN (w \o page), i \notin DOMAIN w
      PROVE  \E k \in DOMAIN page : i = Len(w) + k
  <2>1. i - Len(w) \in DOMAIN page /\ i = Len(w) + (i - Len(w))
      BY <1>3, <1>5
  <2> QED  BY <2>1
<1> QED  BY <1>1, <1>2, <1>3, <1>4, <1>5

LEMMA JoinAssociates ==
  ASSUME NEW s \in Seq(Nat), NEW t \in Seq(Nat), NEW u \in Seq(Nat)
  PROVE  (s \o t) \o u = s \o (t \o u)
BY ConcatAssociative, SMTT(60)

LEMMA JoinIsGood ==
  ASSUME board \in Seq(Messages), NEW w, NEW c, Good(w, c),
         NEW page, Continues(page, LastOf(w), c)
  PROVE  Good(w \o page, c)
<1> DEFINE u == w \o page
<1>1. /\ w \in Seq(Nat) /\ Len(w) \in Nat /\ DOMAIN w = 1..Len(w)
      /\ page \in Seq(Nat) /\ Len(page) \in Nat /\ DOMAIN page = 1..Len(page)
  BY DEF Good, Continues
<1>2. /\ u \in Seq(Nat)
      /\ \A i \in DOMAIN w : i \in DOMAIN u /\ u[i] = w[i]
      /\ \A i \in DOMAIN page : Len(w) + i \in DOMAIN u /\ u[Len(w) + i] = page[i]
      /\ \A i \in DOMAIN u : i \in DOMAIN w \/ \E k \in DOMAIN page : i = Len(w) + k
  BY <1>1, JoinAt
<1> HIDE DEF u
<1>3. /\ LastOf(w) \in Nat /\ \A i \in DOMAIN w : w[i] <= LastOf(w)
      /\ w # <<>> => LastOf(w) = w[Len(w)] /\ Len(w) \in DOMAIN w
  BY LastIsHighest
<1>4. \A i \in DOMAIN u : u[i] \in In(c)
  BY <1>2 DEF Good, Continues
<1>5. ASSUME NEW i \in DOMAIN u, NEW j \in DOMAIN u, i < j
      PROVE  u[i] < u[j]
  <2>1. CASE i \in DOMAIN w /\ j \in DOMAIN w
    BY <1>2, <1>5, <2>1 DEF Good
  <2>2. ASSUME i \in DOMAIN w, NEW k \in DOMAIN page, j = Len(w) + k
        PROVE  u[i] < u[j]
    <3>1. u[i] = w[i] /\ u[j] = page[k] /\ w[i] <= LastOf(w) /\ LastOf(w) < page[k]
      BY <1>2, <1>3, <2>2 DEF Continues
    <3>2. w[i] \in Nat /\ page[k] \in Nat
      BY <1>1, <2>2
    <3> QED  BY <1>3, <3>1, <3>2
  <2>3. ASSUME NEW h \in DOMAIN page, i = Len(w) + h, NEW k \in DOMAIN page, j = Len(w) + k
        PROVE  u[i] < u[j]
    <3>1. h < k
      BY <1>1, <1>5, <2>3
    <3> QED  BY <1>2, <2>3, <3>1 DEF Continues
  <2>4. ASSUME NEW h \in DOMAIN page, i = Len(w) + h
        PROVE  j \notin DOMAIN w
    BY <1>1, <1>5, <2>4
  <2> QED  BY <1>2, <2>1, <2>2, <2>3, <2>4
<1>6. ASSUME NEW i \in DOMAIN u, ~board[u[i]].own, NEW id \in In(c), id < u[i]
      PROVE  i > 1 /\ id <= u[i - 1]
  <2>1. CASE i \in DOMAIN w
    <3>1. i > 1 /\ id <= w[i - 1]
      BY <1>2, <1>6, <2>1 DEF Good
    <3>2. i - 1 \in DOMAIN w
      BY <1>1, <2>1, <3>1
    <3> QED  BY <1>2, <3>1, <3>2
  <2>2. ASSUME NEW k \in DOMAIN page, i = Len(w) + k
        PROVE  i > 1 /\ id <= u[i - 1]
    <3>1. u[i] = page[k] /\ id \in Nat \ {0} /\ k \in Nat \ {0}
      BY <1>1, <1>2, <2>2, IdsAreNat
    <3>2. CASE k > 1
      <4>1. k - 1 \in DOMAIN page /\ i - 1 = Len(w) + (k - 1) /\ i > 1
        <5>1. Len(w) \in Nat /\ Len(page) \in Nat /\ k \in 1..Len(page)
          BY <1>1
        <5>2. k - 1 \in 1..Len(page)
          BY <3>2, <5>1
        <5>3. i - 1 = Len(w) + (k - 1) /\ i > 1
          BY <2>2, <3>2, <5>1
        <5> QED  BY <1>1, <5>2, <5>3
      <4>2. u[i - 1] = page[k - 1]
        BY <1>2, <4>1
      <4>3. page[k - 1] > LastOf(w) /\ page[k - 1] \in Nat
        BY <1>1, <4>1 DEF Continues
      <4>4. LastOf(w) < id => id <= page[k - 1]
        BY <1>6, <2>2, <3>1 DEF Continues
      <4> QED  BY <1>3, <3>1, <4>1, <4>2, <4>3, <4>4
    <3>3. CASE k = 1
      <4>1. ~(LastOf(w) < id)
        BY <1>6, <2>2, <3>1, <3>3 DEF Continues
      <4>2. w # <<>>
        BY <3>1, <4>1 DEF LastOf
      <4>3. i - 1 = Len(w) /\ i > 1 /\ u[i - 1] = LastOf(w)
        <5>1. LastOf(w) = w[Len(w)] /\ Len(w) \in DOMAIN w
          BY <1>3, <4>2
        <5>2. i - 1 = Len(w) /\ i > 1
          BY <1>1, <2>2, <3>3, <5>1
        <5> QED  BY <1>2, <5>1, <5>2
      <4> QED  BY <1>3, <3>1, <4>1, <4>3
    <3> QED  BY <3>1, <3>2, <3>3
  <2> QED  BY <1>2, <2>1, <2>2
<1> QED  BY <1>2, <1>4, <1>5, <1>6 DEF Good, u

(***************************************************************************)
(* Pages.  The elements of a finite set of numbers have the ranks 0, 1,    *)
(* ..., each once.                                                         *)
(***************************************************************************)
Below(S, a) == {k \in S : k < a}

LEMMA RankIsOrdered ==
  ASSUME NEW S \in SUBSET Nat, IsFiniteSet(S)
  PROVE  /\ \A a \in S : Cardinality(Below(S, a)) \in 0..(Cardinality(S) - 1)
         /\ \A a, b \in S : a < b => Cardinality(Below(S, a)) < Cardinality(Below(S, b))
<1>1. ASSUME NEW T \in SUBSET S
      PROVE  IsFiniteSet(T) /\ Cardinality(T) \in Nat
  BY FS_Subset, FS_CardinalityType
<1>2. ASSUME NEW T \in SUBSET S, NEW a \in S, a \notin T,
             NEW U \in SUBSET S, T \cup {a} \subseteq U
      PROVE  Cardinality(T) < Cardinality(U)
  <2>1. Cardinality(T \cup {a}) = Cardinality(T) + 1
    BY <1>1, <1>2, FS_AddElement
  <2>2. Cardinality(T \cup {a}) <= Cardinality(U)
    BY <1>1, <1>2, FS_Subset
  <2>3. Cardinality(T) \in Nat /\ Cardinality(U) \in Nat
    BY <1>1
  <2> QED  BY <2>1, <2>2, <2>3
<1>3. \A a \in S : Below(S, a) \in SUBSET S /\ a \notin Below(S, a)
  BY DEF Below
<1>4. ASSUME NEW a \in S
      PROVE  Cardinality(Below(S, a)) \in 0..(Cardinality(S) - 1)
  <2>1. Cardinality(Below(S, a)) < Cardinality(S)
    BY <1>2, <1>3
  <2>2. Cardinality(Below(S, a)) \in Nat /\ Cardinality(S) \in Nat
    BY <1>1, <1>3
  <2> QED  BY <2>1, <2>2
<1>5. ASSUME NEW a \in S, NEW b \in S, a < b
      PROVE  Cardinality(Below(S, a)) < Cardinality(Below(S, b))
  <2>1. Below(S, a) \cup {a} \subseteq Below(S, b)
    <3>1. \A k \in S : k < a => k < b
      BY <1>5
    <3> QED  BY <1>5, <3>1 DEF Below
  <2> QED  BY <1>2, <1>3, <2>1
<1> QED  BY <1>4, <1>5

LEMMA EveryRankIsTaken ==
  ASSUME NEW S \in SUBSET Nat, IsFiniteSet(S), NEW r \in 0..(Cardinality(S) - 1)
  PROVE  \E a \in S : Cardinality(Below(S, a)) = r
<1> DEFINE ranks == 0..(Cardinality(S) - 1)
           rank == [a \in S |-> Cardinality(Below(S, a))]
<1>1. Cardinality(S) \in Nat
  BY FS_CardinalityType
<1>2. IsFiniteSet(ranks) /\ Cardinality(ranks) = Cardinality(S)
  <2>1. Cardinality(S) - 1 \in Int /\ 0 \in Int
    BY <1>1
  <2>2. /\ IsFiniteSet(ranks)
        /\ Cardinality(ranks) = IF 0 > Cardinality(S) - 1 THEN 0 ELSE (Cardinality(S) - 1) - 0 + 1
    BY <2>1, FS_Interval
  <2> QED  BY <1>1, <2>2
<1>3. rank \in Injection(S, ranks)
  <2>1. rank \in [S -> ranks]
    BY RankIsOrdered
  <2>2. ASSUME NEW a \in S, NEW b \in S, rank[a] = rank[b]
        PROVE  a = b
    <3>1. ~(a < b) /\ ~(b < a)
      <4>1. Cardinality(Below(S, a)) \in Nat
        BY RankIsOrdered
      <4> QED  BY <2>2, <4>1, RankIsOrdered
    <3> QED  BY <3>1
  <2> HIDE DEF rank, ranks
  <2> QED  BY <2>1, <2>2 DEF Injection, IsInjective
<1>4. rank \in Surjection(S, ranks)
  <2> HIDE DEF rank, ranks
  <2> QED  BY <1>2, <1>3, FS_Injection
<1> QED  BY <1>4 DEF Surjection

LEMMA PageFacts ==
  ASSUME board \in Seq(Messages), NEW c \in Channels, NEW start \in Nat, NEW n \in Nat \ {0}
  PROVE  Continues(Page(c, start, n), start, c) /\ Len(Page(c, start, n)) <= n
<1> DEFINE rest == {id \in In(c) : id > start}
           size == Smaller(n, Cardinality(rest))
           page == Page(c, start, n)
<1>1. rest \in SUBSET Nat /\ IsFiniteSet(rest) /\ Cardinality(rest) \in Nat
  <2>1. In(c) \subseteq 1..Len(board) /\ Len(board) \in Nat
    BY DEF In, Ids
  <2>2. IsFiniteSet(rest)
    <3>1. IsFiniteSet(1..Len(board))
      BY <2>1, FS_Interval
    <3> QED  BY <2>1, <3>1, FS_Subset
  <2> QED  BY <2>1, <2>2, FS_CardinalityType
<1>2. page = [i \in 1..size |-> CHOOSE id \in rest : Cardinality(Below(rest, id)) = i - 1]
  BY DEF Page, Below
<1>3. size \in Nat /\ size <= n /\ size <= Cardinality(rest)
  BY <1>1 DEF Smaller
<1>4. \A id : id \in rest <=> id \in In(c) /\ id > start
  OBVIOUS
<1> HIDE DEF page, size, rest
<1>5. ASSUME NEW i \in 1..size
      PROVE  page[i] \in rest /\ Cardinality(Below(rest, page[i])) = i - 1
  <2>1. i - 1 \in 0..(Cardinality(rest) - 1)
    BY <1>1, <1>3
  <2>2. \E id \in rest : Cardinality(Below(rest, id)) = i - 1
    BY <1>1, <2>1, EveryRankIsTaken
  <2> QED  BY <1>2, <2>2
<1>6. page \in Seq(Nat) /\ Len(page) = size /\ DOMAIN page = 1..size
  <2>1. \A i \in 1..size : page[i] \in Nat
    BY <1>1, <1>5
  <2>2. DOMAIN page = 1..size /\ page = [i \in 1..size |-> page[i]]
    BY <1>2
  <2> HIDE DEF page
  <2> QED  BY <1>3, <2>1, <2>2
<1>7. ASSUME NEW a \in rest, NEW b \in rest,
             Cardinality(Below(rest, a)) < Cardinality(Below(rest, b))
      PROVE  a < b
  <2>1. a \in Nat /\ b \in Nat
    BY <1>1
  <2>2. Cardinality(Below(rest, a)) \in Nat /\ Cardinality(Below(rest, b)) \in Nat
    BY <1>1, RankIsOrdered
  <2>3. ~(b < a) /\ a # b
    BY <1>1, <1>7, <2>2, RankIsOrdered
  <2> QED  BY <2>1, <2>3
<1>8. \A i, j \in DOMAIN page : i < j => page[i] < page[j]
  <2> SUFFICES ASSUME NEW i \in 1..size, NEW j \in 1..size, i < j
               PROVE  page[i] < page[j]
      BY <1>6
  <2>1. i - 1 < j - 1
      BY <1>3
  <2> QED  BY <1>5, <1>7, <2>1
<1>9. ASSUME NEW i \in 1..size, NEW id \in In(c), start < id, id < page[i]
      PROVE  i > 1 /\ id <= page[i - 1]
  <2>1. id \in rest /\ page[i] \in rest /\ id \in Nat /\ start \in Nat
    BY <1>1, <1>4, <1>5, <1>9, IdsAreNat
  <2>2. Cardinality(Below(rest, id)) < i - 1 /\ Cardinality(Below(rest, id)) \in Nat
    <3>1. Cardinality(Below(rest, id)) < Cardinality(Below(rest, page[i]))
      BY <1>1, <1>9, <2>1, RankIsOrdered
    <3>2. Cardinality(Below(rest, id)) \in 0..(Cardinality(rest) - 1)
      BY <1>1, <2>1, RankIsOrdered
    <3>3. Cardinality(Below(rest, id)) \in Nat
      BY <1>1, <3>2
    <3> QED  BY <1>5, <3>1, <3>3
  <2>3. i > 1 /\ i - 1 \in 1..size
    BY <1>3, <2>2
  <2>4. page[i - 1] \in rest /\ Cardinality(Below(rest, page[i - 1])) = (i - 1) - 1
    BY <1>5, <2>3
  <2>5. ~(page[i - 1] < id)
    <3>1. page[i - 1] < id => Cardinality(Below(rest, page[i - 1])) < Cardinality(Below(rest, id))
      BY <1>1, <2>1, <2>4, RankIsOrdered
    <3> QED  BY <2>2, <2>4, <3>1
  <2>6. page[i - 1] \in Nat
    BY <1>1, <2>4
  <2> QED  BY <2>1, <2>3, <2>5, <2>6
<1>10. \A i \in DOMAIN page : page[i] \in In(c) /\ page[i] > start
  BY <1>4, <1>5, <1>6
<1>11. Continues(page, start, c)
  BY <1>6, <1>8, <1>9, <1>10 DEF Continues
<1> QED  BY <1>3, <1>6, <1>11 DEF page

(***************************************************************************)
(* The inductive invariant.  A refresh that runs has loaded what continues *)
(* the cache of its channel, and its cursor is where that ends: a page is  *)
(* then the next one whatever was posted or selected meanwhile.            *)
(***************************************************************************)
Shape ==
    /\ board \in Seq(Messages)
    /\ current \in Channels
    /\ queued \in BOOLEAN /\ tracked \in BOOLEAN /\ strays \in 0..MaxStrays

CacheOK ==
    /\ cache \in [Channels -> Seq(Nat)]
    /\ \A c \in Channels : Good(cache[c], c)

RefreshOK ==
    LET shown == cache[job.channel] \o job.loaded
    IN  /\ Good(shown, job.channel) /\ job.cursor = LastOf(shown)
        /\ Len(job.loaded) <= LoadLimit
        /\ ~job.done => Len(job.loaded) < LoadLimit

PostOK ==
    /\ job.cursor = 0
    /\ IF job.done
       THEN \E id \in Ids : /\ job.loaded = <<id>>
                            /\ board[id] = [channel |-> job.channel, own |-> TRUE]
       ELSE job.loaded = <<>>

JobOK ==
    job # None => /\ job \in Jobs
                  /\ job.kind = "refresh" => RefreshOK
                  /\ job.kind = "post" => PostOK

WindowInv == Shape /\ CacheOK /\ JobOK /\ NeverStalls

LEMMA GrowingKeepsGood ==
  ASSUME board \in Seq(Messages), NEW m \in Messages, board' = Append(board, m),
         NEW w, NEW c, Good(w, c)
  PROVE  Good(w, c)'
<1>1. /\ Len(board) \in Nat /\ Ids' = Ids \cup {Len(board) + 1}
      /\ \A id \in Ids : board'[id] = board[id] /\ id \in Nat /\ id <= Len(board)
  BY DEF Ids
<1>2. In(c) \subseteq In(c)' /\ \A id \in In(c)' : id \in In(c) \/ id = Len(board) + 1
  BY <1>1 DEF In
<1>3. w \in Seq(Nat) /\ \A i \in DOMAIN w : w[i] \in Ids /\ w[i] \in Nat /\ w[i] <= Len(board)
  BY <1>1 DEF Good, In
<1>4. ASSUME NEW i \in DOMAIN w, ~board'[w[i]].own, NEW id \in In(c)', id < w[i]
      PROVE  i > 1 /\ id <= w[i - 1]
  <2>1. id \in In(c)
    BY <1>1, <1>2, <1>3, <1>4
  <2> QED  BY <1>1, <1>3, <1>4, <2>1 DEF Good
<1> QED  BY <1>2, <1>3, <1>4 DEF Good

\* A message is stored.
LEMMA GrowingKeeps ==
  ASSUME Shape, NEW m \in Messages, board' = Append(board, m)
  PROVE  /\ board' \in Seq(Messages) /\ Ids \subseteq Ids'
         /\ Len(board) + 1 \in Ids' /\ board'[Len(board) + 1] = m
         /\ \A id \in Ids : board'[id] = board[id]
         /\ CacheOK /\ UNCHANGED cache => CacheOK'
         /\ CacheOK /\ JobOK /\ UNCHANGED <<cache, job>> => JobOK'
<1>1. /\ board \in Seq(Messages) /\ Len(board) \in Nat /\ Ids' = Ids \cup {Len(board) + 1}
      /\ board'[Len(board) + 1] = m /\ \A id \in Ids : board'[id] = board[id]
      /\ board' \in Seq(Messages)
  BY DEF Shape, Ids
<1>2. CacheOK /\ UNCHANGED cache => CacheOK'
  BY <1>1, GrowingKeepsGood DEF CacheOK
<1>3. ASSUME JobOK, UNCHANGED <<cache, job>>
      PROVE  JobOK'
  <2>1. \A w, c : Good(w, c) => Good(w, c)'
    BY <1>1, GrowingKeepsGood
  <2>2. RefreshOK => RefreshOK'
    BY <1>3, <2>1 DEF RefreshOK, LastOf
  <2>3. PostOK => PostOK'
    BY <1>1, <1>3 DEF PostOK
  <2> QED  BY <1>3, <2>2, <2>3 DEF JobOK
<1> QED  BY <1>1, <1>2, <1>3

LEMMA SameBoard ==
  ASSUME board' = board
  PROVE  /\ Ids' = Ids /\ \A c : In(c)' = In(c)
         /\ \A w, c : Good(w, c)' <=> Good(w, c)
<1>1. Ids' = Ids /\ \A c : In(c)' = In(c)
  BY DEF Ids, In
<1> QED  BY <1>1 DEF Good

\* A refresh starts where the cache of its channel ends, or is noted.
LEMMA RefreshKeeps ==
  ASSUME WindowInv, NEW c \in Channels, RefreshCalled(c), UNCHANGED <<board, cache>>
  PROVE  /\ job' # None /\ queued' \in BOOLEAN
         /\ JobOK'
<1>1. CASE job # None
  <2>1. job' = job /\ queued' = TRUE
    BY <1>1 DEF RefreshCalled
  <2>2. RefreshOK => RefreshOK'
    BY <2>1, SameBoard DEF RefreshOK, LastOf
  <2>3. PostOK => PostOK'
    BY <2>1, SameBoard DEF PostOK
  <2> QED  BY <1>1, <2>1, <2>2, <2>3 DEF WindowInv, JobOK
<1>2. CASE job = None
  <2>1. job' = Job("refresh", c, LastOf(cache[c])) /\ queued' = queued
    BY <1>2 DEF RefreshCalled
  <2>2. /\ cache[c] \in Seq(Nat) /\ Good(cache[c], c) /\ board \in Seq(Messages)
    BY DEF WindowInv, CacheOK, Shape
  <2>3. LastOf(cache[c]) \in Nat
    BY <2>2, LastIsHighest
  <2>4. /\ job' \in Jobs /\ job'.kind = "refresh" /\ job'.channel = c /\ ~job'.done
        /\ job'.loaded = <<>> /\ job'.cursor = LastOf(cache[c])
    BY <2>1, <2>3 DEF Job, Jobs
  <2>5. job' # None
    BY <2>4, ClubhouseAssumption DEF Jobs
  <2>6. Good(cache[c], c)'
    BY <2>2, SameBoard
  <2>7. cache[c] \o <<>> = cache[c]
    BY <2>2, ConcatEmptySeq
  <2>8. Len(job'.loaded) = 0
    BY <2>4
  <2>9. RefreshOK'
    BY <2>4, <2>6, <2>7, <2>8, ClubhouseAssumption DEF RefreshOK, LastOf
  <2> QED  BY <2>1, <2>4, <2>5, <2>9 DEF WindowInv, Shape, JobOK
<1> QED  BY <1>1, <1>2

LEMMA RefreshSteps ==
  ASSUME WindowInv, FireTracked \/ FireStray \/ \E c \in Channels : SelectChannel(c)
  PROVE  WindowInv'
<1>1. PICK c \in Channels : RefreshCalled(c)
  BY DEF FireTracked, FireStray, SelectChannel, WindowInv, Shape
<1>2. UNCHANGED <<board, cache>>
  BY DEF FireTracked, FireStray, SelectChannel
<1>3. job' # None /\ queued' \in BOOLEAN /\ JobOK'
  BY <1>1, <1>2, RefreshKeeps
<1>4. CacheOK'
  BY <1>2, SameBoard DEF WindowInv, CacheOK
<1>5. Shape'
  <2>1. MaxStrays \in Nat /\ strays \in 0..MaxStrays
    BY ClubhouseAssumption DEF WindowInv, Shape
  <2>2. strays' \in 0..MaxStrays
    BY <2>1 DEF FireTracked, FireStray, SelectChannel
  <2> QED  BY <1>2, <1>3, <2>2 DEF FireTracked, FireStray, SelectChannel, WindowInv, Shape
<1> QED  BY <1>3, <1>4, <1>5 DEF WindowInv, NeverStalls

LEMMA AskedIsPositive ==
  ASSUME WindowInv, Loading
  PROVE  /\ job \in Jobs /\ RefreshOK /\ Asked \in Nat \ {0}
         /\ Len(job.loaded) \in Nat /\ Asked + Len(job.loaded) <= LoadLimit
<1>1. job \in Jobs /\ RefreshOK /\ Len(job.loaded) < LoadLimit
  BY DEF Loading, WindowInv, JobOK, RefreshOK
<1>2. Len(job.loaded) \in Nat
  BY <1>1 DEF Jobs
<1>3. ASSUME NEW k \in Nat, k < LoadLimit
      PROVE  /\ Smaller(PageLimit, LoadLimit - k) \in Nat \ {0}
             /\ Smaller(PageLimit, LoadLimit - k) + k <= LoadLimit
  BY <1>3, ClubhouseAssumption DEF Smaller
<1> QED  BY <1>1, <1>2, <1>3 DEF Asked

LEMMA PageKeeps ==
  ASSUME WindowInv, ReadPage
  PROVE  WindowInv'
<1>1. PICK n \in 1..Asked :
          LET page == Page(job.channel, job.cursor, n)
              more == Page(job.channel, job.cursor, n + 1) # page
          IN  job' = [job EXCEPT
                        !.loaded = @ \o page,
                        !.cursor = IF page = <<>> THEN @ ELSE LastOf(page),
                        !.done = ~more \/ Len(job.loaded \o page) >= LoadLimit]
  BY DEF ReadPage
<1>2. /\ job \in Jobs /\ RefreshOK /\ Asked \in Nat \ {0} /\ job # None /\ job.kind = "refresh"
      /\ Len(job.loaded) \in Nat /\ Asked + Len(job.loaded) <= LoadLimit
      /\ UNCHANGED <<board, cache, current, timers>>
  BY AskedIsPositive DEF ReadPage, Loading
<1> DEFINE page == Page(job.channel, job.cursor, n)
           shown == cache[job.channel] \o job.loaded
<1>3. /\ board \in Seq(Messages) /\ job.channel \in Channels /\ job.cursor \in Nat
      /\ cache[job.channel] \in Seq(Nat) /\ job.loaded \in Seq(Nat) /\ n \in Nat \ {0}
  BY <1>2 DEF WindowInv, Shape, CacheOK, Jobs
<1>4. Continues(page, LastOf(shown), job.channel) /\ Len(page) <= n /\ page \in Seq(Nat)
  <2>1. Continues(page, job.cursor, job.channel) /\ Len(page) <= n
    BY <1>3, PageFacts
  <2> QED  BY <1>2, <2>1 DEF RefreshOK, Continues
<1>5. PICK over \in BOOLEAN :
          /\ job' = [job EXCEPT !.loaded = @ \o page,
                                !.cursor = IF page = <<>> THEN @ ELSE LastOf(page),
                                !.done = over]
          /\ Len(job.loaded \o page) >= LoadLimit => over
  BY <1>1
<1> HIDE DEF page
<1>6. /\ job'.kind = "refresh" /\ job'.channel = job.channel
      /\ job'.loaded = job.loaded \o page /\ job'.done = over
      /\ job'.cursor = IF page = <<>> THEN job.cursor ELSE LastOf(page)
  BY <1>2, <1>5 DEF Jobs
<1>7. cache[job.channel] \o (job.loaded \o page) = shown \o page
  BY <1>3, <1>4, JoinAssociates
<1>8. shown \in Seq(Nat) /\ Good(shown, job.channel) /\ job.cursor = LastOf(shown)
  BY <1>2, <1>3 DEF RefreshOK
<1> HIDE DEF shown
<1>9. Good(shown \o page, job.channel)
  BY <1>3, <1>4, <1>8, JoinIsGood
<1>10. LastOf(shown \o page) = IF page = <<>> THEN LastOf(shown) ELSE LastOf(page)
  BY <1>4, <1>8 DEF LastOf
<1>11. Len(job.loaded \o page) = Len(job.loaded) + Len(page) /\ Len(page) \in Nat
  BY <1>3, <1>4
<1>12. Len(job'.loaded) <= LoadLimit /\ (~job'.done => Len(job'.loaded) < LoadLimit)
  BY <1>2, <1>3, <1>4, <1>5, <1>6, <1>11, ClubhouseAssumption
<1>13. RefreshOK'
  <2>1. PICK w : w = shown \o page
    OBVIOUS
  <2>2. PICK c : c = job.channel
    OBVIOUS
  <2>3. Good(w, c)'
    BY <1>2, <1>9, <2>1, <2>2, SameBoard
  <2>4. cache'[job'.channel] \o job'.loaded = w /\ job'.channel = c
    BY <1>2, <1>6, <1>7, <2>1, <2>2
  <2>5. job'.cursor = LastOf(w)
    BY <1>6, <1>8, <1>10, <2>1
  <2> QED  BY <1>12, <2>3, <2>4, <2>5 DEF RefreshOK, LastOf
<1>14. job' \in Jobs
  <2>1. job.loaded \o page \in Seq(Nat)
    BY <1>3, <1>4
  <2>2. LastOf(page) \in Nat \/ page = <<>>
    BY <1>4 DEF LastOf
  <2> QED  BY <1>2, <1>3, <1>5, <2>1, <2>2 DEF Jobs
<1>15. job' # None
  BY <1>14, ClubhouseAssumption DEF Jobs
<1>16. JobOK'
  BY <1>6, <1>13, <1>14 DEF JobOK
<1>17. CacheOK' /\ Shape'
  BY <1>2, SameBoard DEF WindowInv, CacheOK, Shape, timers
<1> QED  BY <1>15, <1>16, <1>17 DEF WindowInv, NeverStalls

(***************************************************************************)
(* The end of a job.                                                       *)
(***************************************************************************)
LEMMA NextRefreshKeeps ==
  ASSUME WindowInv, NextRefresh, UNCHANGED <<board, current>>, job' = None, CacheOK'
  PROVE  WindowInv'
<1>1. MaxStrays \in Nat /\ strays \in 0..MaxStrays
  BY ClubhouseAssumption DEF WindowInv, Shape
<1>2. strays' \in 0..MaxStrays /\ (tracked' \/ strays' > 0)
      /\ queued' \in BOOLEAN /\ tracked' \in BOOLEAN
  <2>1. CASE queued' = FALSE /\ strays' = strays + 1 /\ strays < MaxStrays /\ tracked' = tracked
    <3>1. strays' \in 0..MaxStrays /\ strays' > 0
      BY <1>1, <2>1
    <3>2. queued' \in BOOLEAN /\ tracked' \in BOOLEAN
      BY <2>1, Zenon DEF WindowInv, Shape
    <3> QED  BY <3>1, <3>2
  <2>2. CASE tracked' = TRUE /\ UNCHANGED <<queued, strays>>
    BY <1>1, <2>2 DEF WindowInv, Shape
  <2> QED  BY <2>1, <2>2 DEF NextRefresh
<1> QED  BY <1>2 DEF WindowInv, Shape, JobOK, NeverStalls

\* The result of a job goes to the channel it was started for.
LEMMA ExtendKeeps ==
  ASSUME WindowInv, job # None, Extend(job.loaded), board' = board,
         Good(cache[job.channel] \o job.loaded, job.channel)
  PROVE  CacheOK'
<1>1. /\ cache \in [Channels -> Seq(Nat)] /\ job.channel \in Channels
      /\ cache' = [cache EXCEPT ![job.channel] = cache[job.channel] \o job.loaded]
  BY DEF WindowInv, CacheOK, JobOK, Jobs, Extend
<1>2. cache[job.channel] \o job.loaded \in Seq(Nat)
  BY DEF Good
<1>3. \A c \in Channels : Good(cache'[c], c)
  BY <1>1 DEF WindowInv, CacheOK
<1>4. ASSUME NEW c \in Channels
      PROVE  Good(cache[c], c)'
  <2>1. PICK w : w = cache'[c]
      OBVIOUS
  <2>2. Good(w, c)'
      BY <1>3, <2>1, SameBoard
  <2> QED  BY <2>1, <2>2 DEF Good
<1>5. cache' \in [Channels -> Seq(Nat)]
  BY <1>1, <1>2
<1> QED  BY <1>4, <1>5 DEF CacheOK

LEMMA ApplyKeeps ==
  ASSUME WindowInv, ApplyRefresh \/ ApplyPost
  PROVE  WindowInv'
<1>1. job # None /\ NextRefresh /\ UNCHANGED <<board, current>> /\ job' = None
  BY DEF ApplyRefresh, ApplyPost
<1>2. CASE ApplyRefresh
  <2>1. Good(cache[job.channel] \o job.loaded, job.channel) /\ Extend(job.loaded)
    BY <1>2 DEF ApplyRefresh, WindowInv, JobOK, RefreshOK
  <2> QED  BY <1>1, <2>1, ExtendKeeps, NextRefreshKeeps
<1>3. CASE ApplyPost
  <2>1. /\ PostOK /\ job.done /\ job.channel \in Channels /\ board \in Seq(Messages)
        /\ IF LastOf(cache[job.channel]) < job.loaded[1]
           THEN Extend(job.loaded) ELSE UNCHANGED cache
    BY <1>3 DEF ApplyPost, WindowInv, Shape, JobOK, Jobs
  <2>2. PICK id \in Ids : /\ job.loaded = <<id>>
                          /\ board[id] = [channel |-> job.channel, own |-> TRUE]
    BY <2>1 DEF PostOK
  <2>3. id \in Nat /\ id \in In(job.channel) /\ board[id].own /\ job.loaded[1] = id
    BY <2>1, <2>2, IdsAreNat DEF In
  <2>4. CASE LastOf(cache[job.channel]) < id
    <3>1. Continues(<<id>>, LastOf(cache[job.channel]), job.channel)
      BY <2>3, <2>4 DEF Continues
    <3>2. Good(cache[job.channel], job.channel)
      BY <2>1 DEF WindowInv, CacheOK
    <3>3. Good(cache[job.channel] \o job.loaded, job.channel)
      BY <2>1, <2>2, <3>1, <3>2, JoinIsGood
    <3> QED  BY <1>1, <2>1, <2>3, <2>4, <3>3, ExtendKeeps, NextRefreshKeeps
  <2>5. CASE ~(LastOf(cache[job.channel]) < id)
    <3>1. cache' = cache
      BY <2>1, <2>3, <2>5
    <3>2. CacheOK'
      BY <1>1, <3>1, SameBoard DEF WindowInv, CacheOK
    <3> QED  BY <1>1, <3>2, NextRefreshKeeps
  <2> QED  BY <2>4, <2>5
<1> QED  BY <1>2, <1>3

LEMMA PostSteps ==
  ASSUME WindowInv, StartPost \/ CommitPost
  PROVE  WindowInv'
<1>1. CASE StartPost
  <2>1. job' = Job("post", current, 0) /\ UNCHANGED <<board, cache, current, timers>>
    BY <1>1 DEF StartPost
  <2>2. /\ job' \in Jobs /\ job'.kind = "post" /\ job'.cursor = 0 /\ ~job'.done
        /\ job'.loaded = <<>>
    BY <2>1 DEF Job, Jobs, WindowInv, Shape
  <2>3. job' # None
    BY <2>2, ClubhouseAssumption DEF Jobs
  <2>4. JobOK'
    BY <2>2 DEF JobOK, PostOK
  <2>5. CacheOK' /\ Shape'
    BY <2>1, SameBoard DEF WindowInv, CacheOK, Shape, timers
  <2> QED  BY <2>3, <2>4, <2>5 DEF WindowInv, NeverStalls
<1>2. CASE CommitPost
  <2> DEFINE m == [channel |-> job.channel, own |-> TRUE]
             n == Len(board) + 1
  <2>1. /\ job \in Jobs /\ job.kind = "post" /\ PostOK /\ job # None
        /\ board' = Append(board, m)
        /\ job' = [job EXCEPT !.loaded = <<n>>, !.done = TRUE]
        /\ UNCHANGED <<cache, current, timers>>
    BY <1>2 DEF CommitPost, WindowInv, JobOK
  <2>2. m \in Messages /\ n \in Nat
    BY <2>1 DEF Jobs, Messages, WindowInv, Shape
  <2>3. board' \in Seq(Messages) /\ n \in Ids' /\ board'[n] = m /\ CacheOK'
    BY <2>1, <2>2, GrowingKeeps DEF WindowInv
  <2>4. /\ job' \in Jobs /\ job'.kind = "post" /\ job'.done /\ job'.loaded = <<n>>
        /\ job'.cursor = job.cursor /\ job'.channel = job.channel
    <3>1. <<n>> \in Seq(Nat)
      BY <2>2
    <3> HIDE DEF n
    <3> QED  BY <2>1, <3>1 DEF Jobs
  <2>5. PostOK'
    BY <2>1, <2>3, <2>4 DEF PostOK
  <2>6. job' # None
    BY <2>4, ClubhouseAssumption DEF Jobs
  <2>7. Shape'
    BY <2>1, <2>3 DEF WindowInv, Shape, timers
  <2> QED  BY <2>3, <2>4, <2>5, <2>6, <2>7 DEF WindowInv, JobOK, NeverStalls
<1> QED  BY <1>1, <1>2

LEMMA WindowStep ==
  ASSUME WindowInv, [Next]_vars
  PROVE  WindowInv'
<1>1. ASSUME NEW c \in Channels, PeerPosts(c)
      PROVE  WindowInv'
  <2>1. /\ board' = Append(board, [channel |-> c, own |-> FALSE])
        /\ UNCHANGED <<cache, current, job, timers>>
    BY <1>1 DEF PeerPosts
  <2>2. [channel |-> c, own |-> FALSE] \in Messages
    BY DEF Messages
  <2>3. board' \in Seq(Messages) /\ CacheOK' /\ JobOK'
    BY <2>1, <2>2, GrowingKeeps DEF WindowInv
  <2> QED  BY <2>1, <2>3 DEF WindowInv, Shape, NeverStalls, timers
<1>2. CASE JobFails
  <2>1. NextRefresh /\ UNCHANGED <<board, current, cache>> /\ job' = None
    BY <1>2 DEF JobFails
  <2>2. CacheOK'
    BY <2>1, SameBoard DEF WindowInv, CacheOK
  <2> QED  BY <2>1, <2>2, NextRefreshKeeps
<1>3. CASE UNCHANGED vars
  <2>1. UNCHANGED <<board, cache, current, job, queued, tracked, strays>>
    BY <1>3 DEF vars, timers
  <2>2. CacheOK' /\ Shape'
    BY <2>1, SameBoard DEF WindowInv, CacheOK, Shape
  <2>3. JobOK'
    <3>1. (RefreshOK => RefreshOK') /\ (PostOK => PostOK')
      BY <2>1, SameBoard DEF RefreshOK, PostOK, LastOf
    <3> QED  BY <2>1, <3>1 DEF WindowInv, JobOK
  <2> QED  BY <2>1, <2>2, <2>3 DEF WindowInv, NeverStalls
<1> QED  BY <1>1, <1>2, <1>3, RefreshSteps, PageKeeps, PostSteps, ApplyKeeps DEF Next

LEMMA WindowInvariant == Spec => []WindowInv
<1>1. ASSUME Init
      PROVE  WindowInv
  <2>1. board \in Seq(Messages) /\ Shape /\ job = None /\ strays > 0
    <3>1. 1 \in 0..MaxStrays
      BY ClubhouseAssumption
    <3>2. board = <<>> /\ current \in Channels /\ job = None /\ strays = 1
          /\ queued = FALSE /\ tracked = FALSE
      BY <1>1 DEF Init
    <3>3. board \in Seq(Messages)
      BY <3>2
    <3>4. queued \in BOOLEAN /\ tracked \in BOOLEAN
      BY <3>2, Zenon
    <3>5. strays \in 0..MaxStrays /\ strays > 0
      BY <3>1, <3>2
    <3> QED  BY <3>2, <3>3, <3>4, <3>5 DEF Shape
  <2>2. CacheOK
    BY <1>1 DEF Init, CacheOK, Good
  <2> QED  BY <2>1, <2>2 DEF WindowInv, JobOK, NeverStalls
<1>2. WindowInv /\ [Next]_vars => WindowInv'
  BY WindowStep
<1> QED  BY <1>1, <1>2, PTL DEF Spec

\* Every variable keeps its shape, and no refresh loads past its limit.
THEOREM WindowTypes == Spec => []TypeOK
<1>1. ASSUME WindowInv
      PROVE  TypeOK
  <2>1. \A id \in Ids : board[id] \in Messages
    BY <1>1 DEF WindowInv, Shape, Ids
  <2>2. \A c \in Channels : Held(c) \subseteq Ids
    BY <1>1 DEF WindowInv, CacheOK, Good, Held, In
  <2>3. ASSUME job # None
        PROVE  /\ job.channel \in Channels /\ job.cursor \in Ids \cup {0}
               /\ Len(job.loaded) <= LoadLimit
    <3>1. CASE job.kind = "refresh"
      BY <1>1, <2>3, <3>1, LastIsHighest
      DEF WindowInv, Shape, JobOK, Jobs, RefreshOK
    <3>2. CASE job.kind = "post"
      <4>1. job \in Jobs /\ PostOK
        BY <1>1, <2>3, <3>2 DEF WindowInv, JobOK
      <4>2. Len(job.loaded) <= 1
        <5>1. CASE job.done
          <6>1. PICK id : job.loaded = <<id>>
            BY <4>1, <5>1 DEF PostOK
          <6> QED  BY <6>1
        <5>2. CASE ~job.done
          <6>1. job.loaded = <<>>
            BY <4>1, <5>2 DEF PostOK
          <6> QED  BY <6>1
        <5> QED  BY <5>1, <5>2
      <4> QED  BY <4>1, <4>2, ClubhouseAssumption DEF PostOK, Jobs
    <3> QED  BY <1>1, <2>3, <3>1, <3>2 DEF WindowInv, JobOK, Jobs
  <2> QED  BY <1>1, <2>1, <2>2, <2>3 DEF WindowInv, Shape, Messages, TypeOK
<1> QED  BY <1>1, WindowInvariant, PTL

\* A channel shows its own messages in the order of the board, none twice,
\* whichever channel is selected when a job ends.
THEOREM ChannelsShowInOrder == Spec => []CacheInOrder
<1>1. WindowInv => CacheInOrder
  BY DEF WindowInv, CacheOK, Good, Held, CacheInOrder
<1> QED  BY <1>1, WindowInvariant, PTL

\* No page size, trimming, failure or limit makes a refresh pass a message
\* over: a gap lies right before a message the window posted itself.
THEOREM RefreshesLeaveNoGap == Spec => []GapsOnlyBeforeOwnPosts
<1>1. WindowInv => GapsOnlyBeforeOwnPosts
  BY DEF WindowInv, CacheOK, Good, GapsOnlyBeforeOwnPosts
<1> QED  BY <1>1, WindowInvariant, PTL

\* While no job runs a callback that will refresh is scheduled, however jobs
\* end and whatever was asked for meanwhile.
THEOREM RefreshingGoesOn == Spec => []NeverStalls
<1>1. WindowInv => NeverStalls
  BY DEF WindowInv
<1> QED  BY <1>1, WindowInvariant, PTL
================================================================================
