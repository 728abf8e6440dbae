--------------------------- MODULE ConnectionsProofs ---------------------------
(***************************************************************************)
(* Theorems about Connections, for any connections, processes, limits and  *)
(* times: admission keeps its bounds, a refused connection is not served,  *)
(* and nobody young makes room.                                            *)
(***************************************************************************)
EXTENDS Connections, FiniteSetTheorems, WellFoundedInduction, TLAPS

(***************************************************************************)
(* The queue of pending connections.                                       *)
(***************************************************************************)
Distinct(w) == \A i, j \in DOMAIN w : w[i] = w[j] => i = j

Members(w) == {w[i] : i \in DOMAIN w}

\* Each place of v holds what stands in w, in the same order.
Within(v, w) ==
    \E from \in [DOMAIN v -> DOMAIN w] :
        /\ \A i \in DOMAIN v : v[i] = w[from[i]]
        /\ \A i, j \in DOMAIN v : i < j => from[i] < from[j]

LEMMA WithoutAbsent ==
  ASSUME NEW w, NEW c, c \notin Members(w)
  PROVE  Without(w, c) = w
  BY DEF Without, Members

LEMMA WithoutMember ==
  ASSUME NEW S, NEW w \in Seq(S), Distinct(w), NEW c \in Members(w)
  PROVE  /\ Without(w, c) \in Seq(S) /\ Len(Without(w, c)) = Len(w) - 1
         /\ Members(Without(w, c)) = Members(w) \ {c}
         /\ Within(Without(w, c), w)
<1> DEFINE v == Without(w, c)
           k == CHOOSE i \in DOMAIN w : w[i] = c
<1>1. k \in DOMAIN w /\ w[k] = c
  BY DEF Members
<1>2. Len(w) \in Nat /\ DOMAIN w = 1..Len(w) /\ Len(w) >= 1
  BY <1>1
<1>3. v = [i \in 1..(Len(w) - 1) |-> IF i < k THEN w[i] ELSE w[i + 1]]
  BY <1>1 DEF Without
<1> HIDE DEF v, k
<1> DEFINE from == [i \in 1..(Len(w) - 1) |-> IF i < k THEN i ELSE i + 1]
<1>4. \A i \in 1..(Len(w) - 1) : from[i] \in DOMAIN w /\ v[i] = w[from[i]] /\ from[i] # k
  BY <1>1, <1>2, <1>3
<1>5. v \in Seq(S) /\ Len(v) = Len(w) - 1 /\ DOMAIN v = 1..(Len(w) - 1)
  <2>1. \A i \in 1..(Len(w) - 1) : v[i] \in S
    BY <1>2, <1>4
  <2>2. Len(w) - 1 \in Nat
    BY <1>2
  <2> QED  BY <1>3, <2>1, <2>2
<1>6. Members(v) = Members(w) \ {c}
  <2>1. ASSUME NEW i \in DOMAIN v
        PROVE  v[i] \in Members(w) \ {c}
    BY <1>1, <1>4, <1>5 DEF Members, Distinct
  <2>2. ASSUME NEW i \in DOMAIN w, w[i] # c
        PROVE  w[i] \in Members(v)
    <3>1. CASE i < k
      <4>1. i \in DOMAIN v /\ v[i] = w[i]
        BY <1>1, <1>2, <1>3, <1>5, <3>1
      <4> QED  BY <4>1 DEF Members
    <3>2. CASE i > k
      <4>1. i - 1 \in DOMAIN v /\ v[i - 1] = w[i]
        BY <1>1, <1>2, <1>3, <1>5, <3>2
      <4> QED  BY <4>1 DEF Members
    <3> QED  BY <1>1, <1>2, <2>2, <3>1, <3>2
  <2> QED  BY <2>1, <2>2 DEF Members
<1>7. Within(v, w)
  <2>1. from \in [DOMAIN v -> DOMAIN w]
    BY <1>4, <1>5
  <2>2. \A i, j \in DOMAIN v : i < j => from[i] < from[j]
    BY <1>1, <1>2, <1>5
  <2> HIDE DEF from
  <2> QED  BY <1>4, <1>5, <2>1, <2>2 DEF Within
<1> QED  BY <1>5, <1>6, <1>7 DEF v

LEMMA WithoutFacts ==
  ASSUME NEW S, NEW w \in Seq(S), Distinct(w), NEW c
  PROVE  /\ Without(w, c) \in Seq(S) /\ Len(Without(w, c)) <= Len(w)
         /\ Members(Without(w, c)) = Members(w) \ {c}
         /\ Within(Without(w, c), w) /\ Distinct(Without(w, c))
<1>1. CASE c \notin Members(w)
  <2>1. Within(w, w)
    <3> DEFINE from == [i \in DOMAIN w |-> i]
    <3>1. /\ from \in [DOMAIN w -> DOMAIN w]
          /\ \A i \in DOMAIN w : w[i] = w[from[i]]
          /\ \A i, j \in DOMAIN w : i < j => from[i] < from[j]
      OBVIOUS
    <3> HIDE DEF from
    <3> QED  BY <3>1 DEF Within
  <2> QED  BY <1>1, <2>1, WithoutAbsent
<1>2. CASE c \in Members(w)
  <2> DEFINE v == Without(w, c)
  <2>1. /\ v \in Seq(S) /\ Len(v) = Len(w) - 1 /\ Members(v) = Members(w) \ {c}
        /\ Within(v, w)
    BY <1>2, WithoutMember
  <2> HIDE DEF v
  <2>2. PICK from \in [DOMAIN v -> DOMAIN w] :
            /\ \A i \in DOMAIN v : v[i] = w[from[i]]
            /\ \A i, j \in DOMAIN v : i < j => from[i] < from[j]
    BY <2>1 DEF Within
  <2>3. ASSUME NEW i \in DOMAIN v, NEW j \in DOMAIN v, v[i] = v[j]
        PROVE  i = j
    <3>1. from[i] = from[j] /\ from[i] \in Nat /\ i \in Nat /\ j \in Nat
      BY <2>1, <2>2, <2>3 DEF Distinct
    <3>2. ~(i < j) /\ ~(j < i)
      BY <2>2, <3>1
    <3> QED  BY <3>1, <3>2
  <2> QED  BY <2>1, <2>3 DEF Distinct, v
<1> QED  BY <1>1, <1>2

(***************************************************************************)
(* The inductive invariant.  That what is pending is open and unrefused    *)
(* keeps a refused connection from being served; that a connection outside *)
(* its handshake has age zero keeps a newcomer the youngest of the queue.  *)
(***************************************************************************)
Shape ==
    /\ pid \in [Conns -> Pids \cup {None}]
    /\ age \in [Conns -> 0..MaxAge]
    /\ frame \in [Conns -> {"none", "part", "valid", "invalid", "eof"}]
    /\ handler \in [Conns -> {"none", "authenticating", "serving", "closing"}]
    /\ transport \in [Conns -> {"open", "flushing", "closed"}]
    /\ refused \in [Conns -> BOOLEAN]
    /\ shutdown \in {"no", "waiting", "down"}

Queue ==
    /\ pending \in Seq(Conns) /\ Distinct(pending)
    /\ \A c \in Members(pending) :
           handler[c] = "authenticating" /\ transport[c] = "open" /\ ~refused[c]

IdleAreFresh ==
    \A c \in Conns : /\ handler[c] # "authenticating" => age[c] = 0
                     /\ handler[c] \in {"none", "serving"} => ~refused[c]

ByAge == \A i, j \in DOMAIN pending : i < j => age[pending[i]] >= age[pending[j]]

PeersBounded ==
    \A p \in Pids : IsFiniteSet(SamePeer(p)) /\ Cardinality(SamePeer(p)) <= MaxPerPeer

Admitted == Queue /\ IdleAreFresh /\ ByAge /\ Len(pending) <= MaxPending /\ PeersBounded

ConnInv == Shape /\ Admitted

LEMMA PendingAreMembers ==
  /\ \A c : IsPending(c) <=> c \in Members(pending)
  /\ \A c : IsPending(c)' <=> c \in Members(pending')
  BY DEF IsPending, Members

LEMMA PeerMembers ==
  /\ \A p, c : c \in SamePeer(p) <=> c \in Conns /\ c \in Members(pending) /\ pid[c] = p
  /\ \A p, c : c \in SamePeer(p)' <=> c \in Conns /\ c \in Members(pending') /\ pid'[c] = p
  BY DEF SamePeer, IsPending, Members

LEMMA MaxAgeType == MaxAge \in Nat /\ MaxAge >= Grace /\ MaxAge >= AuthTimeout
  BY ConnectionsAssumption DEF MaxAge

\* The queue loses connections, and no process gains one.
LEMMA FewerKeep ==
  ASSUME ConnInv, pending' \in Seq(Conns), Distinct(pending'), Within(pending', pending),
         Len(pending') <= Len(pending),
         \A c \in Members(pending') :
             /\ c \in Members(pending) /\ pid'[c] = pid[c] /\ age'[c] = age[c]
             /\ UNCHANGED <<handler[c], transport[c]>> /\ ~refused'[c],
         IdleAreFresh'
  PROVE  Admitted'
<1>1. Queue'
  BY DEF ConnInv, Admitted, Queue
<1>2. ByAge'
  <2>1. PICK from \in [DOMAIN pending' -> DOMAIN pending] :
            /\ \A i \in DOMAIN pending' : pending'[i] = pending[from[i]]
            /\ \A i, j \in DOMAIN pending' : i < j => from[i] < from[j]
    BY DEF Within
  <2>2. \A i \in DOMAIN pending' : age'[pending'[i]] = age[pending[from[i]]]
    BY <2>1 DEF Members
  <2> QED  BY <2>1, <2>2 DEF ConnInv, Admitted, ByAge
<1>3. PeersBounded'
  <2> SUFFICES ASSUME NEW p \in Pids
               PROVE  IsFiniteSet(SamePeer(p)') /\ Cardinality(SamePeer(p)') <= MaxPerPeer
      BY DEF PeersBounded
  <2>1. SamePeer(p)' \in SUBSET SamePeer(p)
    BY PeerMembers
  <2>2. IsFiniteSet(SamePeer(p)) /\ Cardinality(SamePeer(p)) <= MaxPerPeer
    BY DEF ConnInv, Admitted, PeersBounded
  <2>3. /\ IsFiniteSet(SamePeer(p)')
        /\ Cardinality(SamePeer(p)') <= Cardinality(SamePeer(p))
    BY <2>1, <2>2, FS_Subset
  <2>4. Cardinality(SamePeer(p)') \in Nat /\ Cardinality(SamePeer(p)) \in Nat
    BY <2>2, <2>3, FS_CardinalityType
  <2> QED  BY <2>2, <2>3, <2>4, ConnectionsAssumption
<1>4. Len(pending') <= MaxPending
  BY ConnectionsAssumption DEF ConnInv, Admitted, Queue
<1> QED  BY <1>1, <1>2, <1>3, <1>4 DEF Admitted

\* A connection leaves the queue, if it is in it, with its handshake.
LEMMA LeavingKeeps ==
  ASSUME ConnInv, NEW c \in Conns, pending' = Without(pending, c), Forgets(c),
         \A d \in Conns \ {c} : UNCHANGED <<handler[d], transport[d], refused[d]>>,
         handler'[c] # "authenticating",
         handler'[c] \in {"none", "serving"} => ~refused'[c]
  PROVE  Admitted'
<1>1. pending \in Seq(Conns) /\ Distinct(pending)
  BY DEF ConnInv, Admitted, Queue
<1>2. /\ pending' \in Seq(Conns) /\ Len(pending') <= Len(pending)
      /\ Members(pending') = Members(pending) \ {c}
      /\ Within(pending', pending) /\ Distinct(pending')
  BY <1>1, WithoutFacts
<1>3. Members(pending) \subseteq Conns
  BY <1>1 DEF Members
<1>4. /\ \A d \in Conns \ {c} : pid'[d] = pid[d] /\ age'[d] = age[d]
      /\ age'[c] = 0
  BY DEF Forgets, ConnInv, Shape
<1>5. \A d \in Members(pending') :
          /\ d \in Members(pending) /\ pid'[d] = pid[d] /\ age'[d] = age[d]
          /\ UNCHANGED <<handler[d], transport[d]>> /\ ~refused'[d]
  BY <1>2, <1>3, <1>4 DEF ConnInv, Admitted, Queue
<1>6. IdleAreFresh'
  BY <1>4 DEF IdleAreFresh, ConnInv, Admitted
<1> QED  BY <1>2, <1>5, <1>6, FewerKeep

\* Nothing about the queue changes.
LEMMA OthersKeep ==
  ASSUME ConnInv, UNCHANGED <<pending, pid, age>>,
         \A c \in Conns :
             /\ handler'[c] = "authenticating" <=> handler[c] = "authenticating"
             /\ c \in Members(pending) => transport'[c] = transport[c] /\ ~refused'[c]
             /\ handler'[c] \in {"none", "serving"} => ~refused'[c]
  PROVE  Admitted'
<1>1. Members(pending) \subseteq Conns
  BY DEF ConnInv, Admitted, Queue, Members
<1>2. Queue' /\ IdleAreFresh' /\ ByAge'
  BY <1>1 DEF ConnInv, Admitted, Queue, IdleAreFresh, ByAge
<1>3. \A p : SamePeer(p)' = SamePeer(p)
  BY PeerMembers
<1> QED  BY <1>2, <1>3 DEF ConnInv, Admitted, PeersBounded

(***************************************************************************)
(* Admission.                                                              *)
(***************************************************************************)
LEMMA HasSmallest ==
  ASSUME NEW S \in SUBSET Nat, S # {}
  PROVE  \E m \in S : \A k \in S : m <= k
<1> DEFINE R == {pair \in Nat \X Nat : pair[1] < pair[2]}
<1>1. IsWellFoundedOn(R, Nat)
  BY NatLessThanWellFounded DEF OpToRel
<1>2. PICK m \in S : \A k \in S : ~(<<k, m>> \in R)
  <2> HIDE DEF R
  <2> QED  BY <1>1, WFMin
<1>3. \A k \in S : ~(k < m)
  BY <1>2
<1> QED  BY <1>3

\* Oldest picks a member of S, and none of S has waited longer.
LEMMA OldestIsMember ==
  ASSUME Shape, Queue, ByAge, NEW S, S \subseteq Members(pending), S # {}
  PROVE  Oldest(S) \in S /\ \A d \in S : age[d] <= age[Oldest(S)]
<1> DEFINE places == {i \in DOMAIN pending : pending[i] \in S}
<1>1. DOMAIN pending = 1..Len(pending) /\ Len(pending) \in Nat
  BY DEF Queue
<1>2. places \in SUBSET Nat /\ places # {}
  BY <1>1 DEF Members
<1>3. PICK m \in places : \A k \in places : m <= k
  <2> HIDE DEF places
  <2> QED  BY <1>2, HasSmallest
<1>4. m \in DOMAIN pending /\ pending[m] \in S /\ \A j \in 1..(m - 1) : pending[j] \notin S
  <2>1. ASSUME NEW j \in 1..(m - 1), pending[j] \in S
        PROVE  FALSE
    <3>1. j \in places /\ j < m
      BY <1>1, <2>1
    <3> QED  BY <1>1, <1>3, <3>1
  <2> QED  BY <2>1
<1> DEFINE k == CHOOSE i \in DOMAIN pending :
                    pending[i] \in S /\ \A j \in 1..(i - 1) : pending[j] \notin S
<1>5. k \in DOMAIN pending /\ pending[k] \in S /\ \A j \in 1..(k - 1) : pending[j] \notin S
  BY <1>4
<1>6. Oldest(S) = pending[k]
  BY DEF Oldest
<1> HIDE DEF k
<1>7. ASSUME NEW d \in S
      PROVE  age[d] <= age[pending[k]]
  <2>1. PICK i \in DOMAIN pending : pending[i] = d
    BY DEF Members
  <2>2. ~(i < k)
    BY <1>1, <1>5, <2>1
  <2>3. pending[i] \in Conns /\ pending[k] \in Conns
    BY <1>5 DEF Queue
  <2>4. age[pending[i]] \in Nat /\ age[pending[k]] \in Nat
    BY <2>3, MaxAgeType DEF Shape
  <2>5. i = k \/ age[pending[k]] >= age[pending[i]]
    BY <1>1, <1>5, <2>2 DEF ByAge
  <2> QED  BY <2>1, <2>4, <2>5
<1> QED  BY <1>5, <1>6, <1>7

LEMMA CandidateFacts ==
  ASSUME ConnInv, NEW p \in Pids
  PROVE  /\ Candidate(p) = None =>
                Len(pending) < MaxPending /\ Cardinality(SamePeer(p)) < MaxPerPeer
         /\ Candidate(p) # None =>
                /\ Candidate(p) \in Members(pending)
                /\ Candidate(p) \in SamePeer(p) \/ Cardinality(SamePeer(p)) < MaxPerPeer
                /\ \/ /\ Cardinality(SamePeer(p)) >= MaxPerPeer
                      /\ Candidate(p) \in SamePeer(p)
                      /\ \A d \in SamePeer(p) : age[d] <= age[Candidate(p)]
                   \/ /\ Len(pending) >= MaxPending
                      /\ \A d \in Members(pending) : age[d] <= age[Candidate(p)]
<1>1. Shape /\ ByAge /\ Queue /\ Len(pending) \in Nat /\ Members(pending) \subseteq Conns
  BY DEF ConnInv, Admitted, Queue, Members
<1>2. IsFiniteSet(SamePeer(p)) /\ Cardinality(SamePeer(p)) \in Nat
  BY FS_CardinalityType DEF ConnInv, Admitted, PeersBounded
<1>3. CASE Cardinality(SamePeer(p)) >= MaxPerPeer
  <2>1. SamePeer(p) # {} /\ SamePeer(p) \subseteq Members(pending)
    BY <1>3, FS_EmptySet, PeerMembers, ConnectionsAssumption
  <2>2. /\ Oldest(SamePeer(p)) \in SamePeer(p)
        /\ \A d \in SamePeer(p) : age[d] <= age[Oldest(SamePeer(p))]
    BY <1>1, <2>1, OldestIsMember
  <2>3. Candidate(p) = Oldest(SamePeer(p))
    BY <1>3 DEF Candidate
  <2>4. Candidate(p) \in SamePeer(p) /\ \A d \in SamePeer(p) : age[d] <= age[Candidate(p)]
    BY <2>2, <2>3
  <2>5. Candidate(p) \in Members(pending) /\ Candidate(p) # None
    BY <1>1, <2>1, <2>4, ConnectionsAssumption
  <2> QED  BY <1>3, <2>4, <2>5
<1>4. CASE Cardinality(SamePeer(p)) < MaxPerPeer /\ Len(pending) >= MaxPending
  <2>1. Candidate(p) = pending[1]
    BY <1>2, <1>4, ConnectionsAssumption DEF Candidate
  <2>2. pending[1] \in Members(pending)
    BY <1>1, <1>4, ConnectionsAssumption DEF Members, Queue
  <2>3. ASSUME NEW d \in Members(pending)
        PROVE  age[d] <= age[pending[1]]
    <3>1. PICK i \in DOMAIN pending : pending[i] = d
      BY DEF Members
    <3>2. i \in Nat /\ (i = 1 \/ 1 < i) /\ 1 \in DOMAIN pending
      BY <1>1, <1>4, ConnectionsAssumption DEF Queue
    <3>3. age[d] \in Nat /\ age[pending[1]] \in Nat
      BY <1>1, <2>2, MaxAgeType DEF Shape
    <3>4. i = 1 \/ age[pending[1]] >= age[d]
      BY <1>1, <3>1, <3>2 DEF ByAge
    <3> QED  BY <3>1, <3>3, <3>4
  <2> QED  BY <1>1, <1>2, <1>4, <2>1, <2>2, <2>3, ConnectionsAssumption
<1>5. CASE Cardinality(SamePeer(p)) < MaxPerPeer /\ Len(pending) < MaxPending
  BY <1>1, <1>2, <1>5, ConnectionsAssumption DEF Candidate
<1> QED  BY <1>1, <1>2, <1>3, <1>4, <1>5, ConnectionsAssumption

\* A newcomer of process p joins what is left of the queue, at its end.
LEMMA EnteringKeeps ==
  ASSUME ConnInv, NEW c \in Conns, NEW p \in Pids, Enters(c, p),
         NEW v \in Seq(Conns), Distinct(v), Within(v, pending),
         Members(v) \subseteq Members(pending), Len(v) < MaxPending,
         pending' = Append(v, c),
         IsFiniteSet(SamePeer(p) \cap Members(v)),
         Cardinality(SamePeer(p) \cap Members(v)) < MaxPerPeer,
         handler' = [handler EXCEPT ![c] = "authenticating"],
         transport'[c] = "open", refused'[c] = refused[c],
         \A d \in Members(v) : UNCHANGED <<transport[d], refused[d]>>,
         \A d \in Conns : handler[d] # "authenticating" => refused'[d] = refused[d]
  PROVE  Admitted'
<1>1. /\ handler[c] = "none" /\ pid' = [pid EXCEPT ![c] = p] /\ age' = age
  BY DEF Enters, Opens
<1>2. c \notin Members(pending) /\ age[c] = 0 /\ ~refused[c]
  BY <1>1 DEF ConnInv, Admitted, Queue, IdleAreFresh
<1>3. /\ pending' \in Seq(Conns) /\ Len(v) \in Nat /\ Len(pending') = Len(v) + 1
      /\ DOMAIN v = 1..Len(v) /\ DOMAIN pending' = 1..(Len(v) + 1)
      /\ pending'[Len(v) + 1] = c /\ \A i \in DOMAIN v : pending'[i] = v[i]
  OBVIOUS
<1>4. Members(pending') = Members(v) \cup {c}
  <2>1. \A i \in DOMAIN pending' : pending'[i] \in Members(v) \cup {c}
    BY <1>3 DEF Members
  <2>2. \A i \in DOMAIN v : v[i] \in Members(pending')
    BY <1>3 DEF Members
  <2>3. c \in Members(pending')
    BY <1>3 DEF Members
  <2> QED  BY <2>1, <2>2, <2>3 DEF Members
<1>5. \A i \in DOMAIN v : v[i] # c
  BY <1>2 DEF Members
<1>6. Queue'
  <2>1. Distinct(pending')
    BY <1>3, <1>5 DEF Distinct
  <2>2. Members(v) \subseteq Conns
    BY DEF Members
  <2>3. \A d \in Members(pending') :
            handler'[d] = "authenticating" /\ transport'[d] = "open" /\ ~refused'[d]
    BY <1>2, <1>4, <2>2 DEF ConnInv, Shape, Admitted, Queue
  <2> QED  BY <1>3, <2>1, <2>3 DEF Queue
<1>7. IdleAreFresh'
  BY <1>1 DEF ConnInv, Admitted, IdleAreFresh, Shape
<1>8. ByAge'
  <2>1. PICK from \in [DOMAIN v -> DOMAIN pending] :
            /\ \A i \in DOMAIN v : v[i] = pending[from[i]]
            /\ \A i, j \in DOMAIN v : i < j => from[i] < from[j]
    BY DEF Within
  <2>2. \A i, j \in DOMAIN v : i < j => age[v[i]] >= age[v[j]]
    BY <2>1 DEF ConnInv, Admitted, ByAge
  <2>3. \A i \in DOMAIN v : age[v[i]] >= age[c]
    BY <1>2 DEF ConnInv, Shape
  <2>4. ASSUME NEW i \in DOMAIN pending', NEW j \in DOMAIN pending', i < j
        PROVE  age[pending'[i]] >= age[pending'[j]]
    <3>1. i \in DOMAIN v
      BY <1>3, <2>4
    <3>2. CASE j \in DOMAIN v
      BY <1>3, <2>2, <2>4, <3>1, <3>2
    <3>3. CASE j = Len(v) + 1
      BY <1>3, <2>3, <3>1, <3>3
    <3> QED  BY <1>3, <3>2, <3>3
  <2> QED  BY <1>1, <2>4 DEF ByAge
<1>9. PeersBounded'
  <2> SUFFICES ASSUME NEW q \in Pids
               PROVE  IsFiniteSet(SamePeer(q)') /\ Cardinality(SamePeer(q)') <= MaxPerPeer
      BY DEF PeersBounded
  <2>1. \A d \in Conns : pid'[d] = IF d = c THEN p ELSE pid[d]
    BY <1>1 DEF ConnInv, Shape
  <2>2. CASE q = p
    <3> DEFINE left == SamePeer(p) \cap Members(v)
    <3>1. SamePeer(q)' = left \cup {c}
      BY <1>4, <2>1, <2>2, PeerMembers
    <3>2. IsFiniteSet(left) /\ Cardinality(left) < MaxPerPeer
      OBVIOUS
    <3> HIDE DEF left
    <3>3. /\ IsFiniteSet(left \cup {c}) /\ Cardinality(left) \in Nat
          /\ Cardinality(left \cup {c}) \in {Cardinality(left), Cardinality(left) + 1}
      BY <3>2, FS_AddElement, FS_CardinalityType
    <3> QED  BY <3>1, <3>2, <3>3, ConnectionsAssumption
  <2>3. CASE q # p
    <3>1. SamePeer(q)' \in SUBSET SamePeer(q)
      BY <1>4, <2>1, <2>3, PeerMembers
    <3>2. IsFiniteSet(SamePeer(q)) /\ Cardinality(SamePeer(q)) <= MaxPerPeer
      BY DEF ConnInv, Admitted, PeersBounded
    <3>3. /\ IsFiniteSet(SamePeer(q)')
          /\ Cardinality(SamePeer(q)') <= Cardinality(SamePeer(q))
      BY <3>1, <3>2, FS_Subset
    <3>4. Cardinality(SamePeer(q)') \in Nat /\ Cardinality(SamePeer(q)) \in Nat
      BY <3>2, <3>3, FS_CardinalityType
    <3> QED  BY <3>2, <3>3, <3>4, ConnectionsAssumption
  <2> QED  BY <2>2, <2>3
<1>10. Len(pending') <= MaxPending
  BY <1>3, ConnectionsAssumption
<1> QED  BY <1>6, <1>7, <1>8, <1>9, <1>10 DEF Admitted

LEMMA AdmitKeeps ==
  ASSUME ConnInv, NEW c \in Conns, NEW p \in Pids, Admit(c, p)
  PROVE  Admitted'
<1>1. /\ pending \in Seq(Conns) /\ Distinct(pending) /\ c \notin Members(pending)
  BY DEF ConnInv, Admitted, Queue, Admit, Enters, Opens
<1>2. Len(pending) < MaxPending /\ Cardinality(SamePeer(p)) < MaxPerPeer
  BY CandidateFacts DEF Admit
<1>3. Within(pending, pending)
  BY <1>1, WithoutFacts, WithoutAbsent
<1>4. SamePeer(p) \cap Members(pending) = SamePeer(p) /\ IsFiniteSet(SamePeer(p))
  BY PeerMembers DEF ConnInv, Admitted, PeersBounded
<1>5. /\ Enters(c, p) /\ pending' = Append(pending, c) /\ refused' = refused
      /\ handler' = [handler EXCEPT ![c] = "authenticating"]
      /\ transport'[c] = "open"
      /\ \A d \in Members(pending) : transport'[d] = transport[d]
  BY <1>1 DEF Admit, ConnInv, Shape, Members
<1> QED  BY <1>1, <1>2, <1>3, <1>4, <1>5, EnteringKeeps

LEMMA EvictKeeps ==
  ASSUME ConnInv, NEW c \in Conns, NEW p \in Pids, Evict(c, p)
  PROVE  Admitted'
<1> DEFINE k == Candidate(p)
           v == Without(pending, k)
<1>1. /\ pending \in Seq(Conns) /\ Distinct(pending) /\ c \notin Members(pending)
      /\ Len(pending) \in Nat /\ Len(pending) <= MaxPending
      /\ Members(pending) \subseteq Conns
  BY DEF ConnInv, Admitted, Queue, Evict, Enters, Opens, Members
<1>2. /\ k \in Members(pending)
      /\ k \in SamePeer(p) \/ Cardinality(SamePeer(p)) < MaxPerPeer
  BY CandidateFacts DEF Evict
<1>3. /\ Enters(c, p) /\ pending' = Append(v, c)
      /\ handler' = [handler EXCEPT ![c] = "authenticating"]
      /\ transport' = [transport EXCEPT ![c] = "open", ![k] = "closed"]
      /\ refused' = [refused EXCEPT ![k] = TRUE]
  BY DEF Evict
<1> HIDE DEF k
<1>4. /\ v \in Seq(Conns) /\ Len(v) = Len(pending) - 1 /\ Distinct(v)
      /\ Members(v) = Members(pending) \ {k} /\ Within(v, pending)
  BY <1>1, <1>2, WithoutFacts, WithoutMember
<1> HIDE DEF v
<1>5. Len(v) < MaxPending
  BY <1>1, <1>4, ConnectionsAssumption
<1>6. /\ IsFiniteSet(SamePeer(p) \cap Members(v))
      /\ Cardinality(SamePeer(p) \cap Members(v)) < MaxPerPeer
  <2>1. IsFiniteSet(SamePeer(p)) /\ Cardinality(SamePeer(p)) <= MaxPerPeer
    BY DEF ConnInv, Admitted, PeersBounded
  <2>2. SamePeer(p) \cap Members(v) = SamePeer(p) \ {k}
    BY <1>4, PeerMembers
  <2>3. Cardinality(SamePeer(p)) \in Nat
    BY <2>1, FS_CardinalityType
  <2>4. /\ IsFiniteSet(SamePeer(p) \ {k})
        /\ Cardinality(SamePeer(p) \ {k}) =
              IF k \in SamePeer(p) THEN Cardinality(SamePeer(p)) - 1
              ELSE Cardinality(SamePeer(p))
    BY <2>1, FS_RemoveElement
  <2>5. Cardinality(SamePeer(p) \ {k}) < MaxPerPeer
    BY <1>2, <2>1, <2>3, <2>4, ConnectionsAssumption
  <2> QED  BY <2>2, <2>4, <2>5
<1>7. \A d \in Members(v) : UNCHANGED <<transport[d], refused[d]>>
  BY <1>1, <1>3, <1>4 DEF ConnInv, Shape
<1>8. k # c /\ transport'[c] = "open" /\ refused'[c] = refused[c]
  BY <1>1, <1>2, <1>3 DEF ConnInv, Shape
<1>9. \A d \in Conns : handler[d] # "authenticating" => refused'[d] = refused[d]
  BY <1>2, <1>3 DEF ConnInv, Shape, Admitted, Queue
<1> QED  BY <1>3, <1>4, <1>5, <1>6, <1>7, <1>8, <1>9, EnteringKeeps

(***************************************************************************)
(* The steps.                                                              *)
(***************************************************************************)
LEMMA ClosingKeeps ==
  ASSUME ConnInv, NEW c \in Conns, End(c)
  PROVE  Admitted'
<1>1. /\ pending' = Without(pending, c) /\ Forgets(c)
      /\ handler'[c] = "closing"
      /\ \A d \in Conns \ {c} : UNCHANGED <<handler[d], transport[d], refused[d]>>
  BY DEF End, ConnInv, Shape
<1> QED  BY <1>1, LeavingKeeps

LEMMA AuthenticatedKeeps ==
  ASSUME ConnInv, NEW c \in Conns, Authenticated(c)
  PROVE  Admitted'
<1>1. /\ pending' = Without(pending, c) /\ Forgets(c)
      /\ handler'[c] # "authenticating"
      /\ \A d \in Conns \ {c} : UNCHANGED <<handler[d], transport[d], refused[d]>>
  BY DEF Authenticated, ConnInv, Shape
<1>2. ~refused'[c]
  BY PendingAreMembers DEF Authenticated, ConnInv, Admitted, Queue
<1> QED  BY <1>1, <1>2, LeavingKeeps

LEMMA TickKeeps ==
  ASSUME ConnInv, Tick
  PROVE  Shape' /\ Admitted'
<1>1. /\ age' = [c \in Conns |-> IF handler[c] = "authenticating" /\ age[c] < MaxAge
                                  THEN age[c] + 1 ELSE age[c]]
      /\ UNCHANGED <<pending, pid, frame, handler, transport, refused, shutdown>>
  BY DEF Tick
<1>2. age \in [Conns -> 0..MaxAge] /\ MaxAge \in Nat /\ Members(pending) \subseteq Conns
  BY MaxAgeType DEF ConnInv, Shape, Admitted, Queue, Members
<1>3. Shape'
  <2>1. age' \in [Conns -> 0..MaxAge]
    BY <1>1, <1>2
  <2> QED  BY <1>1, <2>1 DEF ConnInv, Shape
<1>4. Queue' /\ IdleAreFresh'
  BY <1>1 DEF ConnInv, Admitted, Queue, IdleAreFresh
<1>5. ByAge'
  <2> SUFFICES ASSUME NEW i \in DOMAIN pending, NEW j \in DOMAIN pending, i < j
               PROVE  age'[pending[i]] >= age'[pending[j]]
      BY <1>1 DEF ByAge
  <2>1. /\ pending[i] \in Conns /\ handler[pending[i]] = "authenticating"
        /\ pending[j] \in Conns /\ handler[pending[j]] = "authenticating"
    BY <1>2 DEF ConnInv, Admitted, Queue, Members
  <2>2. age[pending[i]] >= age[pending[j]]
    BY DEF ConnInv, Admitted, ByAge
  <2> QED  BY <1>1, <1>2, <2>1, <2>2
<1>6. \A p : SamePeer(p)' = SamePeer(p)
  BY <1>1, PeerMembers
<1> QED  BY <1>1, <1>3, <1>4, <1>5, <1>6 DEF ConnInv, Admitted, PeersBounded

LEMMA CloseKeeps ==
  ASSUME ConnInv, Close
  PROVE  Admitted'
<1>1. /\ pending' = <<>> /\ refused' = [c \in Conns |-> refused[c] \/ IsPending(c)]
      /\ UNCHANGED <<pid, age, frame, handler, transport>>
  BY DEF Close
<1>2. /\ pending' \in Seq(Conns) /\ Distinct(pending') /\ Members(pending') = {}
      /\ Len(pending') <= Len(pending)
  BY <1>1 DEF Distinct, Members, ConnInv, Admitted, Queue
<1>3. Within(pending', pending)
  <2> DEFINE from == [i \in {} |-> i]
  <2>1. DOMAIN pending' = {}
    BY <1>1
  <2>2. from \in [{} -> DOMAIN pending]
    OBVIOUS
  <2> HIDE DEF from
  <2> QED  BY <2>1, <2>2 DEF Within
<1>4. IdleAreFresh'
  BY <1>1, PendingAreMembers DEF ConnInv, Admitted, Queue, IdleAreFresh
<1> QED  BY <1>2, <1>3, <1>4, FewerKeep

LEMMA ShapeStep ==
  ASSUME ConnInv, [Next]_vars
  PROVE  Shape'
<1> USE DEF ConnInv, Shape
<1>1. 0 \in 0..MaxAge
  BY MaxAgeType
<1>2. ASSUME NEW c \in Conns, NEW p \in Pids, Admit(c, p) \/ Evict(c, p) \/ TurnAway(c, p)
      PROVE  Shape'
  <2>1. CASE Admit(c, p)
    BY <2>1 DEF Admit, Enters, Opens
  <2>2. CASE Evict(c, p)
    <3> DEFINE k == Candidate(p)
    <3>1. /\ pid' = [pid EXCEPT ![c] = p] /\ UNCHANGED <<age, frame, shutdown>>
          /\ handler' = [handler EXCEPT ![c] = "authenticating"]
          /\ transport' = [transport EXCEPT ![c] = "open", ![k] = "closed"]
          /\ refused' = [refused EXCEPT ![k] = TRUE]
      BY <2>2 DEF Evict, Enters, Opens
    <3> HIDE DEF k
    <3> QED  BY <3>1
  <2>3. CASE TurnAway(c, p)
    BY <2>3 DEF TurnAway, Opens
  <2> QED  BY <1>2, <2>1, <2>2, <2>3
<1>3. ASSUME NEW c \in Conns, NEW received \in {"part", "valid", "invalid", "eof"},
             ReceiveFrame(c, received)
      PROVE  Shape'
  BY <1>3 DEF ReceiveFrame
<1>4. ASSUME NEW c \in Conns, End(c)
      PROVE  Shape'
  BY <1>1, <1>4 DEF End, Forgets
<1>5. ASSUME NEW c \in Conns, Authenticated(c)
      PROVE  Shape'
  BY <1>1, <1>5 DEF Authenticated, Forgets
<1>6. ASSUME NEW c \in Conns, Finish(c) \/ DropSubscriber(c) \/ Flush(c) \/ AbortClose(c)
      PROVE  Shape'
  BY <1>6 DEF Finish, DropSubscriber, Flush, AbortClose
<1>7. CASE Tick
  BY <1>7, TickKeeps
<1>8. CASE Interrupt \/ Close
  BY <1>8 DEF Interrupt, Close
<1>9. CASE UNCHANGED vars
  BY <1>9 DEF vars
<1> HIDE DEF ConnInv, Shape
<1> QED  BY <1>2, <1>3, <1>4, <1>5, <1>6, <1>7, <1>8, <1>9
         DEF Next, Resume, AuthEof, AuthLate, AuthInvalid, AuthTimesOut, Leave, ServeEof

LEMMA AdmittedStep ==
  ASSUME ConnInv, [Next]_vars
  PROVE  Admitted'
<1>1. ASSUME NEW c \in Conns, NEW p \in Pids, TurnAway(c, p)
      PROVE  Admitted'
  <2>1. handler[c] = "none" /\ c \notin Members(pending)
        /\ UNCHANGED <<pending, pid, age>>
    BY <1>1 DEF TurnAway, Opens, ConnInv, Admitted, Queue
  <2>2. \A d \in Conns : /\ handler'[d] = "authenticating" <=> handler[d] = "authenticating"
                         /\ d \in Members(pending) =>
                                transport'[d] = transport[d] /\ ~refused'[d]
                         /\ handler'[d] \in {"none", "serving"} => ~refused'[d]
    BY <1>1, <2>1 DEF TurnAway, ConnInv, Shape, Admitted, Queue, IdleAreFresh
  <2> QED  BY <2>1, <2>2, OthersKeep
<1>2. ASSUME NEW c \in Conns, NEW received, ReceiveFrame(c, received)
      PROVE  Admitted'
  BY <1>2, OthersKeep DEF ReceiveFrame, ConnInv, Admitted, Queue, IdleAreFresh
<1>3. ASSUME NEW c \in Conns, Finish(c) \/ DropSubscriber(c) \/ Flush(c) \/ AbortClose(c)
      PROVE  Admitted'
  <2>1. c \notin Members(pending) /\ UNCHANGED <<pending, pid, age>>
    BY <1>3 DEF Finish, DropSubscriber, Flush, AbortClose, ConnInv, Admitted, Queue
  <2>2. \A d \in Conns : /\ handler'[d] = "authenticating" <=> handler[d] = "authenticating"
                         /\ d \in Members(pending) =>
                                transport'[d] = transport[d] /\ ~refused'[d]
                         /\ handler'[d] \in {"none", "serving"} => ~refused'[d]
    BY <1>3, <2>1 DEF Finish, DropSubscriber, Flush, AbortClose, ConnInv, Shape, Admitted,
                      Queue, IdleAreFresh
  <2> QED  BY <2>1, <2>2, OthersKeep
<1>4. CASE Interrupt \/ UNCHANGED vars
  BY <1>4, OthersKeep DEF Interrupt, vars, ConnInv, Admitted, Queue, IdleAreFresh
<1> QED  BY <1>1, <1>2, <1>3, <1>4, AdmitKeeps, EvictKeeps, ClosingKeeps, AuthenticatedKeeps,
            TickKeeps, CloseKeeps
         DEF Next, Resume, AuthEof, AuthLate, AuthInvalid, AuthTimesOut, Leave, ServeEof

LEMMA ConnInvariant == Spec => []ConnInv
<1>1. ASSUME Init
      PROVE  ConnInv
  <2>1. Shape
    BY <1>1, MaxAgeType DEF Init, Shape
  <2>2. Members(pending) = {} /\ \A p : SamePeer(p) = {}
    BY <1>1, PeerMembers DEF Init, Members
  <2>3. Queue /\ IdleAreFresh /\ ByAge
    BY <1>1, <2>2 DEF Init, Queue, Distinct, IdleAreFresh, ByAge
  <2>4. PeersBounded
    BY <2>2, FS_EmptySet, ConnectionsAssumption DEF PeersBounded
  <2>5. Len(pending) <= MaxPending
    BY <1>1, ConnectionsAssumption DEF Init
  <2> QED  BY <2>1, <2>3, <2>4, <2>5 DEF ConnInv, Admitted
<1>2. ConnInv /\ [Next]_vars => ConnInv'
  BY ShapeStep, AdmittedStep DEF ConnInv
<1> QED  BY <1>1, <1>2, PTL DEF Spec

\* Every variable keeps its shape, and what is pending is authenticating, once
\* each, for any limits and any peers.
THEOREM ConnectionTypes == Spec => []TypeOK
<1>1. ConnInv => TypeOK
  BY DEF ConnInv, Shape, Admitted, Queue, Distinct, Members, TypeOK
<1> QED  BY <1>1, ConnInvariant, PTL

\* No flood takes _pending past either limit, and it stays in order of age.
THEOREM AdmissionIsBounded == Spec => []PendingIsBounded
<1>1. ConnInv => PendingIsBounded
  BY DEF ConnInv, Admitted, PeersBounded, ByAge, PendingIsBounded
<1> QED  BY <1>1, ConnInvariant, PTL

\* An evicted connection is not served, wherever its valid frame was when it
\* was refused.
THEOREM RefusalsAreFinal == Spec => []RefusedNeverServed
<1>1. ConnInv => RefusedNeverServed
  BY DEF ConnInv, Admitted, IdleAreFresh, RefusedNeverServed
<1> QED  BY <1>1, ConnInvariant, PTL

\* A connection that is taken from the queue while its handler waits.
TakenForRoom(c) ==
    /\ age[c] >= Grace /\ refused'[c]
    /\ \/ /\ Cardinality(SamePeer(pid[c])) >= MaxPerPeer
          /\ \A d \in SamePeer(pid[c]) : age[d] <= age[c]
       \/ /\ Len(pending) >= MaxPending
          /\ \A d \in Conns : IsPending(d) => age[d] <= age[c]

\* A connection whose handler goes on.
Concludes(c) == frame[c] \in {"valid", "invalid", "eof"} \/ age[c] >= AuthTimeout

LEMMA OnlyOldLeave ==
  ASSUME ConnInv, [Next]_vars, NEW c \in Conns,
         c \in Members(pending), c \notin Members(pending')
  PROVE  IF handler'[c] = "authenticating" THEN TakenForRoom(c) ELSE Concludes(c)
<1>1. /\ handler[c] = "authenticating" /\ transport[c] = "open"
      /\ pending \in Seq(Conns) /\ Distinct(pending) /\ Members(pending) \subseteq Conns
  BY DEF ConnInv, Admitted, Queue, Members
<1>2. \A d \in Conns : pending' = Without(pending, d) => d = c
  BY <1>1, WithoutFacts
<1>3. ASSUME NEW d \in Conns, AuthEof(d) \/ AuthLate(d) \/ AuthInvalid(d) \/ Authenticated(d)
                              \/ AuthTimesOut(d) \/ Leave(d) \/ ServeEof(d)
      PROVE  handler'[c] # "authenticating" /\ Concludes(c)
  <2>1. pending' = Without(pending, d)
    BY <1>3 DEF AuthEof, AuthLate, AuthInvalid, Authenticated, AuthTimesOut, Leave,
                ServeEof, End
  <2>2. d = c
    BY <1>2, <2>1
  <2>3. handler'[c] # "authenticating"
    BY <1>3, <2>2 DEF AuthEof, AuthLate, AuthInvalid, Authenticated, AuthTimesOut, Leave,
                      ServeEof, End, ConnInv, Shape
  <2>4. Concludes(c)
    BY <1>1, <1>3, <2>2
    DEF AuthEof, AuthLate, AuthInvalid, Authenticated, AuthTimesOut, Leave, ServeEof,
        Concludes
  <2> QED  BY <2>3, <2>4
<1>4. ASSUME NEW d \in Conns, NEW p \in Pids, Admit(d, p)
      PROVE  FALSE
  <2>1. pending' = Append(pending, d)
    BY <1>4 DEF Admit
  <2>2. \A i \in DOMAIN pending : i \in DOMAIN pending' /\ pending'[i] = pending[i]
    BY <1>1, <2>1
  <2> QED  BY <2>2 DEF Members
<1>5. ASSUME NEW d \in Conns, NEW p \in Pids, Evict(d, p)
      PROVE  handler'[c] = "authenticating" /\ TakenForRoom(c)
  <2> DEFINE k == Candidate(p)
             v == Without(pending, k)
  <2>1. /\ pending' = Append(v, d) /\ age[k] >= Grace
        /\ handler' = [handler EXCEPT ![d] = "authenticating"]
        /\ refused' = [refused EXCEPT ![k] = TRUE]
    BY <1>5 DEF Evict, OldEnough
  <2>2. v \in Seq(Conns) /\ Members(v) = Members(pending) \ {k}
    BY <1>1, WithoutFacts
  <2>3. \/ /\ Cardinality(SamePeer(p)) >= MaxPerPeer /\ k \in SamePeer(p)
           /\ \A e \in SamePeer(p) : age[e] <= age[k]
        \/ /\ Len(pending) >= MaxPending
           /\ \A e \in Members(pending) : age[e] <= age[k]
    BY <1>5, CandidateFacts DEF Evict
  <2> HIDE DEF v, k
  <2>4. \A i \in DOMAIN v : i \in DOMAIN pending' /\ pending'[i] = v[i]
    BY <2>1, <2>2
  <2>5. k = c
    BY <2>2, <2>4 DEF Members
  <2>6. handler'[c] = "authenticating" /\ refused'[c] /\ age[c] >= Grace
    BY <1>1, <2>1, <2>5 DEF ConnInv, Shape
  <2>7. CASE /\ Cardinality(SamePeer(p)) >= MaxPerPeer /\ c \in SamePeer(p)
             /\ \A e \in SamePeer(p) : age[e] <= age[c]
    <3>1. pid[c] = p
      BY <2>7 DEF SamePeer
    <3> QED  BY <2>6, <2>7, <3>1 DEF TakenForRoom
  <2>8. CASE /\ Len(pending) >= MaxPending
             /\ \A e \in Members(pending) : age[e] <= age[c]
    BY <2>6, <2>8, PendingAreMembers DEF TakenForRoom
  <2> QED  BY <2>3, <2>5, <2>6, <2>7, <2>8
<1>6. ~Close
  BY <1>1 DEF Close
<1>7. pending' # pending
  OBVIOUS
<1>8. \/ pending' = pending \/ Close
      \/ \E d \in Conns : \/ \E p \in Pids : Admit(d, p) \/ Evict(d, p)
                          \/ AuthEof(d) \/ AuthLate(d) \/ AuthInvalid(d) \/ Authenticated(d)
                          \/ AuthTimesOut(d) \/ Leave(d) \/ ServeEof(d)
  BY DEF Next, Resume, vars, TurnAway, ReceiveFrame, DropSubscriber, Flush, AbortClose,
         Finish, Tick, Interrupt
<1> QED  BY <1>3, <1>4, <1>5, <1>6, <1>7, <1>8

\* Nothing takes a pending connection from a handler that still waits but an
\* eviction past the grace, of the oldest of those that fill a limit, which is
\* told; whatever else is pending goes by its own frame, EOF or deadline.
THEOREM TheYoungStay == Spec => YoungAreSpared
<1> DEFINE Spared(c) ==
          IsPending(c) /\ ~IsPending(c)' =>
             IF handler'[c] = "authenticating"
             THEN /\ age[c] >= Grace /\ refused'[c]
                  /\ \/ /\ Cardinality(SamePeer(pid[c])) >= MaxPerPeer
                        /\ \A d \in SamePeer(pid[c]) : age[d] <= age[c]
                     \/ /\ Len(pending) >= MaxPending
                        /\ \A d \in Conns : IsPending(d) => age[d] <= age[c]
             ELSE frame[c] \in {"valid", "invalid", "eof"} \/ age[c] >= AuthTimeout
<1>1. ConnInv /\ [Next]_vars => [\A c \in Conns : Spared(c)]_vars
  BY OnlyOldLeave, PendingAreMembers DEF TakenForRoom, Concludes
<1> QED  BY <1>1, ConnInvariant, PTL DEF Spec, YoungAreSpared
================================================================================
