--------------------------- MODULE StateDirProofs ---------------------------
(***************************************************************************)
(* The theorems about StateDir, for any number of relays and of adds.      *)
(***************************************************************************)
EXTENDS StateDir, TLAPS

(***************************************************************************)
(* The socket path.                                                        *)
(***************************************************************************)

RelayStages == {"new", "probing", "stale", "clear", "binding", "bound", "listening",
           "serving", "closing", "ended", "failed"}

SocketTypeOK ==
    /\ relay \in [Relays -> RelayStages]
    /\ saw \in [Relays -> SUBSET Relays]
    /\ disturbed \subseteq Relays

\* A start goes on past its probe only if nobody answered.
SawNobody ==
    \A q \in Relays : relay[q] \in Up \cup Intruding \cup {"bound"} => saw[q] = {}

\* A relay that has bound its socket still has it at the path, and nobody is
\* about to unlink it, unless somebody was while it was there.
PathIsHeld ==
    \A r \in Relays :
        relay[r] \in Up \cup {"bound"} /\ r \notin disturbed =>
            /\ path = r
            /\ \A q \in Relays \ {r} : relay[q] \notin Intruding

SocketInv == SocketTypeOK /\ SawNobody /\ PathIsHeld

LEMMA SocketInit == Init => SocketInv
  BY DEF Init, SocketInv, SocketTypeOK, SawNobody, PathIsHeld, RelayStages, Up, Intruding

\* A relay that holds its socket after a step that moved another relay into
\* an intruding stage counts as disturbed, if nobody had seen it.
LEMMA MovesAreNoted ==
  ASSUME SocketInv, NEW q \in Relays, NEW stage \in RelayStages,
         relay' = [relay EXCEPT ![q] = stage], SawNobody',
         disturbed' = disturbed \cup Intruded
  PROVE  \A r \in Relays :
            relay'[r] \in Up \cup {"bound"} /\ r \notin disturbed' =>
                /\ r \notin disturbed
                /\ \A p \in Relays \ {r} : relay'[p] \notin Intruding
  BY DEF SocketInv, SawNobody, Intruded

LEMMA BecomesKeeps ==
  ASSUME SocketInv, NEW q \in Relays, NEW stage \in RelayStages, Becomes(q, stage),
         stage \in Up \cup Intruding \cup {"bound"} => saw[q] = {},
         \A r \in Relays :
             relay'[r] \in Up \cup {"bound"} /\ r \notin disturbed
             /\ (\A p \in Relays \ {r} : relay'[p] \notin Intruding) => path' = r
  PROVE  SocketInv'
<1>1. SocketTypeOK'
  BY DEF SocketInv, SocketTypeOK, Becomes, Intruded
<1>2. SawNobody'
  BY DEF SocketInv, SocketTypeOK, SawNobody, Becomes
<1>3. PathIsHeld'
  BY <1>2, MovesAreNoted DEF Becomes, PathIsHeld
<1>4. QED
  BY <1>1, <1>2, <1>3 DEF SocketInv

LEMMA LooksKeeps ==
  ASSUME SocketInv, NEW q \in Relays, NEW stage \in RelayStages, Looks(q, stage),
         relay[q] \in {"new", "probing"}, UNCHANGED path,
         stage \in {"clear", "probing", "failed", "stale"},
         stage \in {"clear", "stale"} => Answering = {}
  PROVE  SocketInv'
<1>1. SocketTypeOK'
  BY DEF SocketInv, SocketTypeOK, Looks, Intruded, Answering
<1>2. SawNobody'
  BY DEF SocketInv, SocketTypeOK, SawNobody, Looks, Up, Intruding
<1>3. PathIsHeld'
  BY <1>2, MovesAreNoted DEF Looks, SocketInv, SocketTypeOK, PathIsHeld, Up
<1>4. QED
  BY <1>1, <1>2, <1>3 DEF SocketInv

LEMMA RelayKeeps ==
  ASSUME SocketInv, NEW r \in Relays,
         \/ Inspect(r) \/ Probe(r) \/ Unlink(r) \/ RemoveStale(r) \/ Bind(r)
         \/ Listen(r) \/ Serve(r) \/ Close(r) \/ EndClose(r) \/ CrashRelay(r)
  PROVE  SocketInv'
<1> USE StateDirAssumption
<1>1. CASE Inspect(r)
  <2>1. path = None => Answering = {}
    BY DEF Answering
  <2>2. QED
    BY <1>1, <2>1, LooksKeeps DEF Inspect, RelayStages
<1>2. CASE Probe(r)
  BY <1>2, LooksKeeps DEF Probe, RelayStages
<1>3. CASE Unlink(r)
  BY <1>3, BecomesKeeps
  DEF Unlink, Becomes, RelayStages, Up, Intruding, SocketInv, SocketTypeOK, SawNobody, PathIsHeld
<1>4. CASE RemoveStale(r)
  BY <1>4, BecomesKeeps
  DEF RemoveStale, Becomes, RelayStages, Up, Intruding, SocketInv, SocketTypeOK, SawNobody, PathIsHeld
<1>5. CASE Bind(r)
  <2>1. CASE path = None
    BY <1>5, <2>1, BecomesKeeps
    DEF Bind, Becomes, RelayStages, Up, Intruding, SocketInv, SocketTypeOK, SawNobody, PathIsHeld
  <2>2. CASE path # None
    BY <1>5, <2>2, BecomesKeeps
    DEF Bind, Becomes, RelayStages, Up, Intruding, SocketInv, SocketTypeOK, SawNobody, PathIsHeld
  <2>3. QED
    BY <2>1, <2>2
<1>6. CASE Listen(r)
  BY <1>6, BecomesKeeps
  DEF Listen, Becomes, RelayStages, Up, Intruding, SocketInv, SocketTypeOK, SawNobody, PathIsHeld
<1>7. CASE Serve(r)
  <2>1. CASE path = None
    BY <1>7, <2>1, BecomesKeeps
    DEF Serve, Becomes, RelayStages, Up, Intruding, SocketInv, SocketTypeOK, SawNobody, PathIsHeld
  <2>2. CASE path # None
    BY <1>7, <2>2, BecomesKeeps
    DEF Serve, Becomes, RelayStages, Up, Intruding, SocketInv, SocketTypeOK, SawNobody, PathIsHeld
  <2>3. QED
    BY <2>1, <2>2
<1>8. CASE Close(r)
  BY <1>8, BecomesKeeps
  DEF Close, Becomes, RelayStages, Up, Intruding, SocketInv, SocketTypeOK, SawNobody, PathIsHeld
<1>9. CASE EndClose(r)
  BY <1>9, BecomesKeeps
  DEF EndClose, Becomes, RelayStages, Up, Intruding, SocketInv, SocketTypeOK, SawNobody, PathIsHeld
<1>10. CASE CrashRelay(r)
  BY <1>10, BecomesKeeps
  DEF CrashRelay, Becomes, RelayStages, Up, Intruding, SocketInv, SocketTypeOK, SawNobody, PathIsHeld
<1>11. QED
  BY <1>1, <1>2, <1>3, <1>4, <1>5, <1>6, <1>7, <1>8, <1>9, <1>10

\* Adds of seats and the operator touch no socket.
LEMMA SocketIsApart ==
  ASSUME SocketInv, UNCHANGED socket
  PROVE  SocketInv'
  BY DEF socket, SocketInv, SocketTypeOK, SawNobody, PathIsHeld

LEMMA SocketStep == SocketInv /\ [Next]_vars => SocketInv'
<1> SUFFICES ASSUME SocketInv, [Next]_vars PROVE SocketInv'
  OBVIOUS
<1>1. CASE \E r \in Relays :
           \/ Inspect(r) \/ Probe(r) \/ Unlink(r) \/ RemoveStale(r) \/ Bind(r)
           \/ Listen(r) \/ Serve(r) \/ Close(r) \/ EndClose(r) \/ CrashRelay(r)
  BY <1>1, RelayKeeps
<1>2. CASE UNCHANGED socket
  BY <1>2, SocketIsApart
<1>3. CASE \E a \in Adders :
           \/ SelectSeat(a) \/ CreateToken(a) \/ WriteToken(a) \/ InsertSeat(a)
           \/ UnlinkToken(a) \/ CommitSeat(a) \/ CrashAdder(a)
  BY <1>2, <1>3 DEF SelectSeat, CreateToken, WriteToken, InsertSeat, UnlinkToken,
                    CommitSeat, CrashAdder
<1>4. CASE RemoveOrphan
  BY <1>2, <1>4 DEF RemoveOrphan
<1>5. QED
  BY <1>1, <1>2, <1>3, <1>4 DEF Next, vars

\* The relay that is up is the one clients reach, however many relays start,
\* crash and close (_prepare_socket_path, close), unless one of them overlapped it.
THEOREM ListenersAreReached == Spec => []ListenerIsReached
<1>1. SocketInv => ListenerIsReached
  BY DEF SocketInv, PathIsHeld, ListenerIsReached
<1>2. QED
  BY <1>1, SocketInit, SocketStep, PTL DEF Spec

(***************************************************************************)
(* The token file.                                                         *)
(***************************************************************************)

AdderStages == {"new", "creating", "writing", "inserting", "inserted", "undoing",
                "kept", "added", "failed", "crashed"}

SeatTypeOK ==
    /\ adder \in [Adders -> AdderStages]
    /\ file \in {None} \cup File
    /\ row \in Adders \cup {None}
    /\ meddled \in BOOLEAN

\* The one transaction that is open has inserted its row and found none.
OneWriter == \A a \in Adders : adder[a] = "inserted" => writer = a /\ row = None

\* The row belongs to an add that has reported success.
RowIsFinal ==
    /\ row # None => adder[row] = "added"
    /\ \A a \in Adders : adder[a] \in {"added", "kept"} => row # None

\* An add under way has the file, so there is only one.
FileIsOwned ==
    ~meddled => \A a \in Adders :
        /\ adder[a] \in UnderWay => Own(a)
        /\ adder[a] \in {"inserting", "inserted"} => file.written

SeatInv == SeatTypeOK /\ OneWriter /\ RowIsFinal /\ FileIsOwned /\ RowHasItsToken

LEMMA SeatInit == Init => SeatInv
  BY StateDirAssumption
  DEF Init, SeatInv, SeatTypeOK, OneWriter, RowIsFinal, FileIsOwned, RowHasItsToken,
      AdderStages, UnderWay, File

LEMMA AdderKeeps ==
  ASSUME SeatInv, NEW a \in Adders,
         \/ SelectSeat(a) \/ CreateToken(a) \/ WriteToken(a) \/ InsertSeat(a)
         \/ UnlinkToken(a) \/ CommitSeat(a) \/ CrashAdder(a)
  PROVE  SeatInv'
<1> USE StateDirAssumption
    DEF SeatInv, SeatTypeOK, OneWriter, RowIsFinal, FileIsOwned, RowHasItsToken,
        AdderStages, UnderWay, Own, AdderBecomes, File
<1>1. CASE SelectSeat(a)
  BY <1>1 DEF SelectSeat
<1>2. CASE CreateToken(a)
  <2>1. [by |-> a, written |-> FALSE] \in File
    OBVIOUS
  <2>2. CASE file = None
    <3>1. row # None => meddled
      <4>1. row # None => [by |-> row, written |-> TRUE] \in File
        OBVIOUS
      <4>2. QED
        BY <2>2, <4>1
    <3>2. \A b \in Adders : ~meddled => adder[b] \notin UnderWay
      BY <2>2
    <3>3. /\ file' = [by |-> a, written |-> FALSE]
          /\ adder[a] = "creating"
          /\ adder' = [adder EXCEPT ![a] = "writing"]
          /\ UNCHANGED <<row, writer, meddled>>
      BY <1>2, <2>2 DEF CreateToken
    <3>4. file' # None /\ file'.by = a
      BY <2>1, <3>3
    <3>5. FileIsOwned'
      BY <3>2, <3>3, <3>4
    <3>6. SeatTypeOK' /\ OneWriter' /\ RowIsFinal' /\ RowHasItsToken'
      BY <2>1, <3>1, <3>3
    <3>7. QED
      BY <3>5, <3>6
  <2>3. CASE file # None
    BY <1>2, <2>3 DEF CreateToken
  <2>4. QED
    BY <2>2, <2>3
<1>3. CASE WriteToken(a)
  <2>1. /\ adder[a] = "writing"
        /\ adder' = [adder EXCEPT ![a] = "inserting"]
        /\ UNCHANGED <<row, writer, meddled>>
    BY <1>3 DEF WriteToken
  <2>2. [by |-> a, written |-> TRUE] \in File
    OBVIOUS
  <2>3. CASE Own(a)
    <3>1. file \in File
      BY <2>3
    <3>2. file' = [by |-> a, written |-> TRUE]
      BY <1>3, <2>3, <3>1 DEF WriteToken
    <3>3. row # None => meddled
      BY <2>1, <2>3
    <3>4. QED
      BY <2>1, <2>2, <2>3, <3>2, <3>3
  <2>4. CASE ~Own(a)
    <3>1. file' = file
      BY <1>3, <2>4 DEF WriteToken
    <3>2. QED
      BY <2>1, <2>4, <3>1
  <2>5. QED
    BY <2>3, <2>4
<1>4. CASE InsertSeat(a)
  BY <1>4 DEF InsertSeat
<1>5. CASE UnlinkToken(a)
  BY <1>5 DEF UnlinkToken
<1>6. CASE CommitSeat(a)
  BY <1>6 DEF CommitSeat
<1>7. CASE CrashAdder(a)
  BY <1>7 DEF CrashAdder
<1>8. QED
  BY <1>1, <1>2, <1>3, <1>4, <1>5, <1>6, <1>7

\* An operator who removes the file of no add under way removes an orphan.
LEMMA RemoveOrphanKeeps ==
  ASSUME SeatInv, RemoveOrphan
  PROVE  SeatInv'
  BY StateDirAssumption
  DEF RemoveOrphan, SeatInv, SeatTypeOK, OneWriter, RowIsFinal, FileIsOwned,
      RowHasItsToken, UnderWay, Own, File

\* Relays touch no seat.
LEMMA SeatIsApart ==
  ASSUME SeatInv, UNCHANGED seat
  PROVE  SeatInv'
  BY DEF seat, SeatInv, SeatTypeOK, OneWriter, RowIsFinal, FileIsOwned,
         RowHasItsToken, Own

LEMMA SeatStep == SeatInv /\ [Next]_vars => SeatInv'
<1> SUFFICES ASSUME SeatInv, [Next]_vars PROVE SeatInv'
  OBVIOUS
<1>1. CASE \E a \in Adders :
           \/ SelectSeat(a) \/ CreateToken(a) \/ WriteToken(a) \/ InsertSeat(a)
           \/ UnlinkToken(a) \/ CommitSeat(a) \/ CrashAdder(a)
  BY <1>1, AdderKeeps
<1>2. CASE RemoveOrphan
  BY <1>2, RemoveOrphanKeeps
<1>3. CASE UNCHANGED seat
  BY <1>3, SeatIsApart
<1>4. CASE \E r \in Relays :
           \/ Inspect(r) \/ Probe(r) \/ Unlink(r) \/ RemoveStale(r) \/ Bind(r)
           \/ Listen(r) \/ Serve(r) \/ Close(r) \/ EndClose(r) \/ CrashRelay(r)
  BY <1>3, <1>4 DEF Inspect, Probe, Unlink, RemoveStale, Bind, Listen, Serve, Close,
                    EndClose, CrashRelay
<1>5. QED
  BY <1>1, <1>2, <1>3, <1>4 DEF Next, vars

\* Whatever crashes, failed inserts and commits and concurrent adds do
\* (add_seat, connect), the row of a seat goes with its whole token, unless the
\* operator removes the file of an add under way.
THEOREM RowsHaveTheirTokens == Spec => []RowHasItsToken
<1>1. SeatInv => RowHasItsToken
  BY DEF SeatInv
<1>2. QED
  BY <1>1, SeatInit, SeatStep, PTL DEF Spec
=============================================================================
