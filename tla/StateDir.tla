------------------------------- MODULE StateDir -------------------------------
(***************************************************************************)
(* The files of a state directory that processes race for: the relay's     *)
(* socket, which a starting relay takes over from a dead one and a closing *)
(* relay removes (server.py), and the token file of a seat, which is       *)
(* created before the seat's row is committed (storage.py).  Every step    *)
(* between two system calls may be the last of its process.                *)
(*                                                                         *)
(* A relay and an add run once; those that run later are others.           *)
(***************************************************************************)
EXTENDS Naturals, FiniteSets

CONSTANTS
    Relays,  \* relay processes
    Adders,  \* processes that add one and the same seat; each draws its token
    None     \* no file, no row

\* A token file.
File == [by : Adders, written : BOOLEAN]

ASSUME StateDirAssumption == None \notin Relays \cup Adders \cup File

VARIABLES
    relay,      \* where a relay is
    path,       \* the relay whose socket is at socket_path
    saw,        \* the relays a start found at the path when it looked
    disturbed,  \* relays that were up beside an intruder
    adder,      \* where an add is
    file,       \* the token file: whose it is, and whether it is written
    row,        \* the add whose token digest the seats table holds
    writer,     \* the add whose transaction holds the database
    advised,    \* some add told the operator to remove the file
    meddled     \* the operator did so while an add was under way

socket == <<relay, path, saw, disturbed>>
seat == <<adder, file, row, writer, advised, meddled>>
vars == <<socket, seat>>

Init ==
    /\ relay = [r \in Relays |-> "new"] /\ path = None
    /\ saw = [r \in Relays |-> {}] /\ disturbed = {}
    /\ adder = [a \in Adders |-> "new"] /\ file = None /\ row = None
    /\ writer = None /\ advised = FALSE /\ meddled = FALSE

(***************************************************************************)
(* Relays: start, _prepare_socket_path and close.                          *)
(***************************************************************************)
Up == {"listening", "serving"}

\* A start that has looked and has not bound its socket, and a close that has
\* ended its listening: what either may still do is unlink the path.
Intruding == {"stale", "clear", "binding", "closing"}

Intruded ==
    {r \in Relays : /\ relay'[r] \in Up \cup {"bound"}
                    /\ \E q \in Relays \ {r} : relay'[q] \in Intruding /\ r \notin saw'[q]}

Answering == {r \in Relays : path = r /\ relay[r] \in Up}

Becomes(r, stage) ==
    /\ relay' = [relay EXCEPT ![r] = stage]
    /\ UNCHANGED saw
    /\ disturbed' = disturbed \cup Intruded

\* A start looks at the path.
Looks(r, stage) ==
    /\ relay' = [relay EXCEPT ![r] = stage]
    /\ saw' = [saw EXCEPT ![r] = Answering]
    /\ disturbed' = disturbed \cup Intruded

Inspect(r) ==
    /\ relay[r] = "new"
    /\ Looks(r, IF path = None THEN "clear" ELSE "probing")
    /\ UNCHANGED <<path, seat>>

\* Seeded bug: any error of the probe, a full backlog too, means a stale socket.
ProbeTakesBusyForStale(r) ==
    /\ relay[r] = "probing"
    /\ \E accepted \in BOOLEAN :
           Looks(r, IF accepted /\ Answering # {} THEN "failed" ELSE "stale")
    /\ UNCHANGED <<path, seat>>

\* Somebody listens, whether it accepts in time or not: the start fails.
Probe(r) ==
    /\ relay[r] = "probing"
    /\ Looks(r, IF Answering # {} THEN "failed" ELSE "stale")
    /\ UNCHANGED <<path, seat>>

Unlink(r) ==
    /\ relay[r] = "stale"
    /\ path' = None
    /\ Becomes(r, "clear")
    /\ UNCHANGED seat

\* asyncio removes a socket it finds at the path, then binds its own.
RemoveStale(r) ==
    /\ relay[r] = "clear"
    /\ path' = None
    /\ Becomes(r, "binding")
    /\ UNCHANGED seat

Bind(r) ==
    /\ relay[r] = "binding"
    /\ IF path = None THEN path' = r /\ Becomes(r, "bound")
       ELSE Becomes(r, "failed") /\ UNCHANGED path
    /\ UNCHANGED seat

Listen(r) ==
    /\ relay[r] = "bound"
    /\ Becomes(r, "listening")
    /\ UNCHANGED <<path, seat>>

\* The chmod of the path, which fails if the path has been unlinked.
Serve(r) ==
    /\ relay[r] = "listening"
    /\ Becomes(r, IF path = None THEN "failed" ELSE "serving")
    /\ UNCHANGED <<path, seat>>

\* The listening socket is closed; the library may unlink it if it is its own.
Close(r) ==
    /\ relay[r] = "serving"
    /\ path' \in {path, IF path = r THEN None ELSE path}
    /\ Becomes(r, "closing")
    /\ UNCHANGED seat

\* Connections have ended; whatever socket is at the path is unlinked.
EndClose(r) ==
    /\ relay[r] = "closing"
    /\ path' = None
    /\ Becomes(r, "ended")
    /\ UNCHANGED seat

CrashRelay(r) ==
    /\ relay[r] \notin {"new", "failed", "ended"}
    /\ Becomes(r, "ended")
    /\ UNCHANGED <<path, seat>>

(***************************************************************************)
(* Seats: add_seat, in the transaction its connection commits on exit.     *)
(***************************************************************************)
AdderBecomes(a, stage) == adder' = [adder EXCEPT ![a] = stage]

\* The file a writes to may have been unlinked, and replaced, by then.
Own(a) == file # None /\ file.by = a

\* A seat that is there is kept, unless its file is missing or the add wants
\* another can_forward.
SelectSeat(a) ==
    /\ adder[a] = "new"
    /\ \/ row = None /\ AdderBecomes(a, "creating")
       \/ row # None /\ file # None /\ AdderBecomes(a, "kept")
       \/ row # None /\ AdderBecomes(a, "failed")
    /\ UNCHANGED <<socket, file, row, writer, advised, meddled>>

\* Seeded bug: a token file that is there already is overwritten.
CreateTokenOverwrites(a) ==
    /\ adder[a] = "creating"
    /\ file' = [by |-> a, written |-> FALSE]
    /\ AdderBecomes(a, "writing")
    /\ UNCHANGED <<socket, row, writer, advised, meddled>>

\* O_EXCL: a file without a row is neither overwritten nor adopted.
CreateToken(a) ==
    /\ adder[a] = "creating"
    /\ IF file = None
       THEN /\ file' = [by |-> a, written |-> FALSE]
            /\ AdderBecomes(a, "writing") /\ UNCHANGED advised
       ELSE /\ advised' = TRUE
            /\ AdderBecomes(a, "failed") /\ UNCHANGED file
    /\ UNCHANGED <<socket, row, writer, meddled>>

WriteToken(a) ==
    /\ adder[a] = "writing"
    /\ file' = IF Own(a) THEN [file EXCEPT !.written = TRUE] ELSE file
    /\ AdderBecomes(a, "inserting")
    /\ UNCHANGED <<socket, row, writer, advised, meddled>>

\* The row is inserted, or the insert fails: the seat is there by now, the
\* database stays locked, or it cannot be written.
InsertSeat(a) ==
    /\ adder[a] = "inserting"
    /\ \/ /\ row = None /\ writer = None
          /\ writer' = a
          /\ AdderBecomes(a, "inserted")
       \/ AdderBecomes(a, "undoing") /\ UNCHANGED writer
    /\ UNCHANGED <<socket, file, row, advised, meddled>>

\* The path is unlinked, whatever file is there.
UnlinkToken(a) ==
    /\ adder[a] = "undoing"
    /\ file' = None
    /\ AdderBecomes(a, "failed")
    /\ UNCHANGED <<socket, row, writer, advised, meddled>>

\* A commit that fails leaves the token file.
CommitSeat(a) ==
    /\ adder[a] = "inserted"
    /\ \/ row' = a /\ AdderBecomes(a, "added")
       \/ AdderBecomes(a, "failed") /\ UNCHANGED row
    /\ writer' = None
    /\ UNCHANGED <<socket, file, advised, meddled>>

UnderWay == {"writing", "inserting", "inserted", "undoing"}

CrashAdder(a) ==
    /\ adder[a] \in UnderWay \cup {"creating"}
    /\ AdderBecomes(a, "crashed")
    /\ writer' = IF writer = a THEN None ELSE writer
    /\ UNCHANGED <<socket, file, row, advised, meddled>>

\* The operator follows the advice to remove the file of a seat without a row.
RemoveOrphan ==
    /\ advised /\ row = None /\ file # None
    /\ file' = None
    /\ advised' = FALSE
    /\ meddled' = (meddled \/ \E a \in Adders : adder[a] \in UnderWay)
    /\ UNCHANGED <<socket, adder, row, writer>>

Next ==
    \/ \E r \in Relays :
           \/ Inspect(r) \/ Probe(r) \/ Unlink(r) \/ RemoveStale(r) \/ Bind(r)
           \/ Listen(r) \/ Serve(r) \/ Close(r) \/ EndClose(r) \/ CrashRelay(r)
    \/ \E a \in Adders :
           \/ SelectSeat(a) \/ CreateToken(a) \/ WriteToken(a) \/ InsertSeat(a)
           \/ UnlinkToken(a) \/ CommitSeat(a) \/ CrashAdder(a)
    \/ RemoveOrphan

Spec == Init /\ [][Next]_vars

(***************************************************************************)
(* Properties.                                                             *)
(***************************************************************************)

\* A relay that is up is the one clients reach, unless another relay's start
\* that looked before it listened, or another relay's close, overlapped it:
\* then either may have unlinked its socket, and it serves nobody.
ListenerIsReached ==
    \A r \in Relays : relay[r] \in Up /\ r \notin disturbed => path = r

\* The seat's row goes with its token file, the whole token in it, through
\* crashes, failed inserts and commits and concurrent adds; so an add that
\* reports the path reports a token that authenticates.  Only an operator who is
\* told to remove the file of an add under way can break it.
RowHasItsToken ==
    /\ row # None /\ ~meddled => file = [by |-> row, written |-> TRUE]
    /\ \A a \in Adders : adder[a] \in {"added", "kept"} => row # None
=============================================================================
