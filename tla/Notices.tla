------------------------------- MODULE Notices -------------------------------
(***************************************************************************)
(* The notice hooks of the two plugins (integrations/codex/src/wire_codex/ *)
(* notice.py, integrations/claude-code/hooks/wire_notice.py), beside the   *)
(* agents of Inbox.  A hook asks for the inventory of channels and, channel *)
(* by channel, for the cursor, and says that there are unread messages     *)
(* unless an earlier hook of the session has said so.  Hooks of a session  *)
(* may run at once.  The inventory fits a frame.                           *)
(***************************************************************************)
EXTENDS Inbox

CONSTANTS
    Hooks,         \* hook processes: one session for each adapter
    CodexHooks,    \* those of the Codex session
    MaxInspected,  \* MAX_CHANNELS: channels a hook asks for the cursor of
    MaxRuns        \* bound: hooks that are started

ASSUME NoticeAssumption ==
    CodexHooks \subseteq Hooks /\ MaxInspected \in Nat \ {0} /\ MaxRuns \in Nat

VARIABLES
    hook,         \* where a hook is, what it was told, what it found unread
    fingerprint,  \* the Codex session's row in notices.sqlite3
    seen,         \* the Claude session's file: channel to latest id announced
    undertaken,   \* per adapter: the latest ids some hook set out to announce
    runs          \* hooks started so far

hooks == <<hook, fingerprint, seen, undertaken, runs>>
noticeVars == <<inboxVars, hooks>>

Off == [stage |-> "off"]
Printing == [stage |-> "printing"]
Quiet(t) == [stage |-> "quiet", rows |-> t.rows, asked |-> t.asked]

Nothing == [c \in Channels |-> 0]

NoticeInit ==
    /\ InboxInit
    /\ hook = [h \in Hooks |-> Off]
    /\ fingerprint = <<>>
    /\ seen = Nothing
    /\ undertaken = [codex |-> {}, claude |-> {}]
    /\ runs = 0

(***************************************************************************)
(* The inventory, most recently active channel first, and the cursors.     *)
(***************************************************************************)
Latest(c) == Largest(In(c), 0)

Inventory == Reverse(Sorted({Latest(c) : c \in {k \in Channels : In(k) # {}}}))

\* A hook that asked for the cursors of the first channels.
Asking(starting, rows, asked, unread) ==
    [stage |-> "asking", starting |-> starting, rows |-> rows, asked |-> asked,
     unread |-> unread]

\* A SessionStart or a UserPromptSubmit; the Codex hook treats them alike.
StartHook(h) ==
    /\ hook[h].stage \in {"off", "quiet"} /\ runs < MaxRuns
    /\ runs' = runs + 1
    /\ \E starting \in IF h \in CodexHooks THEN {FALSE} ELSE BOOLEAN :
           hook' = [hook EXCEPT ![h] = Asking(starting, Inventory, 0, {})]
    /\ UNCHANGED <<inboxVars, fingerprint, seen, undertaken>>

Inspected(h) == Min({Len(hook[h].rows), MaxInspected})

AskCursor(h) ==
    LET t == hook[h]
        latest == t.rows[t.asked + 1]
    IN  /\ t.stage = "asking" /\ t.asked < Inspected(h)
        /\ hook' = [hook EXCEPT ![h] = Asking(t.starting, t.rows, t.asked + 1,
               IF latest > cursors[Seat][messages[latest].channel]
               THEN t.unread \cup {latest} ELSE t.unread)]
        /\ UNCHANGED <<inboxVars, fingerprint, seen, undertaken, runs>>

(***************************************************************************)
(* Deciding.  The Codex hook compares and replaces the fingerprint in one  *)
(* transaction.                                                            *)
(***************************************************************************)

\* Seeded bug: the number of unread channels stands for what is unread.
CodexFindingByCount(h) ==
    LET t == hook[h]
    IN  IF t.unread # {} THEN <<Cardinality(t.unread)>>
        ELSE IF Len(t.rows) > MaxInspected THEN <<Len(t.rows), t.rows[1]>>
        ELSE <<>>

\* What is unread, or that there are channels that were not inspected.
CodexFinding(h) ==
    LET t == hook[h]
    IN  IF t.unread # {} THEN Sorted(t.unread)
        ELSE IF Len(t.rows) > MaxInspected THEN <<Len(t.rows), t.rows[1]>>
        ELSE <<>>

CodexDecide(h) ==
    /\ h \in CodexHooks /\ hook[h].stage = "asking" /\ hook[h].asked = Inspected(h)
    /\ IF CodexFinding(h) \in {<<>>, fingerprint}
       THEN /\ hook' = [hook EXCEPT ![h] = Quiet(@)]
            /\ UNCHANGED <<fingerprint, undertaken>>
       ELSE /\ hook' = [hook EXCEPT ![h] = Printing]
            /\ fingerprint' = CodexFinding(h)
            /\ undertaken' = [undertaken EXCEPT !.codex = @ \cup hook[h].unread]
    /\ UNCHANGED <<inboxVars, seen, runs>>

\* The Claude Code hook reads its file in one step and replaces it in another.
\* It may run out of time before it has asked for every cursor.
Recall(h) ==
    /\ h \notin CodexHooks /\ hook[h].stage = "asking"
    /\ LET fresh == {id \in hook[h].unread : id > seen[messages[id].channel]}
       IN  hook' = [hook EXCEPT ![h] =
               [stage |-> "recalled", starting |-> @.starting, rows |-> @.rows,
                asked |-> @.asked, unread |-> @.unread, fresh |-> fresh, seen |-> seen]]
    /\ UNCHANGED <<inboxVars, fingerprint, seen, undertaken, runs>>

Announces(h, ids) ==
    IF ids # {} \/ hook[h].starting
    THEN /\ hook' = [hook EXCEPT ![h] = Printing]
         /\ undertaken' = [undertaken EXCEPT !.claude =
                @ \cup IF hook[h].starting THEN hook[h].unread ELSE ids]
    ELSE hook' = [hook EXCEPT ![h] = Quiet(@)] /\ UNCHANGED undertaken

\* Seeded bug: the file is replaced by what the channels hold by now.
RememberLatest(h) ==
    /\ hook[h].stage = "recalled"
    /\ seen' = IF hook[h].fresh = {} THEN seen ELSE [c \in Channels |-> Latest(c)]
    /\ Announces(h, hook[h].fresh)
    /\ UNCHANGED <<inboxVars, fingerprint, runs>>

\* A file that cannot be written silences nothing.
Remember(h) ==
    LET t == hook[h]
        newest(c) == {id \in t.fresh : messages[id].channel = c}
    IN  /\ t.stage = "recalled"
        /\ \/ /\ seen' = IF t.fresh = {} THEN seen
                         ELSE [c \in Channels |-> Largest(newest(c), t.seen[c])]
              /\ Announces(h, t.fresh)
           \/ Announces(h, t.unread) /\ UNCHANGED seen
        /\ UNCHANGED <<inboxVars, fingerprint, runs>>

\* The notice is printed, or the hook dies, fails or is out of time.
EndHook(h) ==
    /\ hook[h].stage \notin {"off", "quiet"}
    /\ hook' = [hook EXCEPT ![h] = Off]
    /\ UNCHANGED <<inboxVars, fingerprint, seen, undertaken, runs>>

NoticeNext ==
    \/ InboxNext /\ UNCHANGED hooks
    \/ \E h \in Hooks :
           \/ StartHook(h) \/ AskCursor(h) \/ CodexDecide(h)
           \/ Recall(h) \/ Remember(h) \/ EndHook(h)

NoticeSpec == NoticeInit /\ [][NoticeNext]_noticeVars

(***************************************************************************)
(* Properties.                                                             *)
(***************************************************************************)

\* A hook that keeps quiet swallows nothing: a message of a channel it
\* inspected that is unread still is covered by a notice that a hook of the
\* session set out to print.
QuietSwallowsNothing ==
    \A h \in Hooks :
        hook[h].stage = "quiet" =>
            \A i \in 1..hook[h].asked :
                LET latest == hook[h].rows[i]
                    c == messages[latest].channel
                    announced == undertaken[IF h \in CodexHooks THEN "codex" ELSE "claude"]
                IN  \A id \in In(c) :
                        cursors[Seat][c] < id /\ id <= latest =>
                            \E k \in announced \cap In(c) : id <= k
=============================================================================
