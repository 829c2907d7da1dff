---------------------------- MODULE SessionStore ----------------------------
(***************************************************************************)
(* The SQLite tables a conversation lives in, and the statements core runs *)
(* on them: sessions (core/session.go), messages (core/chat.go),           *)
(* tool_calls (core/tool.go), session_summaries (core/compact.go) and      *)
(* token_usage (core/usage.go).                                            *)
(*                                                                         *)
(* Each operator is one statement or one transaction: SQLite runs it       *)
(* atomically, and nothing else is atomic.  A foreign key with ON DELETE   *)
(* CASCADE ties every table to sessions, so an insert for a session that   *)
(* is gone fails and leaves the tables alone.                              *)
(*                                                                         *)
(* Ids are uuids.  A turn writes one user and at most one assistant row,   *)
(* so the pair <<turn, role>> stands for the message id.  Rowids grow with *)
(* every insert; one counter serves all tables because only the order of   *)
(* rows within a table is ever compared.                                   *)
(***************************************************************************)
EXTENDS Naturals

CONSTANTS
    Session,    \* session ids
    Turn        \* turns: one per user message handed to core

VARIABLES
    sessions,   \* ids present in the sessions table
    messages,   \* rows of messages
    calls,      \* rows of tool_calls
    summary,    \* session_summaries: at most one row per session
    usage,      \* rows of token_usage of kind "turn"
    lastRow     \* the largest rowid handed out so far

storeVars == <<sessions, messages, calls, summary, usage, lastRow>>

Role == {"user", "assistant"}
Status == {"pending", "completed", "failed", "cancelled"}

\* What a turn's usage says about the context window: "high" is
\* tokens * 100 >= window * 90, "low" is less, "unknown" is a provider that
\* reports no prompt tokens or a model with no known window.
Level == {"high", "low", "unknown"}

MessageId == Turn \X Role

MessageRow ==
    [turn : Turn, role : Role, session : Session, status : Status, row : Nat]

\* Whether the provider gave the call a call id at all.
CallId == {"named", "blank"}

\* A call is known by its turn, the model round and the calls then left to do.
CallRow ==
    [turn : Turn, place : Nat \X Nat, id : CallId,
     status : {"pending", "completed", "failed"}]

UsageRow ==
    [turn : Turn, session : Session, level : Level, row : Nat]

SummaryRow == [covers : SUBSET MessageId, through : MessageId]

NoSummary == [covers |-> {}, through |-> <<>>]

StoreTypeOK ==
    /\ sessions \subseteq Session
    /\ messages \subseteq MessageRow
    /\ calls \subseteq CallRow
    /\ summary \in [Session -> SummaryRow \cup {NoSummary}]
    /\ usage \subseteq UsageRow
    /\ lastRow \in Nat

StoreInit ==
    /\ sessions = Session
    /\ messages = {}
    /\ calls = {}
    /\ summary = [s \in Session |-> NoSummary]
    /\ usage = {}
    /\ lastRow = 0

-----------------------------------------------------------------------------
(* Queries *)

Ids(rows) == {<<m.turn, m.role>> : m \in rows}

\* The newest of a set of rows that have rowids.
Newest(rows) == CHOOSE m \in rows : \A n \in rows : n.row <= m.row

\* MessageList: the completed rows; a set here, its order is that of m.row.
History(s) == {m \in messages : m.session = s /\ m.status = "completed"}

CallsOf(t) == {c \in calls : c.turn = t}

\* replayableCalls: every call can be paired with its result.
ReplayableCalls(t) ==
    /\ CallsOf(t) # {}
    /\ \A c \in CallsOf(t) : c.id # "blank" /\ c.status # "pending"

\* historyMessages: the turns whose tool calls follow their question.
ReplayedTurns(rows) ==
    {m.turn : m \in {k \in rows : k.role = "user" /\ ReplayableCalls(k.turn)}}

\* Broken: history[index:], with the marker itself.
SummaryTailFromMarker(history, through) ==
    LET marked == {m \in history : <<m.turn, m.role>> = through}
    IN  IF marked = {}
        THEN history
        ELSE {m \in history : \A k \in marked : m.row >= k.row}

\* What follows the marker, or everything when the marker is not found.
SummaryTail(history, through) ==
    LET marked == {m \in history : <<m.turn, m.role>> = through}
    IN  IF marked = {}
        THEN history
        ELSE {m \in history : \A k \in marked : m.row > k.row}

\* What a caller keeps when there is no summary, or none could be loaded.
WholeHistory(history) == [covers |-> {}, tail |-> history]

\* SummaryLoad followed by summaryTail: what a caller holding `history` keeps
\* verbatim and what it takes from the summary text instead.
SummaryContext(s, history) ==
    IF summary[s] = NoSummary
    THEN WholeHistory(history)
    ELSE [covers |-> summary[s].covers,
          tail   |-> SummaryTail(history, summary[s].through)]

\* The usage rows SessionContextTokens looks at: those of turns whose user row
\* still exists and lies after the marker, if the marker still exists.
MeasuredUsage(s) ==
    {u \in usage :
        /\ u.session = s
        /\ \E m \in messages :
              /\ m.turn = u.turn /\ m.role = "user"
              /\ \A k \in messages :
                    <<k.turn, k.role>> = summary[s].through => m.row > k.row}

ContextLevel(s) ==
    IF MeasuredUsage(s) = {} THEN "unknown" ELSE Newest(MeasuredUsage(s)).level

-----------------------------------------------------------------------------
(* Statements and transactions *)

\* messageStart
InsertUser(t, s) ==
    /\ messages' = messages \cup
          {[turn |-> t, role |-> "user", session |-> s,
            status |-> "pending", row |-> lastRow + 1]}
    /\ lastRow' = lastRow + 1
    /\ UNCHANGED <<sessions, calls, summary, usage>>

\* messageFail: no condition on the status the row has.
FailUser(t, status) ==
    /\ messages' = {IF m.turn = t /\ m.role = "user"
                    THEN [m EXCEPT !.status = status] ELSE m : m \in messages}
    /\ UNCHANGED <<sessions, calls, summary, usage, lastRow>>

\* Broken: the answer is inserted outside the transaction that did not commit.
CompleteAnswerOnly(t, s) ==
    /\ messages' = messages \cup
          {[turn |-> t, role |-> "assistant", session |-> s,
            status |-> "completed", row |-> lastRow + 1]}
    /\ lastRow' = lastRow + 1
    /\ UNCHANGED <<sessions, calls, summary, usage>>

\* messageCompleteTurn: both statements commit or neither does.
CompleteTurn(t, s) ==
    /\ messages' =
          {IF m.turn = t /\ m.role = "user" /\ m.status = "pending"
           THEN [m EXCEPT !.status = "completed"] ELSE m : m \in messages}
          \cup {[turn |-> t, role |-> "assistant", session |-> s,
                 status |-> "completed", row |-> lastRow + 1]}
    /\ lastRow' = lastRow + 1
    /\ UNCHANGED <<sessions, calls, summary, usage>>

\* toolCallStart
InsertCall(t, place, id) ==
    /\ calls' = calls \cup {[turn |-> t, place |-> place, id |-> id,
                             status |-> "pending"]}
    /\ UNCHANGED <<sessions, messages, summary, usage, lastRow>>

\* The UPDATE that ends executeTool; it matches nothing once the row is gone.
UpdateCall(t, place, status) ==
    /\ calls' = {IF c.turn = t /\ c.place = place
                 THEN [c EXCEPT !.status = status] ELSE c : c \in calls}
    /\ UNCHANGED <<sessions, messages, summary, usage, lastRow>>

\* usageRecordWithContext for a turn.  Rows of the other kinds only add up in
\* SessionUsage: no decision reads them.
InsertUsage(t, s, level) ==
    /\ usage' = usage \cup {[turn |-> t, session |-> s, level |-> level,
                             row |-> lastRow + 1]}
    /\ lastRow' = lastRow + 1
    /\ UNCHANGED <<sessions, messages, calls, summary>>

\* Broken: the new text does not carry the old summary over.
SummaryOfTailOnly(context) ==
    LET last == Newest(context.tail)
    IN  [covers  |-> Ids(context.tail),
         through |-> <<last.turn, last.role>>]

\* What the summary row becomes when a summary of `context` is saved.
SummaryOf(context) ==
    LET last == Newest(context.tail)
    IN  [covers  |-> context.covers \cup Ids(context.tail),
         through |-> <<last.turn, last.role>>]

\* SummarySave: an upsert of the one row the session has.
SaveSummary(s, context) ==
    /\ summary' = [summary EXCEPT ![s] = SummaryOf(context)]
    /\ UNCHANGED <<sessions, messages, calls, usage, lastRow>>

\* SessionDelete (and SessionDeleteByAgent) with the cascades of the schema.
DeleteSession(s) ==
    /\ sessions' = sessions \ {s}
    /\ messages' = {m \in messages : m.session # s}
    /\ calls' = {c \in calls :
                   \A m \in messages : m.turn = c.turn => m.session # s}
    /\ summary' = [summary EXCEPT ![s] = NoSummary]
    /\ usage' = {u \in usage : u.session # s}
    /\ UNCHANGED lastRow
=============================================================================
