------------------------- MODULE SessionCompaction --------------------------
(***************************************************************************)
(* Compaction on request: core.CompactNow (core/compact.go) beside the     *)
(* turns.  The gRPC CompactSession, Discord's /compact and the TUI's       *)
(* /compact call it; none of them takes the gate of the session, so its    *)
(* reads and its write fall anywhere between the steps of a turn and of    *)
(* one another.                                                            *)
(*                                                                         *)
(*   idle -> listed       MessageList                                      *)
(*   listed -> asking     SummaryLoad                                      *)
(*   asking -> done       summarize, SummarySave                           *)
(*                                                                         *)
(* A caller that is killed is one that takes no further step.              *)
(***************************************************************************)
EXTENDS SessionTurns

CONSTANT Request    \* calls of CompactNow

VARIABLES
    rpc,            \* place a request has reached
    rtarget,        \* its session
    rhistory,       \* rows MessageList returned to it
    rcontext,       \* the old summary and what it will fold in
    overtaken       \* sessions of which a request read a newer summary than history

requestVars == <<rpc, rtarget, rhistory, rcontext, overtaken>>
allVars == <<vars, requestVars>>

RequestInit ==
    /\ Init
    /\ rpc = [r \in Request |-> "idle"]
    /\ rtarget \in [Request -> Session]
    /\ rhistory = [r \in Request |-> {}]
    /\ rcontext = [r \in Request |-> NoContext]
    /\ overtaken = {}

\* CompactNow returns, and its variables are gone.
Return(r) ==
    /\ rpc' = [rpc EXCEPT ![r] = "done"]
    /\ rhistory' = [rhistory EXCEPT ![r] = {}]
    /\ rcontext' = [rcontext EXCEPT ![r] = NoContext]

RequestList(r) ==
    /\ rpc[r] = "idle"
    /\ rpc' = [rpc EXCEPT ![r] = "listed"]
    /\ rhistory' = [rhistory EXCEPT ![r] = History(rtarget[r])]
    /\ UNCHANGED <<vars, rtarget, rcontext, overtaken>>

\* The summary of s was saved by somebody who had read more of the session than
\* h, so summaryTail does not find its marker there.
Overtakes(s, h) ==
    summary[s] # NoSummary /\ summary[s].through \notin Ids(h)

\* With nothing left to fold in the request ends here.  A history that has been
\* overtaken is folded in whole, and into a summary that covers it already.
RequestLoad(r) ==
    LET s == rtarget[r]
        loaded == SummaryContext(s, rhistory[r])
    IN  /\ rpc[r] = "listed"
        /\ IF loaded.tail = {}
           THEN Return(r) /\ UNCHANGED overtaken
           ELSE /\ rpc' = [rpc EXCEPT ![r] = "asking"]
                /\ rhistory' = [rhistory EXCEPT ![r] = {}]
                /\ rcontext' = [rcontext EXCEPT ![r] = loaded]
                /\ overtaken' = IF Overtakes(s, rhistory[r])
                                THEN overtaken \cup {s} ELSE overtaken
        /\ UNCHANGED <<vars, rtarget>>

RequestSave(r) ==
    /\ rpc[r] = "asking"
    /\ rtarget[r] \in sessions
    /\ SaveSummary(rtarget[r], rcontext[r])
    /\ Return(r)
    /\ UNCHANGED <<turnVars, rtarget, overtaken>>

\* A query failed, the model did, or the session is gone.
RequestFails(r) ==
    /\ \/ rpc[r] \in {"idle", "listed"} /\ DBErrors
       \/ rpc[r] = "asking"
    /\ Return(r)
    /\ UNCHANGED <<vars, rtarget, overtaken>>

CompactNow(r) ==
    RequestList(r) \/ RequestLoad(r) \/ RequestSave(r) \/ RequestFails(r)

CompactionNext ==
    \/ Next /\ UNCHANGED requestVars
    \/ \E r \in Request : CompactNow(r)

CompactionSpec == RequestInit /\ [][CompactionNext]_allVars

-----------------------------------------------------------------------------
(* Properties *)

(***************************************************************************)
(* No message is lost between the summary and the tail: whoever loads the  *)
(* summary now has every completed message in one of them, and finds the   *)
(* marker in the history, whatever requests read a history that has grown  *)
(* since or a summary that has been replaced since.                        *)
(***************************************************************************)
NothingDropped(s) ==
    LET now == SummaryContext(s, History(s))
    IN  /\ Ids(History(s)) \subseteq now.covers \cup Ids(now.tail)
        /\ summary[s] # NoSummary => summary[s].through \in Ids(History(s))

(***************************************************************************)
(* Nor is one sent twice, in the summary and in the tail.                  *)
(***************************************************************************)
NothingTwice(s) ==
    LET now == SummaryContext(s, History(s))
    IN  now.covers \cap Ids(now.tail) = {}

(***************************************************************************)
(* Each message reaches the model, and but once, in any order of requests  *)
(* and turns that read a history, read a summary and save one.  A request  *)
(* that saves over a newer summary does no harm.  One that has read its    *)
(* history before the summary it reads was saved (the warning branch of    *)
(* summaryTail) drops nothing either, but it folds in again what that      *)
(* summary covers and moves the marker back, and what lies between is sent *)
(* twice from then on: the second part is of sessions that had none.       *)
(***************************************************************************)
EachMessageOnce ==
    \A s \in Session :
        /\ NothingDropped(s)
        /\ s \notin overtaken => NothingTwice(s)

=============================================================================
