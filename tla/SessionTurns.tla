---------------------------- MODULE SessionTurns ----------------------------
(***************************************************************************)
(* Turns on sessions: Instance.Chat / ChatWithTools / ChatInput            *)
(* (core/instance.go) take the gate of the session and run                 *)
(* chatWithToolPolicy (core/chat.go), which reads the history, compacts it *)
(* (core/compact.go), inserts the user row, drives completionRun.execute   *)
(* (core/complete.go, core/anthropic.go) with its tool calls               *)
(* (core/tool.go), and completes or fails the row.                         *)
(*                                                                         *)
(* A turn is a goroutine; pc[t] is the place it has reached, and a step is *)
(* what it does between two points where other goroutines and other        *)
(* processes can get in.  Turns in Local belong to a second process (the   *)
(* local TUI or mininaru -p), which calls core.ChatWithApproval on the     *)
(* same database and takes no gate.                                        *)
(*                                                                         *)
(*   idle      -> waiting     the session and the instance are resolved    *)
(*   waiting   -> reading     acquire                                      *)
(*   reading   -> loading     MessageList                                  *)
(*   loading   -> summarizing | starting     SummaryLoad, the 90% test     *)
(*   summarizing -> starting  summarize, SummarySave                       *)
(*   starting  -> running     messageStart                                 *)
(*   running   -> dispatching | accounting | failing   one model round     *)
(*   dispatching <-> executing   toolCallStart, executeTool                *)
(*   accounting -> completing -> releasing   usage, messageCompleteTurn    *)
(*   failing   -> releasing   messageFail                                  *)
(*   releasing -> done        release                                      *)
(***************************************************************************)
EXTENDS SessionStore

CONSTANTS
    Local,          \* turns of the process that takes no gate
    MaxRounds,      \* maxToolRounds
    MaxCalls,       \* bound: tool calls in one model answer
    CallIds,        \* call ids the provider may give
    Levels,         \* usage the provider may report
    Compact,        \* config.Client.Context.Compact
    DBErrors,       \* may a statement fail with the session still there
    MaxReloads,     \* bound: SIGHUPs
    MaxCrashes      \* bound: kills of a process

ASSUME TurnsAssumption ==
    /\ Local \subseteq Turn
    /\ MaxRounds \in Nat \ {0}
    /\ MaxCalls \in Nat
    /\ CallIds \subseteq CallId
    /\ Levels \subseteq Level
    /\ Compact \in BOOLEAN
    /\ DBErrors \in BOOLEAN
    /\ MaxReloads \in Nat
    /\ MaxCrashes \in Nat

VARIABLES
    gate,           \* gate[l][s]: tokens in the channel of s in lock table l
    instanceLocks,  \* the lock table the registered instances point to
    reloads,        \* Reloads so far
    crashes,        \* kills so far
    pc,
    target,         \* the session of a turn
    lockTable,      \* the lock table of the instance a turn has resolved
    history,        \* rows MessageList returned to the turn
    context,        \* what compactHistory returned: summary and tail
    round,          \* model rounds used
    todo,           \* calls of the current answer still to dispatch
    cancelled       \* ctx.Err() != nil

gateVars == <<gate, instanceLocks, reloads>>
localVars == <<target, lockTable, history, context, round, todo>>
turnVars == <<gateVars, crashes, pc, localVars, cancelled>>
vars == <<storeVars, turnVars>>

\* Lock tables a Registry could hold; NewRegistry makes the first one and
\* Reload keeps it.
LockTable == 0 .. MaxReloads
RegistryLocks == 0

PC == {"idle", "waiting", "reading", "loading", "summarizing", "starting",
       "running", "dispatching", "executing", "accounting", "completing",
       "failing", "releasing", "done", "dead"}

\* Between acquire and release.
Inside == {"reading", "loading", "summarizing", "starting", "running",
           "dispatching", "executing", "accounting", "completing",
           "failing", "releasing"}

Active == Inside \cup {"waiting"}

NoContext == [covers |-> {}, tail |-> {}]

Context == [covers : SUBSET MessageId, tail : SUBSET MessageRow]

TypeOK ==
    /\ StoreTypeOK
    /\ gate \in [LockTable -> [Session -> 0 .. 1]]
    /\ instanceLocks \in LockTable
    /\ reloads \in 0 .. MaxReloads
    /\ crashes \in 0 .. MaxCrashes
    /\ pc \in [Turn -> PC]
    /\ target \in [Turn -> Session]
    /\ lockTable \in [Turn -> LockTable]
    /\ history \in [Turn -> SUBSET MessageRow]
    /\ context \in [Turn -> Context]
    /\ round \in [Turn -> 0 .. MaxRounds]
    /\ todo \in [Turn -> 0 .. MaxCalls]
    /\ cancelled \in [Turn -> BOOLEAN]

TurnInit ==
    /\ gate = [l \in LockTable |-> [s \in Session |-> 0]]
    /\ instanceLocks = RegistryLocks
    /\ reloads = 0
    /\ crashes = 0
    /\ pc = [t \in Turn |-> "idle"]
    /\ target \in [Turn -> Session]
    /\ lockTable = [t \in Turn |-> RegistryLocks]
    /\ history = [t \in Turn |-> {}]
    /\ context = [t \in Turn |-> NoContext]
    /\ round = [t \in Turn |-> 0]
    /\ todo = [t \in Turn |-> 0]
    /\ cancelled = [t \in Turn |-> FALSE]

Init == StoreInit /\ TurnInit

At(t, from) == pc[t] = from
Goto(t, to) == pc' = [pc EXCEPT ![t] = to]

\* A statement on a session may fail; with the session gone it must.
Exists(t) == target[t] \in sessions

-----------------------------------------------------------------------------
(* Entering and leaving the session *)

\* SessionFind and Registry.ByAgentId, before any lock is held.
Resolve(t) ==
    /\ At(t, "idle")
    /\ Exists(t)
    /\ Goto(t, IF t \in Local THEN "reading" ELSE "waiting")
    /\ lockTable' = [lockTable EXCEPT ![t] = instanceLocks]
    /\ UNCHANGED <<storeVars, gateVars, crashes, target, history, context,
                   round, todo, cancelled>>

\* acquire: the send on the gate's channel of capacity one.
Acquire(t) ==
    /\ At(t, "waiting")
    /\ gate[lockTable[t]][target[t]] = 0
    /\ gate' = [gate EXCEPT ![lockTable[t]][target[t]] = 1]
    /\ Goto(t, "reading")
    /\ UNCHANGED <<storeVars, instanceLocks, reloads, crashes, localVars,
                   cancelled>>

\* Broken: release is deferred before acquire is known to have succeeded.
GiveUpReleases(t) ==
    /\ At(t, "waiting")
    /\ cancelled[t]
    /\ Goto(t, "releasing")
    /\ UNCHANGED <<storeVars, gateVars, crashes, localVars, cancelled>>

\* Broken: a mutex, whose Lock does not watch the context.
GiveUpWithGate(t) ==
    /\ At(t, "waiting")
    /\ cancelled[t]
    /\ gate[lockTable[t]][target[t]] = 0
    /\ Goto(t, "done")
    /\ UNCHANGED <<storeVars, gateVars, crashes, localVars, cancelled>>

\* acquire: the other arm of the select.
GiveUp(t) ==
    /\ At(t, "waiting")
    /\ cancelled[t]
    /\ Goto(t, "done")
    /\ UNCHANGED <<storeVars, gateVars, crashes, localVars, cancelled>>

\* Broken: an early return of a cancelled turn skips the release.
ReleaseUnlessCancelled(t) ==
    /\ At(t, "releasing")
    /\ IF t \in Local \/ cancelled[t]
       THEN UNCHANGED gate
       ELSE gate' = [gate EXCEPT ![lockTable[t]][target[t]] = 0]
    /\ Goto(t, "done")
    /\ UNCHANGED <<storeVars, instanceLocks, reloads, crashes, localVars,
                   cancelled>>

\* release, deferred: it runs on every way out of the turn.
Release(t) ==
    /\ At(t, "releasing")
    /\ IF t \in Local
       THEN UNCHANGED gate
       ELSE /\ gate[lockTable[t]][target[t]] = 1
            /\ gate' = [gate EXCEPT ![lockTable[t]][target[t]] = 0]
    /\ Goto(t, "done")
    /\ UNCHANGED <<storeVars, instanceLocks, reloads, crashes, localVars,
                   cancelled>>

-----------------------------------------------------------------------------
(* chatWithToolPolicy before the model is called *)

ReadHistory(t) ==
    /\ At(t, "reading")
    /\ history' = [history EXCEPT ![t] = History(target[t])]
    /\ Goto(t, "loading")
    /\ UNCHANGED <<storeVars, gateVars, crashes, target, lockTable, context,
                   round, todo, cancelled>>

ReadFails(t) ==
    /\ At(t, "reading")
    /\ DBErrors
    /\ Goto(t, "releasing")
    /\ UNCHANGED <<storeVars, gateVars, crashes, localVars, cancelled>>

\* compactHistory up to the decision whether to summarize.  A summary that
\* cannot be loaded counts as none; token counts that cannot be loaded as
\* unknown.
LoadSummary(t) ==
    /\ At(t, "loading")
    /\ \E loaded \in {SummaryContext(target[t], history[t])} \cup
                     {c \in {WholeHistory(history[t])} : DBErrors},
          level \in {ContextLevel(target[t])} \cup
                    {l \in {"unknown"} : DBErrors} :
          /\ context' = [context EXCEPT ![t] = loaded]
          /\ Goto(t, IF Compact /\ level = "high" /\ loaded.tail # {}
                     THEN "summarizing" ELSE "starting")
    /\ UNCHANGED <<storeVars, gateVars, crashes, target, lockTable, history,
                   round, todo, cancelled>>

\* The summary call answered and the summary could be saved.
Summarize(t) ==
    /\ At(t, "summarizing")
    /\ Exists(t)
    /\ SaveSummary(target[t], context[t])
    /\ context' = [context EXCEPT ![t] =
                     [covers |-> SummaryOf(@).covers, tail |-> {}]]
    /\ Goto(t, "starting")
    /\ UNCHANGED <<gateVars, crashes, target, lockTable, history, round, todo,
                   cancelled>>

\* Broken: the tail is dropped although no summary took its place.
SummarizeFailsEmpty(t) ==
    /\ At(t, "summarizing")
    /\ context' = [context EXCEPT ![t].tail = {}]
    /\ Goto(t, "starting")
    /\ UNCHANGED <<storeVars, gateVars, crashes, target, lockTable, history,
                   round, todo, cancelled>>

\* The call failed, was cancelled, came back empty, or was not saved: the old
\* summary and the full tail are used.
SummarizeFails(t) ==
    /\ At(t, "summarizing")
    /\ Goto(t, "starting")
    /\ UNCHANGED <<storeVars, gateVars, crashes, localVars, cancelled>>

StartMessage(t) ==
    /\ At(t, "starting")
    /\ Exists(t)
    /\ InsertUser(t, target[t])
    /\ Goto(t, "running")
    /\ UNCHANGED <<gateVars, crashes, localVars, cancelled>>

\* The insert failed: the turn returns with no row to its name.
StartFails(t) ==
    /\ At(t, "starting")
    /\ ~Exists(t) \/ DBErrors
    /\ Goto(t, "releasing")
    /\ UNCHANGED <<storeVars, gateVars, crashes, localVars, cancelled>>

-----------------------------------------------------------------------------
(* completionRun.execute *)

\* A model answer without tool calls ends the loop.
Answer(t) ==
    /\ At(t, "running")
    /\ round[t] < MaxRounds
    /\ round' = [round EXCEPT ![t] = @ + 1]
    /\ Goto(t, "accounting")
    /\ UNCHANGED <<storeVars, gateVars, crashes, target, lockTable, history,
                   context, todo, cancelled>>

AskTools(t) ==
    /\ At(t, "running")
    /\ round[t] < MaxRounds
    /\ round' = [round EXCEPT ![t] = @ + 1]
    /\ \E n \in 1 .. MaxCalls : todo' = [todo EXCEPT ![t] = n]
    /\ Goto(t, "dispatching")
    /\ UNCHANGED <<storeVars, gateVars, crashes, target, lockTable, history,
                   context, cancelled>>

\* The stream breaks, the context ends, or the rounds are used up.
RoundFails(t) ==
    /\ At(t, "running")
    /\ Goto(t, "failing")
    /\ UNCHANGED <<storeVars, gateVars, crashes, localVars, cancelled>>

\* dispatch: the next call is recorded before it runs.
StartCall(t) ==
    /\ At(t, "dispatching")
    /\ todo[t] > 0
    /\ Exists(t)
    /\ \E id \in CallIds :
          InsertCall(t, <<round[t], todo[t]>>, id)
    /\ Goto(t, "executing")
    /\ UNCHANGED <<gateVars, crashes, localVars, cancelled>>

\* executeTool: the tool ran, failed or was refused, and its row is updated.
FinishCall(t) ==
    /\ At(t, "executing")
    /\ \E status \in {"completed", "failed"} :
          UpdateCall(t, <<round[t], todo[t]>>, status)
    /\ todo' = [todo EXCEPT ![t] = @ - 1]
    /\ Goto(t, "dispatching")
    /\ UNCHANGED <<gateVars, crashes, target, lockTable, history, context,
                   round, cancelled>>

\* Broken: a result that cannot be stored is only logged.
CallFailsLogged(t) ==
    /\ At(t, "executing")
    /\ DBErrors
    /\ todo' = [todo EXCEPT ![t] = @ - 1]
    /\ Goto(t, "dispatching")
    /\ UNCHANGED <<storeVars, gateVars, crashes, target, lockTable, history,
                   context, round, cancelled>>

\* Recording or updating a call failed: dispatch returns the error and the
\* run ends, a call that was started staying pending.
CallFails(t) ==
    /\ \/ At(t, "dispatching") /\ todo[t] > 0 /\ (~Exists(t) \/ DBErrors)
       \/ At(t, "executing") /\ DBErrors
    /\ Goto(t, "failing")
    /\ UNCHANGED <<storeVars, gateVars, crashes, localVars, cancelled>>

NextRound(t) ==
    /\ At(t, "dispatching")
    /\ todo[t] = 0
    /\ Goto(t, "running")
    /\ UNCHANGED <<storeVars, gateVars, crashes, localVars, cancelled>>

-----------------------------------------------------------------------------
(* chatWithToolPolicy after the run *)

\* messageFail: the row is cancelled when the context ended, failed otherwise.
Fail(t) ==
    /\ At(t, "failing")
    /\ \/ FailUser(t, IF cancelled[t] THEN "cancelled" ELSE "failed")
       \/ DBErrors /\ UNCHANGED storeVars
    /\ Goto(t, "releasing")
    /\ UNCHANGED <<gateVars, crashes, localVars, cancelled>>

\* usageRecordWithContext: nothing when no tokens were reported, and an error
\* is swallowed.
RecordUsage(t) ==
    /\ At(t, "accounting")
    /\ \/ UNCHANGED storeVars
       \/ /\ Exists(t)
          /\ \E level \in Levels : InsertUsage(t, target[t], level)
    /\ Goto(t, "completing")
    /\ UNCHANGED <<gateVars, crashes, localVars, cancelled>>

Complete(t) ==
    /\ At(t, "completing")
    /\ Exists(t)
    /\ CompleteTurn(t, target[t])
    /\ Goto(t, "releasing")
    /\ UNCHANGED <<gateVars, crashes, localVars, cancelled>>

\* The transaction failed: the answer is lost and the user row stays pending.
CompleteFails(t) ==
    /\ At(t, "completing")
    /\ ~Exists(t) \/ DBErrors
    /\ Goto(t, "releasing")
    /\ UNCHANGED <<storeVars, gateVars, crashes, localVars, cancelled>>

-----------------------------------------------------------------------------
(* The rest of the world *)

\* The caller goes away: a stop button, a lost stream, a timeout, a shutdown.
Cancel(t) ==
    /\ pc[t] \in Active
    /\ ~cancelled[t]
    /\ cancelled' = [cancelled EXCEPT ![t] = TRUE]
    /\ UNCHANGED <<storeVars, gateVars, crashes, pc, localVars>>

\* session delete, agent delete: no lock is taken.
Delete(s) ==
    /\ s \in sessions
    /\ DeleteSession(s)
    /\ UNCHANGED turnVars

\* Broken: every reload makes a lock table of its own.
ReloadFreshLocks ==
    /\ reloads < MaxReloads
    /\ reloads' = reloads + 1
    /\ instanceLocks' = reloads + 1
    /\ UNCHANGED <<storeVars, gate, crashes, pc, localVars, cancelled>>

\* Registry.Reload: new instances, the registry's locks.
Reload ==
    /\ reloads < MaxReloads
    /\ reloads' = reloads + 1
    /\ instanceLocks' = RegistryLocks
    /\ UNCHANGED <<storeVars, gate, crashes, pc, localVars, cancelled>>

\* The daemon is killed and started again: its goroutines and its lock table
\* are gone, the tables stay.
CrashDaemon ==
    /\ crashes < MaxCrashes
    /\ crashes' = crashes + 1
    /\ pc' = [t \in Turn |-> IF t \notin Local /\ pc[t] \in Active
                             THEN "dead" ELSE pc[t]]
    /\ gate' = [l \in LockTable |-> [s \in Session |-> 0]]
    /\ instanceLocks' = RegistryLocks
    /\ UNCHANGED <<storeVars, reloads, localVars, cancelled>>

\* A local process is killed in the middle of its turn.
CrashLocal(t) ==
    /\ t \in Local
    /\ crashes < MaxCrashes
    /\ crashes' = crashes + 1
    /\ pc[t] \in Active
    /\ Goto(t, "dead")
    /\ UNCHANGED <<storeVars, gateVars, localVars, cancelled>>

Step(t) ==
    \/ Acquire(t) \/ GiveUp(t) \/ Release(t)
    \/ ReadHistory(t) \/ ReadFails(t) \/ LoadSummary(t)
    \/ Summarize(t) \/ SummarizeFails(t)
    \/ StartMessage(t) \/ StartFails(t)
    \/ Answer(t) \/ AskTools(t) \/ RoundFails(t)
    \/ StartCall(t) \/ FinishCall(t) \/ CallFails(t) \/ NextRound(t)
    \/ Fail(t) \/ RecordUsage(t) \/ Complete(t) \/ CompleteFails(t)

Environment ==
    \/ \E t \in Turn : Resolve(t) \/ Cancel(t) \/ CrashLocal(t)
    \/ \E s \in Session : Delete(s)
    \/ Reload
    \/ CrashDaemon

Next == (\E t \in Turn : Step(t)) \/ Environment

Spec == Init /\ [][Next]_vars

\* Goroutines are scheduled, and a model call or a tool ends at the latest
\* when the caller's context does.
StepFairness == \A t \in Turn : WF_vars(Step(t))

\* All that is sure when models and tools may hang: a goroutine parked in the
\* select of acquire runs when one of its arms is ready.
ParkedFairness == \A t \in Turn : WF_vars(Acquire(t) \/ GiveUp(t))

ParkedSpec == Spec /\ ParkedFairness

-----------------------------------------------------------------------------
(* Properties *)

(***************************************************************************)
(* The gate does its work: no two turns of the daemon are inside one       *)
(* session, whatever instances a reload put in between and whoever gave up *)
(* waiting (Registry.Reload, sessionLocks.acquire and release).            *)
(***************************************************************************)
OneTurnPerSession ==
    \A t, u \in Turn \ Local :
        /\ t # u
        /\ target[t] = target[u]
        => ~(pc[t] \in Inside /\ pc[u] \in Inside)

(***************************************************************************)
(* A completed question has its answer and an answer its question: the     *)
(* two rows are written by one transaction of messageCompleteTurn, with    *)
(* crashes, failing statements and a deleted session in between.           *)
(***************************************************************************)
ExchangesWhole ==
    \A m \in messages :
        m.status = "completed" =>
            \A role \in Role :
                \E k \in History(m.session) :
                    k.turn = m.turn /\ k.role = role

(***************************************************************************)
(* The replayed history alternates: between a question and its answer, in  *)
(* rowid order, there is no completed message of another turn.  The user   *)
(* row is inserted before the model runs and the answer long after, so     *)
(* this is what serializing the turns is for.                              *)
(***************************************************************************)
ExchangesContiguous ==
    \A u, a, m \in messages :
        /\ u.turn = a.turn /\ u.role = "user" /\ a.role = "assistant"
        /\ m.session = u.session /\ m.status = "completed"
        => ~(u.row < m.row /\ m.row < a.row)

(***************************************************************************)
(* A turn that completed is replayed with its tool calls, unless the       *)
(* provider left one without an id: every call that was recorded pending   *)
(* was updated, or the run ended with an error (dispatch, executeTool).    *)
(***************************************************************************)
CompletedCallsSettled ==
    \A s \in Session : \A m \in History(s) :
        /\ m.role = "user"
        /\ CallsOf(m.turn) # {}
        /\ \A c \in CallsOf(m.turn) : c.id = "named"
        => m.turn \in ReplayedTurns(History(s))

(***************************************************************************)
(* The summary stands for exactly the messages up to its marker: nothing   *)
(* before it is missing from the text, nothing after it is in it twice     *)
(* (compactHistory, SummarySave).                                          *)
(***************************************************************************)
SummaryIsPrefix ==
    \A s \in Session :
        summary[s] # NoSummary =>
            \E k \in History(s) :
                /\ summary[s].through = <<k.turn, k.role>>
                /\ summary[s].covers =
                      Ids({m \in History(s) : m.row <= k.row})

(***************************************************************************)
(* A row that is no longer pending keeps its status and its place until    *)
(* its session is deleted: messageFail updates whatever status it finds,   *)
(* and messageCompleteTurn does not look at the rows it has changed.       *)
(***************************************************************************)
SettledForGood ==
    [][\A m \in messages :
         m.status # "pending" => m \in messages' \/ m.session \notin sessions'
      ]_vars

(***************************************************************************)
(* If models and tools return, every turn ends: nobody waits for a gate    *)
(* for ever, and a gate whose holder failed, was cancelled or lost its     *)
(* session is given back.                                                  *)
(***************************************************************************)
TurnsEnd ==
    StepFairness =>
        \A t \in Turn : pc[t] \in Active ~> pc[t] \in {"done", "dead"}

(***************************************************************************)
(* A caller that waits for the gate and is cancelled leaves, even when the *)
(* turn inside never does: the reason the gate is a channel.               *)
(***************************************************************************)
WaiterLeaves ==
    \A t \in Turn :
        pc[t] = "waiting" /\ cancelled[t] ~> pc[t] # "waiting"

(***************************************************************************)
(* Turns implement Conversation.  An exchange is seen by a turn when both  *)
(* its messages reached the model, verbatim or covered by the summary.     *)
(***************************************************************************)
SeenBy(t) ==
    LET ids == context[t].covers \cup Ids(context[t].tail)
    IN  {u \in Turn : \A role \in Role : <<u, role>> \in ids}

LogOf(s) ==
    {[turn |-> m.turn, seen |-> SeenBy(m.turn)] :
        m \in {k \in History(s) : k.role = "user"}}

Promise == INSTANCE Conversation WITH
    open <- sessions, log <- [s \in Session |-> LogOf(s)]

\* The specification of Conversation, as a property of the turns.
ImplementsConversation == Promise!Spec

=============================================================================
