------------------------------ MODULE ToolLoop ------------------------------
(***************************************************************************)
(* The loop that lets a model use tools: completionRun.execute, dispatch   *)
(* and executeAnthropic (core/complete.go, core/anthropic.go), executeTool *)
(* (core/tool.go), agent_call (core/subagent.go) and the way a builtin     *)
(* tool is reached (modules/builtin.go).                                   *)
(*                                                                         *)
(* A turn asks the model, runs the calls of its reply one by one, and asks *)
(* again.  A builtin runs in a goroutine of an in-process MCP server, so   *)
(* the caller and the tool are two processes: a cancelled caller leaves at *)
(* once, and the tool finds the caller's context in a map only while the   *)
(* caller is still there.  agent_call runs a second loop, "sub", in that   *)
(* goroutine.  How a question to the user is put and answered belongs to   *)
(* the front end, which composes Ask and Answered with actions of its own. *)
(***************************************************************************)
EXTENDS Naturals, Sequences

CONSTANTS
    Work,           \* what a front end may do with the session, numbered
    Runner,         \* what runs the turns, one of them for a behaviour
    Target,         \* what agent_call may name
    Safe,           \* tools that run without a question
    Dangerous,      \* tools that need approval
    CallId,         \* the ids providers give to calls, not always fresh
    MaxCalls,       \* bound: calls the models make in a behaviour
    MaxAtOnce,      \* bound: calls in one reply
    MaxToolRounds,  \* core/tool.go's constant of that name
    AllowDangerous, \* --allow-dangerous-tools
    None

ASSUME LoopAssumption ==
    /\ Work \subseteq Nat \ {0}
    /\ Runner \subseteq {"openai", "anthropic", "remote"}
    /\ Target \subseteq {"openai", "anthropic", "itself"}
    /\ MaxCalls \in Nat /\ MaxAtOnce \in Nat \ {0} /\ MaxToolRounds \in Nat \ {0}
    /\ AllowDangerous \in BOOLEAN
    /\ Safe \cap Dangerous = {}
    /\ None \notin {"pending", "completed", "failed", "cancelled", "lost"}

VARIABLES
    runs,     \* the kind of client the agent has, or a remote server
    calls,    \* every call made, in the order of toolCallStart
    rows,     \* for each, the status in tool_calls, None when it has no row
    loop,     \* the state of the turn's loop and of a delegated one
    job,      \* for each call, the builtin server's goroutine
    ran,      \* history: the calls whose tool took effect
    stopped,  \* the work whose context is cancelled
    outcome   \* history: how the turns ended

loopVars == <<runs, calls, rows, loop, job, ran, stopped, outcome>>

AgentTool == "agent_call"
Loop == {"turn", "sub"}

\* What a model may ask for.
Request ==
    [tool : Safe \cup Dangerous, id : CallId, target : {None}]
        \cup [tool : {AgentTool}, id : CallId, target : Target]

\* The calls of one reply.
Reply == UNION {[1..n -> Request] : n \in 1..MaxAtOnce}

Idle == [pc |-> "idle", round |-> 0, todo |-> <<>>, call |-> 0, work |-> 0, got |-> None]

Made(n) == n \in 1..Len(calls)
TurnOf(n) == calls[n].work
Cancelled(l) == loop[l].work \in stopped

\* The caller of n is still there, and so is its entry in builtinContexts.
Waits(l, n) == loop[l].pc = "wait" /\ loop[l].call = n
Known(n) == \E l \in Loop : Waits(l, n)

LoopTypeOK ==
    /\ runs \in Runner
    /\ Len(calls) <= MaxCalls
    /\ \A n \in 1..Len(calls) :
          /\ [tool |-> calls[n].tool, id |-> calls[n].id, target |-> calls[n].target] \in Request
          /\ calls[n].by \in Loop /\ calls[n].work \in Work
    /\ Len(rows) = Len(calls)
    /\ \A n \in 1..Len(rows) : rows[n] \in {None, "pending", "completed", "failed"}
    /\ \A l \in Loop :
          /\ loop[l].pc \in {"idle", "model", "start", "check", "asking", "send", "wait",
                             "settle", "over"}
          /\ loop[l].round \in 0..MaxToolRounds
          /\ loop[l].todo = <<>> \/ loop[l].todo \in Reply
          /\ loop[l].call \in 0..Len(calls)
    /\ job \in [1..MaxCalls -> {"none", "sent", "running", "gone"}]
    /\ ran \subseteq 1..Len(calls)
    /\ stopped \subseteq Work
    /\ outcome \in [Work -> {None, "completed", "failed", "cancelled", "lost"}]

LoopInit ==
    /\ runs \in Runner
    /\ calls = <<>> /\ rows = <<>>
    /\ loop = [l \in Loop |-> Idle]
    /\ job = [n \in 1..MaxCalls |-> "none"]
    /\ ran = {} /\ stopped = {}
    /\ outcome = [w \in Work |-> None]

-----------------------------------------------------------------------------
(* Helpers *)

\* loop l becomes `to`, which may refer to what it was.
Becomes(l, to) == loop' = [loop EXCEPT ![l] = to]
At(l, pc) == loop[l].pc = pc
Goto(l, pc) == Becomes(l, [loop[l] EXCEPT !.pc = pc])

\* The result of the call l is at, still to be written to its row.
Gets(l, status) == [loop[l] EXCEPT !.pc = "settle", !.got = status]

\* What a failing run does to the turn: messageFail with the status that the
\* context decides.
TurnEndsAs(l, how) ==
    outcome' = [outcome EXCEPT ![loop[l].work] =
        IF how = "failed" /\ Cancelled(l) THEN "cancelled" ELSE how]

\* The goroutine of call n is through with `status`; its caller, if it is
\* still there, has the result, and `others` is what else the loops become.
Finishes(n, status, others) ==
    /\ job' = [job EXCEPT ![n] = "gone"]
    /\ loop' = [l \in Loop |->
          IF Waits(l, n) THEN Gets(l, status) ELSE others[l]]

\* A loop is over.  The turn's ends the turn; the delegated one answers the
\* call it serves (runSubagent), with an error when it has nothing to say.
Ends(l, how) ==
    \/ /\ l = "turn"
       /\ Becomes("turn", [Idle EXCEPT !.pc = "over", !.work = loop["turn"].work])
       /\ TurnEndsAs("turn", how)
       /\ UNCHANGED job
    \/ /\ l = "sub"
       /\ \E n \in 1..Len(calls) :
             /\ job[n] = "running" /\ calls[n].tool = AgentTool
             /\ \E status \in IF how = "completed" THEN {"completed", "failed"} ELSE {"failed"} :
                   Finishes(n, status, [loop EXCEPT !["sub"] = Idle])
       /\ UNCHANGED outcome

-----------------------------------------------------------------------------
(* The loop *)

\* chatWithToolPolicy has saved the user's message and begins to execute.
Begin(w) ==
    /\ At("turn", "idle")
    /\ Becomes("turn", [Idle EXCEPT !.pc = "model", !.round = 1, !.work = w])
    /\ UNCHANGED <<runs, calls, rows, job, ran, stopped, outcome>>

\* The reply asks for tools.
ModelAsks(l) ==
    /\ At(l, "model")
    /\ \E reply \in Reply :
          /\ Len(calls) + Len(loop["turn"].todo) + Len(loop["sub"].todo) + Len(reply) <= MaxCalls
          /\ Becomes(l, [loop[l] EXCEPT !.pc = "start", !.todo = reply])
    /\ UNCHANGED <<runs, calls, rows, job, ran, stopped, outcome>>

\* The reply is text.
ModelAnswers(l) ==
    /\ At(l, "model")
    /\ Ends(l, "completed")
    /\ UNCHANGED <<runs, calls, rows, ran, stopped>>

\* The stream breaks, as it must once the context is cancelled.
ModelFails(l) ==
    /\ At(l, "model")
    /\ Ends(l, "failed")
    /\ UNCHANGED <<runs, calls, rows, ran, stopped>>

\* All calls of a reply are answered: ask again, up to the limit of rounds.
NextRound(l) ==
    /\ At(l, "start") /\ loop[l].todo = <<>>
    /\ \/ /\ loop[l].round < MaxToolRounds
          /\ Becomes(l, [loop[l] EXCEPT !.pc = "model", !.round = @ + 1])
          /\ UNCHANGED <<job, outcome>>
       \/ /\ loop[l].round = MaxToolRounds
          /\ Ends(l, "failed")
    /\ UNCHANGED <<runs, calls, rows, ran, stopped>>

\* toolCallStart.  A delegated run has no message and so no rows.
StartCall(l) ==
    /\ At(l, "start") /\ loop[l].todo # <<>>
    /\ LET r == Head(loop[l].todo)
       IN  calls' = Append(calls, [tool |-> r.tool, id |-> r.id, target |-> r.target,
                                   by |-> l, work |-> loop[l].work])
    /\ rows' = Append(rows, IF l = "turn" THEN "pending" ELSE None)
    /\ Becomes(l, [loop[l] EXCEPT !.pc = "check", !.todo = Tail(@), !.call = Len(calls) + 1])
    /\ UNCHANGED <<runs, job, ran, stopped, outcome>>

\* The row cannot be written, and the turn fails.
StartUnrecorded ==
    /\ At("turn", "start") /\ loop["turn"].todo # <<>>
    /\ Ends("turn", "failed")
    /\ UNCHANGED <<runs, calls, rows, ran, stopped>>

ToolOf(l) == calls[loop[l].call].tool

\* childDefs: a delegated run is not offered agent_call.
Offered(l) == Safe \cup Dangerous \cup IF l = "turn" THEN {AgentTool} ELSE {}

\* executeTool finds no such tool, and that is the call's result.
Unknown(l) ==
    /\ At(l, "check") /\ ToolOf(l) \notin Offered(l)
    /\ Becomes(l, Gets(l, "failed"))
    /\ UNCHANGED <<runs, calls, rows, job, ran, stopped, outcome>>

NeedsApproval(tool) == tool \in Dangerous /\ ~AllowDangerous

\* Broken: what a delegated run asks for counts as approved with the delegation.
PermitDelegated(l, granted) ==
    /\ At(l, "check") /\ ToolOf(l) \in Offered(l)
    /\ l = "turn" /\ NeedsApproval(ToolOf(l)) => ToolOf(l) \in granted
    /\ Goto(l, "send")
    /\ UNCHANGED <<runs, calls, rows, job, ran, stopped, outcome>>

\* executeTool's call needs no answer, or has had one that covers it:
\* `granted` are the tools that the front end no longer asks about.
Permit(l, granted) ==
    /\ At(l, "check") /\ ToolOf(l) \in Offered(l)
    /\ NeedsApproval(ToolOf(l)) => ToolOf(l) \in granted
    /\ Goto(l, "send")
    /\ UNCHANGED <<runs, calls, rows, job, ran, stopped, outcome>>

Ask(l, granted) ==
    /\ At(l, "check") /\ ToolOf(l) \in Offered(l)
    /\ NeedsApproval(ToolOf(l)) /\ ToolOf(l) \notin granted
    /\ Goto(l, "asking")
    /\ UNCHANGED <<runs, calls, rows, job, ran, stopped, outcome>>

Answered(l, yes) ==
    /\ At(l, "asking")
    /\ \/ yes /\ Goto(l, "send")
       \/ ~yes /\ Becomes(l, Gets(l, "failed"))
    /\ UNCHANGED <<runs, calls, rows, job, ran, stopped, outcome>>

\* builtinSessionExecute stores the context and sends the request; with a
\* context that is over already the request may not leave.
Send(l) ==
    /\ At(l, "send")
    /\ \/ /\ Goto(l, "wait")
          /\ job' = [job EXCEPT ![loop[l].call] = "sent"]
       \/ /\ Cancelled(l)
          /\ Becomes(l, Gets(l, "failed"))
          /\ UNCHANGED job
    /\ UNCHANGED <<runs, calls, rows, ran, stopped, outcome>>

\* sessionCall returns when the context ends, whatever the tool is doing.
Leave(l) ==
    /\ At(l, "wait") /\ Cancelled(l)
    /\ Becomes(l, Gets(l, "failed"))
    /\ UNCHANGED <<runs, calls, rows, job, ran, stopped, outcome>>

\* The end of executeTool: the row is updated and the result goes to the model.
Settle(l) ==
    /\ At(l, "settle")
    /\ rows' = IF l = "turn" THEN [rows EXCEPT ![loop[l].call] = loop[l].got] ELSE rows
    /\ Becomes(l, [loop[l] EXCEPT !.pc = "start", !.got = None])
    /\ UNCHANGED <<runs, calls, job, ran, stopped, outcome>>

\* The row cannot be updated, and the turn fails.
SettleUnrecorded ==
    /\ At("turn", "settle")
    /\ Ends("turn", "failed")
    /\ UNCHANGED <<runs, calls, rows, ran, stopped>>

\* A turn that a server runs: its stream ends early, because it is lost or
\* because the context it was opened with is.  What the server does from here
\* on is ChatStream's.
StreamEnds ==
    /\ runs = "remote"
    /\ loop["turn"].pc \in {"model", "start", "check", "send", "settle"}
    /\ Ends("turn", "lost")
    /\ UNCHANGED <<runs, calls, rows, ran, stopped>>

-----------------------------------------------------------------------------
(* The goroutine of the builtin server *)

\* builtinHandler takes the caller's context from the map, or makes do with
\* the request's own, which ends when the caller's notice arrives; the tools
\* look at the context before they act.
Alive(n) == Known(n) => TurnOf(n) \notin stopped
Dead(n) == Known(n) => TurnOf(n) \in stopped

\* The policy that dispatch put in the context: executeAnthropic puts none, a
\* tool run for a server has a context without one, and so has a handler that
\* came too late for the map.
HasPolicy(n) == Known(n) /\ runs = "openai"

ToolActs(n) ==
    /\ job[n] = "sent" /\ calls[n].tool # AgentTool
    /\ Alive(n)
    /\ job' = [job EXCEPT ![n] = "running"]
    /\ ran' = ran \cup {n}
    /\ UNCHANGED <<runs, calls, rows, loop, stopped, outcome>>

ToolRefuses(n) ==
    /\ job[n] = "sent"
    /\ Dead(n)
    /\ Finishes(n, "failed", loop)
    /\ UNCHANGED <<runs, calls, rows, ran, stopped, outcome>>

\* The tool returns a result or an error.
ToolReturns(n) ==
    /\ job[n] = "running" /\ calls[n].tool # AgentTool
    /\ \E status \in {"completed", "failed"} : Finishes(n, status, loop)
    /\ UNCHANGED <<runs, calls, rows, ran, stopped, outcome>>

\* AgentCallTool's refusals.
Delegable(n) ==
    /\ HasPolicy(n)
    /\ calls[n].by = "turn"
    /\ calls[n].target = "openai"

RefuseDelegation(n) ==
    /\ job[n] = "sent" /\ calls[n].tool = AgentTool
    /\ Alive(n) /\ ~Delegable(n)
    /\ Finishes(n, "failed", loop)
    /\ UNCHANGED <<runs, calls, rows, ran, stopped, outcome>>

\* runSubagent, one at a time: the next waits for a delegated loop that is
\* still there after its caller has left.
Delegate(n) ==
    /\ job[n] = "sent" /\ calls[n].tool = AgentTool
    /\ Alive(n) /\ Delegable(n)
    /\ At("sub", "idle")
    /\ job' = [job EXCEPT ![n] = "running"]
    /\ Becomes("sub", [Idle EXCEPT !.pc = "model", !.round = 1, !.work = TurnOf(n)])
    /\ ran' = ran \cup {n}
    /\ UNCHANGED <<runs, calls, rows, stopped, outcome>>

JobStep(n) ==
    /\ Made(n)
    /\ ToolActs(n) \/ ToolRefuses(n) \/ ToolReturns(n) \/ RefuseDelegation(n) \/ Delegate(n)

-----------------------------------------------------------------------------
(* Properties *)

\* A turn that is saved as completed has a settled row for each of its calls,
\* which is what lets replayableCalls hand them to the model again: no error,
\* cancelled call or delegated run leaves one pending behind an answer.
CompletedIsReplayable ==
    \A n \in 1..Len(calls) :
        outcome[TurnOf(n)] = "completed" /\ calls[n].by = "turn"
            => rows[n] \in {"completed", "failed"}

\* README.md, on agent_call: it hands a task to another agent that is
\* configured, and is refused only inside a delegated run and to an agent
\* itself.  Here `refused` calls are those that ended without a run although
\* their turn was alive.
DelegationReaches ==
    \A n \in 1..Len(calls) :
        /\ calls[n].tool = AgentTool /\ calls[n].by = "turn"
        /\ calls[n].target # "itself" /\ TurnOf(n) \notin stopped
        /\ job[n] = "gone"
        => n \in ran

=============================================================================
