----------------------------- MODULE TuiClient ------------------------------
(***************************************************************************)
(* The terminal client: client.Update and what it calls                    *)
(* (cli/tui/client.go), over its own process or a server (cli/remote.go).  *)
(*                                                                         *)
(* Update runs on one goroutine and handles keys and messages one by one.  *)
(* A turn, or a compaction, runs on a goroutine that sends messages to it; *)
(* a send is a rendezvous, so it is one step with the handling of what is  *)
(* sent.  The question about a dangerous tool goes the same way and its    *)
(* answer comes back in a channel of its own, of capacity one.             *)
(***************************************************************************)
EXTENDS ToolLoop

VARIABLES
    used,        \* the work begun so far
    sending, compacting,
    cancel,      \* the work whose cancel function the client holds, or 0
    approval,    \* the call whose question is on the screen, or 0
    answers,     \* for each call, the decision put in its channel
    allowed,     \* the tools allowed for the rest of the session
    slashOpen,   \* the input holds the beginning of a command
    transcript,
    folding      \* the compaction that is running, or 0

uiVars == <<used, sending, compacting, cancel, approval, answers, allowed,
            slashOpen, transcript, folding>>

vars == <<loopVars, uiVars>>

Entry == [kind : {"user", "reply", "interrupted", "running", "finished"},
          work : Work, call : 0..MaxCalls]
Decision == {"once", "session", "deny"}

TypeOK ==
    /\ LoopTypeOK
    /\ used \in {0} \cup Work /\ cancel \in {0} \cup Work /\ folding \in {0} \cup Work
    /\ sending \in BOOLEAN /\ compacting \in BOOLEAN
    /\ slashOpen \in BOOLEAN
    /\ approval \in 0..Len(calls)
    /\ answers \in [1..MaxCalls -> Decision \cup {"none"}]
    /\ allowed \subseteq Dangerous
    /\ \A i \in 1..Len(transcript) : transcript[i] \in Entry

Init ==
    /\ LoopInit
    /\ used = 0 /\ cancel = 0 /\ approval = 0 /\ folding = 0
    /\ sending = FALSE /\ compacting = FALSE
    /\ slashOpen = FALSE
    /\ answers = [n \in 1..MaxCalls |-> "none"]
    /\ allowed = {}
    /\ transcript = <<>>

Shown(kind, w, n) == transcript' = Append(transcript, [kind |-> kind, work |-> w, call |-> n])

-----------------------------------------------------------------------------
(* Keys *)

\* The keys that reach the input: no question is up and nothing is running.
Editing == approval = 0 /\ ~sending

\* Work is begun with a context and a cancel function of its own.
Starts(w) ==
    /\ used < w /\ \A v \in Work : used < v => w <= v
    /\ used' = w /\ cancel' = w
    /\ sending' = TRUE

\* Broken: enter does not look at `sending`.
SubmitAnyTime(w) ==
    /\ approval = 0 /\ ~slashOpen
    /\ At("turn", "idle")
    /\ Starts(w)
    /\ compacting' = FALSE
    /\ Shown("user", w, 0)
    /\ Begin(w)
    /\ UNCHANGED <<approval, answers, allowed, slashOpen, folding>>

\* Enter on plain text: submit, whose goroutine calls the backend.
Submit(w) ==
    /\ Editing /\ ~slashOpen
    /\ Starts(w)
    /\ compacting' = FALSE
    /\ Shown("user", w, 0)
    /\ Begin(w)
    /\ UNCHANGED <<approval, answers, allowed, slashOpen, folding>>

\* Typing or erasing opens and closes the menu of commands (updateSlashMenu).
Type ==
    /\ Editing
    /\ slashOpen' = ~slashOpen
    /\ UNCHANGED <<loopVars, used, sending, compacting, cancel, approval, answers,
                   allowed, transcript, folding>>

\* Enter in the menu, with no look at `sending`: runCommand closes it first.
\* The commands that only add a notice are left out.
Compact(w) ==
    /\ approval = 0 /\ slashOpen
    /\ slashOpen' = FALSE
    /\ Starts(w)
    /\ compacting' = TRUE /\ folding' = w
    /\ UNCHANGED <<loopVars, approval, answers, allowed, transcript>>

\* esc while something runs: c.cancel().  ctrl+c, /exit and /quit do the same at
\* any time and then end the program, so their behaviours are beginnings of the
\* ones here.
Interrupt ==
    /\ approval = 0 /\ ~slashOpen /\ sending
    /\ stopped' = stopped \cup {cancel}
    /\ UNCHANGED <<runs, calls, rows, loop, job, ran, outcome, uiVars>>

\* enter gives the choice under the cursor, which the arrows move, and esc
\* denies; the answer goes into the channel of the question on the screen,
\* whoever still reads it.
Choose ==
    /\ approval # 0
    /\ \E d \in Decision : answers' = [answers EXCEPT ![approval] = d]
    /\ approval' = 0
    /\ UNCHANGED <<loopVars, used, sending, compacting, cancel, allowed,
                   slashOpen, transcript, folding>>

-----------------------------------------------------------------------------
(* The goroutine of a turn *)

LoopMoves(l) ==
    /\ \/ ModelAsks(l) \/ ModelAnswers(l) \/ ModelFails(l) \/ NextRound(l)
       \/ Unknown(l) \/ Permit(l, allowed) \/ Send(l) \/ Leave(l)
       \/ l = "turn" /\ (StartUnrecorded \/ SettleUnrecorded \/ StreamEnds)
    /\ UNCHANGED uiVars

\* OnTool reports a call that starts; a delegated run reports nothing.  The row is
\* written right before by the same goroutine, whether or not the turn is still
\* wanted, and the loop of the client reads no rows: when it hears of the call is
\* the moment that counts here, and the same below when one has settled.
CallStarts(l) ==
    /\ StartCall(l)
    /\ IF l = "turn" THEN Shown("running", loop[l].work, Len(calls) + 1) ELSE UNCHANGED transcript
    /\ UNCHANGED <<used, sending, compacting, cancel, approval, answers, allowed,
                   slashOpen, folding>>

\* The tool entries with the id of call n.
Entries(n) ==
    {i \in 1..Len(transcript) :
        transcript[i].call # 0 /\ calls[transcript[i].call].id = calls[n].id}

\* Broken: the first entry with the id is replaced.
FinishedEntryFirst(n) == CHOOSE i \in Entries(n) : \A j \in Entries(n) : i <= j

\* toolEventMsg replaces the last tool entry that has the id of the call.
FinishedEntry(n) == CHOOSE i \in Entries(n) : \A j \in Entries(n) : j <= i

CallSettles(l) ==
    /\ Settle(l)
    /\ IF l = "turn"
       THEN LET n == loop[l].call
            IN  transcript' = [transcript EXCEPT ![FinishedEntry(n)] =
                    [kind |-> "finished", work |-> loop[l].work, call |-> n]]
       ELSE UNCHANGED transcript
    /\ UNCHANGED <<used, sending, compacting, cancel, approval, answers, allowed,
                   slashOpen, folding>>

\* The approval callback of sendPrompt, for a tool that is not yet allowed.
AskUser(l) ==
    /\ Ask(l, allowed)
    /\ approval' = loop[l].call
    /\ UNCHANGED <<used, sending, compacting, cancel, answers, allowed,
                   slashOpen, transcript, folding>>

\* recordApproval
Record(n) ==
    IF answers[n] = "session" THEN allowed' = allowed \cup {calls[n].tool} ELSE UNCHANGED allowed

\* The callback's select: an answer, or the end of the context.
HearAnswer(l) ==
    /\ At(l, "asking")
    /\ answers[loop[l].call] # "none"
    /\ Record(loop[l].call)
    /\ Answered(l, answers[loop[l].call] # "deny")
    /\ UNCHANGED <<used, sending, compacting, cancel, approval, answers,
                   slashOpen, transcript, folding>>

\* Broken: the callback waits for an answer only.
HearNoCancel(l) == FALSE /\ UNCHANGED vars

HearCancel(l) ==
    /\ Cancelled(l)
    /\ Answered(l, FALSE)
    /\ UNCHANGED uiVars

\* chatDoneMsg: finish.  Only an error that is context.Canceled counts as an
\* interruption and keeps the text that has come; what a server answers to a
\* cancelled stream is a status, and other errors may end a cancelled turn too.
Finish ==
    /\ At("turn", "over")
    /\ LET w == loop["turn"].work
           text == <<[kind |-> "reply", work |-> w, call |-> 0]>>
       IN  \/ outcome[w] = "completed" /\ Shown("reply", w, 0)
           \/ outcome[w] # "completed" /\ UNCHANGED transcript
           \/ /\ outcome[w] # "completed" /\ w \in stopped
              /\ \E partial \in {<<>>, text} :
                    transcript' = transcript \o partial
                        \o <<[kind |-> "interrupted", work |-> w, call |-> 0]>>
    /\ Goto("turn", "idle")
    /\ sending' = FALSE /\ compacting' = FALSE /\ approval' = 0 /\ cancel' = 0
    /\ UNCHANGED <<runs, calls, rows, job, ran, stopped, outcome, used, answers,
                   allowed, slashOpen, folding>>

\* compactDoneMsg: finishCompact, whatever the result.
FinishCompact ==
    /\ folding # 0
    /\ folding' = 0
    /\ sending' = FALSE /\ compacting' = FALSE /\ cancel' = 0
    /\ UNCHANGED <<loopVars, used, approval, answers, allowed, slashOpen,
                   transcript>>

Tool(n) == JobStep(n) /\ UNCHANGED uiVars

-----------------------------------------------------------------------------

Key == \/ \E w \in Work : Submit(w) \/ Compact(w)
       \/ Type \/ Interrupt \/ Choose

Goroutine(l) ==
    LoopMoves(l) \/ CallStarts(l) \/ CallSettles(l) \/ AskUser(l) \/ HearAnswer(l) \/ HearCancel(l)

Next ==
    \/ Key
    \/ Finish \/ FinishCompact
    \/ \E l \in Loop : Goroutine(l)
    \/ \E n \in 1..MaxCalls : Tool(n)

\* A goroutine moves when it can, except that nothing is assumed of a model
\* that answers: a stream ends for sure only when its context does.  Nothing
\* is assumed of the user.
Moves(l) ==
    /\ ~At(l, "model") \/ Cancelled(l)
    /\ Goroutine(l)

Spec ==
    /\ Init /\ [][Next]_vars
    /\ \A l \in Loop : WF_vars(Moves(l))
    /\ WF_vars(Finish)
    /\ WF_vars(folding \in stopped /\ FinishCompact)

-----------------------------------------------------------------------------
(* Properties *)

\* The client runs one thing at a time and knows it: `sending` is on exactly
\* while a goroutine of its own is at work, the cancel function is that
\* goroutine's, and the menu, whose enter does not look at `sending`, is shut
\* then (submit, compactCommand, finish, finishCompact).
OneAtATime ==
    /\ sending = (cancel # 0)
    /\ sending = (~At("turn", "idle") \/ folding # 0)
    /\ compacting = (folding # 0)
    /\ ~At("turn", "idle") => loop["turn"].work = cancel /\ folding = 0
    /\ folding # 0 => folding = cancel
    /\ sending => ~slashOpen

TuiInv == TypeOK /\ OneAtATime /\ CompletedIsReplayable

\* A dangerous tool has an effect only after the user allowed that very call,
\* or allowed the same tool for the session in answer to another question; the
\* calls of a delegated run and those of a turn that was interrupted are no
\* exception, while both may be on their way (sendPrompt, executeTool,
\* runSubagent).
RunsOnlyAllowed ==
    AllowDangerous \/
    \A n \in ran : calls[n].tool \in Dangerous =>
        \/ answers[n] = "once"
        \/ \E m \in 1..Len(calls) : calls[m].tool = calls[n].tool /\ answers[m] = "session"

\* The transcript tells what happened, turn after turn: nothing of a turn is
\* shown after something of a later one or before its prompt, nothing follows
\* its reply but the note that it was interrupted, and a call has one entry,
\* finished when its row is, although providers reuse the ids by which an
\* entry is found (toolEventMsg, finish).
TranscriptInTurns ==
    /\ \A i, j \in 1..Len(transcript) : i < j =>
          /\ transcript[i].work <= transcript[j].work
          /\ transcript[j].kind = "user" => transcript[i].work # transcript[j].work
          /\ transcript[i].work = transcript[j].work =>
                /\ transcript[i].kind = "reply" => transcript[j].kind = "interrupted"
                /\ transcript[i].kind # "interrupted"
                /\ transcript[i].call # 0 => transcript[i].call < transcript[j].call
                                              \/ transcript[j].call = 0
    /\ \A i \in 1..Len(transcript) :
          /\ transcript[i].kind = "finished" => rows[transcript[i].call] # "pending"
          /\ transcript[i].kind = "running" => rows[transcript[i].call] = "pending"

\* esc ends what runs: the client comes back to the input even when a question
\* is up or a tool does not return (Interrupt, HearCancel, Leave, finish).
InterruptEnds ==
    \A w \in Work : (cancel = w /\ w \in stopped) ~> (cancel # w)

\* finish takes the question off the screen, since it belongs to the turn that
\* is over (client.go): a question is up only while a turn is.
QuestionHasTurn == approval # 0 => sending

=============================================================================
