------------------------------- MODULE Shell -------------------------------
(***************************************************************************)
(* One call of bash_exec (modules/bash.go): a shell in a process group of  *)
(* its own, what the shell starts, and a context that ends at the timeout  *)
(* or when whoever asked for the call gives it up.                         *)
(*                                                                         *)
(* What os/exec does with Cancel and WaitDelay is modelled from how the    *)
(* call sets it up: one goroutine waits for the shell, one for the         *)
(* context, and the output is read from a pipe until every process that    *)
(* holds its other end is gone, or two seconds have passed.                *)
(***************************************************************************)
EXTENDS Naturals

VARIABLES
    context,        \* "live", "expired" or "cancelled"
    shell,          \* "none", "running", "succeeded", "failed" or "killed"
    children,       \* what the shell has started and is still there
    cut,            \* bashTerminate was called
    error,          \* the error of CombinedOutput so far
    pc,
    answer

vars == <<context, shell, children, cut, error, pc, answer>>

\* What a shell leaves running: a process that writes to the pipe, one that
\* does not, and one that does and has left the group for its own session.
Child == {"writer", "quiet", "detached"}
Writers == {"writer", "detached"}
Group == {"writer", "quiet"}

TypeOK ==
    /\ context \in {"live", "expired", "cancelled"}
    /\ shell \in {"none", "running", "succeeded", "failed", "killed"}
    /\ children \subseteq Child
    /\ cut \in BOOLEAN /\ error \in BOOLEAN
    /\ pc \in {"start", "waiting", "reaped", "reading", "done"}
    /\ answer \in {"none", "output", "failed", "timed out"}

Init ==
    /\ context = "live"
    /\ shell = "none"
    /\ children = {}
    /\ cut = FALSE
    /\ error = FALSE
    /\ pc = "start"
    /\ answer = "none"

-----------------------------------------------------------------------------
(* Outside *)

ContextEnds ==
    /\ context = "live" /\ pc # "done"
    /\ context' \in {"expired", "cancelled"}
    /\ UNCHANGED <<shell, children, cut, error, pc, answer>>

ShellStarts(c) ==
    /\ shell = "running" /\ c \notin children
    /\ children' = children \cup {c}
    /\ UNCHANGED <<context, shell, cut, error, pc, answer>>

ShellEnds ==
    /\ shell = "running"
    /\ shell' \in {"succeeded", "failed"}
    /\ UNCHANGED <<context, children, cut, error, pc, answer>>

ChildEnds(c) ==
    /\ c \in children
    /\ children' = children \ {c}
    /\ UNCHANGED <<context, shell, cut, error, pc, answer>>

-----------------------------------------------------------------------------
(* The call *)

\* What the call says once CombinedOutput has returned: it looks at the
\* context before it looks at the error.
Answer(failed) ==
    IF context = "expired" THEN "timed out" ELSE IF failed THEN "failed" ELSE "output"

Start ==
    /\ pc = "start"
    /\ IF context = "live"
       THEN shell' = "running" /\ pc' = "waiting" /\ UNCHANGED answer
       ELSE answer' = Answer(TRUE) /\ pc' = "done" /\ UNCHANGED shell
    /\ UNCHANGED <<context, children, cut, error>>

\* Broken: only the shell is killed, as in the build for systems that have
\* no process groups.
TerminateShell(cs) == cs

\* bashTerminate: what is left of the children.
Terminate(cs) == cs \ Group

\* The goroutine that waits for the context, until the result is asked for.
Cancel ==
    /\ context # "live" /\ ~cut
    /\ pc \in {"waiting", "reaped"}
    /\ cut' = TRUE
    /\ children' = Terminate(children)
    /\ shell' = IF shell = "running" THEN "killed" ELSE shell
    /\ UNCHANGED <<context, error, pc, answer>>

\* Process.Wait
Reap ==
    /\ pc = "waiting" /\ shell # "running"
    /\ error' = (shell # "succeeded")
    /\ pc' = "reaped"
    /\ UNCHANGED <<context, shell, children, cut, answer>>

\* The result of that goroutine, which is asked for once: a context that ends
\* after this kills nothing.
Handover ==
    /\ pc = "reaped"
    /\ error' = (error \/ cut)
    /\ pc' = "reading"
    /\ UNCHANGED <<context, shell, children, cut, answer>>

Finish(failed) ==
    /\ answer' = Answer(failed)
    /\ error' = failed
    /\ pc' = "done"
    /\ UNCHANGED <<context, shell, children, cut>>

EndOfOutput == pc = "reading" /\ children \cap Writers = {} /\ Finish(error)

\* Broken: no WaitDelay.
NeverGiveUp == FALSE /\ Finish(TRUE)

\* bashWaitDelay is over: the pipe is closed on whoever still holds it.
GiveUp == pc = "reading" /\ children \cap Writers # {} /\ Finish(TRUE)

Call == Start \/ Cancel \/ Reap \/ Handover \/ EndOfOutput \/ GiveUp

Next ==
    \/ ContextEnds \/ ShellEnds
    \/ \E c \in Child : ShellStarts(c) \/ ChildEnds(c)
    \/ Call

Spec == Init /\ [][Next]_vars

-----------------------------------------------------------------------------
(* Properties *)

(***************************************************************************)
(* An answer with no error is the whole output of a shell that ended by    *)
(* itself, with nothing killed and nobody left who would have written      *)
(* more.                                                                   *)
(***************************************************************************)
OutputIsWhole ==
    answer = "output" => shell = "succeeded" /\ ~cut /\ children \cap Writers = {}

(***************************************************************************)
(* No call leaves its shell behind, and one that had to kill it leaves     *)
(* nothing of its process group.  (A shell that has ended by itself when   *)
(* the time is up may leave a group that nobody kills, although the call   *)
(* says that it timed out.)                                                *)
(***************************************************************************)
GroupIsKilled ==
    /\ pc = "done" => shell # "running"
    /\ shell = "killed" => children \cap Group = {}

(***************************************************************************)
(* Once the context is over the call can go on to its answer, whatever the *)
(* processes it started do.                                                *)
(***************************************************************************)
CallGoesOn == context # "live" /\ pc # "done" => ENABLED Call

ShellInv == TypeOK /\ OutputIsWhole /\ GroupIsKilled

=============================================================================
