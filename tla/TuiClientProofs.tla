-------------------------- MODULE TuiClientProofs --------------------------
(***************************************************************************)
(* Proofs about the terminal client and the loop of tools (TuiClient,      *)
(* ToolLoop), for any number of turns, calls and rounds, any tools, and    *)
(* whatever provider or server runs the turns.  They use no fairness.      *)
(***************************************************************************)
EXTENDS TuiClient, TLAPS

Places == {"idle", "model", "start", "check", "asking", "send", "wait", "settle", "over"}
Status == {None, "completed", "failed"}
LoopState == [pc : Places, round : Nat, todo : Seq(Request), call : Nat, work : Nat, got : Status]
Call == [tool : Safe \cup Dangerous \cup {AgentTool}, id : CallId, target : Target \cup {None},
         by : Loop, work : Nat]

\* What is yet to be started, so that no call is made beyond the bound.
Ahead == Len(loop["turn"].todo) + Len(loop["sub"].todo)

\* As much of the types as the proofs need.
ClientTypes ==
    /\ calls \in Seq(Call)
    /\ loop \in [Loop -> LoopState]
    /\ Len(calls) + Ahead <= MaxCalls
    /\ job \in [1..MaxCalls -> {"none", "sent", "running", "gone"}]
    /\ ran \subseteq 1..Len(calls)
    /\ approval \in Nat
    /\ answers \in [1..MaxCalls -> Decision \cup {"none"}]

-----------------------------------------------------------------------------
(* Operators *)

\* The replies are sequences of requests.
LEMMA ReplyTyped == ASSUME NEW reply \in Reply PROVE reply \in Seq(Request)
<1>1. PICK n \in 1..MaxAtOnce : reply \in [1..n -> Request] BY DEF Reply
<1>2. n \in Nat BY LoopAssumption
<1> QED BY <1>1, <1>2

\* Loops that begin no new reply have no more ahead of them.
LEMMA LoopsShrink ==
    ASSUME ClientTypes, loop' \in [Loop -> LoopState],
           \A l \in Loop : loop'[l].todo = loop[l].todo \/ loop'[l].todo = <<>>
    PROVE  Ahead \in Nat /\ Ahead' \in Nat /\ Ahead' <= Ahead
<1>1. \A l \in Loop : Len(loop[l].todo) \in Nat /\ Len(loop'[l].todo) \in Nat
  BY DEF ClientTypes, LoopState
<1>2. \A l \in Loop : Len(loop'[l].todo) <= Len(loop[l].todo) BY <1>1
<1>3. /\ Len(loop["turn"].todo) \in Nat /\ Len(loop'["turn"].todo) \in Nat
      /\ Len(loop["sub"].todo) \in Nat /\ Len(loop'["sub"].todo) \in Nat
      /\ Len(loop'["turn"].todo) <= Len(loop["turn"].todo)
      /\ Len(loop'["sub"].todo) <= Len(loop["sub"].todo)
  BY <1>1, <1>2 DEF Loop
<1>4. \A a, b, c, d \in Nat : c <= a /\ d <= b =>
         a + b \in Nat /\ c + d \in Nat /\ c + d <= a + b
  OBVIOUS
<1>5. /\ Len(loop["turn"].todo) + Len(loop["sub"].todo) \in Nat
      /\ Len(loop'["turn"].todo) + Len(loop'["sub"].todo) \in Nat
      /\ Len(loop'["turn"].todo) + Len(loop'["sub"].todo)
           <= Len(loop["turn"].todo) + Len(loop["sub"].todo)
  BY <1>3, <1>4
<1>6. Ahead = Len(loop["turn"].todo) + Len(loop["sub"].todo) BY DEF Ahead
<1>7. Ahead' = Len(loop'["turn"].todo) + Len(loop'["sub"].todo) BY DEF Ahead
<1> QED BY <1>5, <1>6, <1>7, Zenon

\* The calls made are within the bound.
LEMMA CallsBounded ==
    ASSUME ClientTypes
    PROVE  Len(calls) \in Nat /\ Len(calls) <= MaxCalls /\ 1..Len(calls) \subseteq 1..MaxCalls
<1>1. Len(loop["turn"].todo) \in Nat /\ Len(loop["sub"].todo) \in Nat /\ Len(calls) \in Nat
  BY DEF ClientTypes, LoopState, Loop
<1>2. Len(calls) + (Len(loop["turn"].todo) + Len(loop["sub"].todo)) <= MaxCalls
  BY DEF ClientTypes, Ahead
<1>3. \A a, b, c \in Nat : a + (b + c) <= MaxCalls => a <= MaxCalls BY LoopAssumption
<1>4. Len(calls) <= MaxCalls BY <1>1, <1>2, <1>3
<1> QED BY <1>1, <1>4, LoopAssumption

\* One loop changes and begins no new reply.
LEMMA OneLoopMoves ==
    ASSUME ClientTypes, NEW l \in Loop, NEW to \in LoopState, Becomes(l, to),
           to.todo = loop[l].todo \/ to.todo = <<>>
    PROVE  /\ loop' \in [Loop -> LoopState]
           /\ loop'[l] = to /\ \A k \in Loop \ {l} : loop'[k] = loop[k]
           /\ Ahead \in Nat /\ Ahead' \in Nat /\ Ahead' <= Ahead
<1>1. /\ loop' \in [Loop -> LoopState]
      /\ loop'[l] = to /\ \A k \in Loop \ {l} : loop'[k] = loop[k]
  BY DEF ClientTypes, Becomes
<1>2. \A k \in Loop : loop'[k].todo = loop[k].todo \/ loop'[k].todo = <<>>
  BY <1>1
<1> QED BY <1>1, <1>2, LoopsShrink

\* What the loops become are loop states.
LEMMA LoopStates ==
    ASSUME ClientTypes, NEW l \in Loop
    PROVE  /\ \A pc \in Places : [loop[l] EXCEPT !.pc = pc] \in LoopState
           /\ \A status \in Status : Gets(l, status) \in LoopState
           /\ [loop[l] EXCEPT !.pc = "start", !.got = None] \in LoopState
           /\ [loop[l] EXCEPT !.pc = "model", !.round = @ + 1] \in LoopState
           /\ Idle \in LoopState
           /\ \A w \in Nat : /\ [Idle EXCEPT !.pc = "over", !.work = w] \in LoopState
                             /\ [Idle EXCEPT !.pc = "model", !.round = 1, !.work = w] \in LoopState
<1>1. loop[l] \in LoopState BY DEF ClientTypes
<1>2. \A pc \in Places : [loop[l] EXCEPT !.pc = pc] \in LoopState BY <1>1 DEF LoopState
<1>3. \A status \in Status : Gets(l, status) \in LoopState
  BY <1>1 DEF LoopState, Gets, Places
<1>4. [loop[l] EXCEPT !.pc = "start", !.got = None] \in LoopState
  BY <1>1 DEF LoopState, Places, Status
<1>5. [loop[l] EXCEPT !.pc = "model", !.round = @ + 1] \in LoopState
  <2>1. loop[l].round + 1 \in Nat BY <1>1 DEF LoopState
  <2>2. \A n \in Nat : [loop[l] EXCEPT !.pc = "model", !.round = n] \in LoopState
    BY <1>1 DEF LoopState, Places
  <2> QED BY <2>1, <2>2
<1>6. <<>> \in Seq(Request) OBVIOUS
<1>7. Idle \in LoopState BY <1>6 DEF LoopState, Idle, Places, Status
<1>8. \A w \in Nat : [Idle EXCEPT !.pc = "over", !.work = w] \in LoopState
  BY <1>7 DEF LoopState, Places
<1>9. \A w \in Nat : [Idle EXCEPT !.pc = "model", !.round = 1, !.work = w] \in LoopState
  BY <1>7 DEF LoopState, Places
<1> QED BY <1>2, <1>3, <1>4, <1>5, <1>7, <1>8, <1>9

-----------------------------------------------------------------------------
(* The invariant *)

Busy == {"check", "asking", "send", "wait"}

SessionGiven(tool) == \E m \in 1..Len(calls) : calls[m].tool = tool /\ answers[m] = "session"

\* Call n may have an effect.
Permitted(n) ==
    \/ AllowDangerous \/ calls[n].tool \notin Dangerous
    \/ answers[n] = "once" \/ SessionGiven(calls[n].tool)

\* A call is decided on at most once, and only after it was made; nothing is
\* sent before.
AnswersInv ==
    /\ \A n \in 1..MaxCalls : n > Len(calls) => answers[n] = "none" /\ job[n] = "none"
    /\ approval # 0 => approval \in 1..Len(calls) /\ answers[approval] = "none"

\* A loop is at a call of its own; it is undecided until it is asked about and
\* permitted once it is sent.
LoopsInv ==
    \A l \in Loop :
        /\ loop[l].pc \in Busy => loop[l].call \in 1..Len(calls) /\ calls[loop[l].call].by = l
        /\ loop[l].pc = "check" => answers[loop[l].call] = "none" /\ approval # loop[l].call
        /\ loop[l].pc \in {"send", "wait"} => Permitted(loop[l].call)

\* What was sent stays permitted, whoever still waits for it.
JobsInv ==
    \A n \in 1..Len(calls) : job[n] \in {"sent", "running"} \/ n \in ran => Permitted(n)

\* The session's grants were given.
AllowedInv == \A tool \in allowed : SessionGiven(tool)

ClientInv == ClientTypes /\ AnswersInv /\ LoopsInv /\ JobsInv /\ AllowedInv

\* A permission is kept while calls and answers only accumulate.
LEMMA PermissionKept ==
    ASSUME ClientTypes, NEW n \in 1..Len(calls), Permitted(n), calls' \in Seq(Call),
           Len(calls) <= Len(calls'),
           \A m \in 1..Len(calls) :
              calls'[m] = calls[m] /\ (answers[m] # "none" => answers'[m] = answers[m])
    PROVE  Permitted(n)'
<1>1. 1..Len(calls) \subseteq 1..Len(calls') BY DEF ClientTypes
<1>2. SessionGiven(calls[n].tool) => SessionGiven(calls[n].tool)'
  BY <1>1 DEF SessionGiven
<1>3. calls'[n] = calls[n] OBVIOUS
<1> QED BY <1>2, <1>3 DEF Permitted, SessionGiven

\* A step that makes no call, asks nothing and is not the user's answer keeps
\* the invariant when it sends, runs and grants only what is permitted.
LEMMA QuietStep ==
    ASSUME ClientInv, UNCHANGED <<calls, answers>>, approval' \in {approval, 0},
           UNCHANGED allowed \/ \A tool \in allowed' : SessionGiven(tool),
           loop' \in [Loop -> LoopState], Len(calls) + Ahead' <= MaxCalls,
           job' \in [1..MaxCalls -> {"none", "sent", "running", "gone"}],
           \A n \in 1..MaxCalls : n > Len(calls) => job'[n] = job[n],
           ran' \subseteq 1..Len(calls),
           \A l \in Loop : loop'[l].pc \in Busy =>
              /\ loop[l].pc \in Busy /\ loop'[l].call = loop[l].call
              /\ loop'[l].pc = "check" => loop[l].pc = "check"
              /\ loop'[l].pc \in {"send", "wait"} => Permitted(loop[l].call),
           \A n \in 1..Len(calls) : job'[n] \in {"sent", "running"} \/ n \in ran' => Permitted(n)
    PROVE  ClientInv'
<1>1. ClientTypes' BY DEF ClientInv, ClientTypes
<1>2. AnswersInv' BY DEF ClientInv, ClientTypes, AnswersInv
<1>3. \A n \in 1..Len(calls) : Permitted(n) => Permitted(n)'
  BY DEF Permitted, SessionGiven
<1>4. LoopsInv'
  <2> SUFFICES ASSUME NEW l \in Loop
               PROVE  /\ loop'[l].pc \in Busy =>
                            loop'[l].call \in 1..Len(calls) /\ calls[loop'[l].call].by = l
                      /\ loop'[l].pc = "check" =>
                            answers[loop'[l].call] = "none" /\ approval' # loop'[l].call
                      /\ loop'[l].pc \in {"send", "wait"} => Permitted(loop[l].call)
    BY <1>3 DEF LoopsInv, Permitted, SessionGiven, ClientInv, Busy
  <2> QED BY DEF ClientInv, LoopsInv, Busy
<1>5. JobsInv' BY <1>3 DEF JobsInv
<1>6. AllowedInv' BY DEF ClientInv, AllowedInv, SessionGiven
<1> QED BY <1>1, <1>2, <1>4, <1>5, <1>6 DEF ClientInv

\* The same of one loop, and with no tool doing anything.
LEMMA QuietLoop ==
    ASSUME ClientInv, UNCHANGED <<calls, answers, job, ran>>, approval' \in {approval, 0},
           UNCHANGED allowed \/ \A tool \in allowed' : SessionGiven(tool),
           NEW l \in Loop, NEW to \in LoopState, Becomes(l, to),
           to.todo = loop[l].todo \/ to.todo = <<>>,
           to.pc \in Busy =>
              /\ loop[l].pc \in Busy /\ to.call = loop[l].call
              /\ to.pc = "check" => loop[l].pc = "check"
              /\ to.pc \in {"send", "wait"} => Permitted(loop[l].call)
    PROVE  ClientInv'
<1>1. /\ loop' \in [Loop -> LoopState]
      /\ loop'[l] = to /\ \A k \in Loop \ {l} : loop'[k] = loop[k]
      /\ Ahead \in Nat /\ Ahead' \in Nat /\ Ahead' <= Ahead
  BY OneLoopMoves DEF ClientInv
<1>2. Len(calls) + Ahead' <= MaxCalls
  BY <1>1, LoopAssumption DEF ClientInv, ClientTypes
<1>3. \A k \in Loop : loop'[k].pc \in Busy =>
         /\ loop[k].pc \in Busy /\ loop'[k].call = loop[k].call
         /\ loop'[k].pc = "check" => loop[k].pc = "check"
         /\ loop'[k].pc \in {"send", "wait"} => Permitted(loop[k].call)
  BY <1>1 DEF ClientInv, LoopsInv
<1>4. /\ job' \in [1..MaxCalls -> {"none", "sent", "running", "gone"}]
      /\ ran' \subseteq 1..Len(calls)
      /\ \A n \in 1..Len(calls) : job'[n] \in {"sent", "running"} \/ n \in ran' => Permitted(n)
  BY DEF ClientInv, ClientTypes, JobsInv
<1> QED BY <1>1, <1>2, <1>3, <1>4, QuietStep

-----------------------------------------------------------------------------
(* The steps *)

\* The goroutine of a call comes to its end, and perhaps the delegated loop.
LEMMA FinishesKeeps ==
    ASSUME ClientInv, NEW n \in 1..Len(calls), NEW status \in Status,
           NEW others \in {loop, [loop EXCEPT !["sub"] = Idle]},
           Finishes(n, status, others), UNCHANGED <<calls, answers, allowed, ran, approval>>
    PROVE  ClientInv'
<1>0. ClientTypes BY DEF ClientInv
<1>1. \A l \in Loop : others[l] \in {loop[l], Idle}
  BY <1>0 DEF ClientTypes, Loop
<1>2. \A l \in Loop : loop'[l] \in {loop[l], Idle, Gets(l, status)}
  BY <1>1 DEF Finishes
<1>3. loop' \in [Loop -> LoopState]
  <2>1. \A l \in Loop : Gets(l, status) \in LoopState /\ Idle \in LoopState /\ loop[l] \in LoopState
    BY <1>0, LoopStates DEF ClientTypes
  <2>2. \A l \in Loop : loop'[l] \in LoopState BY <2>1, <1>2
  <2> QED BY <2>2 DEF Finishes
<1>4. \A l \in Loop : loop'[l].pc \in Busy => loop'[l] = loop[l]
  <2>1. \A l \in Loop : Gets(l, status).pc = "settle"
    BY <1>0 DEF Gets, ClientTypes, LoopState
  <2>2. Idle.pc = "idle" BY DEF Idle
  <2> QED BY <2>1, <2>2, <1>2 DEF Busy
<1>5. \A l \in Loop : loop'[l].todo = loop[l].todo \/ loop'[l].todo = <<>>
  <2>1. \A l \in Loop : Gets(l, status).todo = loop[l].todo
    BY <1>0 DEF Gets, ClientTypes, LoopState
  <2>2. Idle.todo = <<>> BY DEF Idle
  <2> QED BY <2>1, <2>2, <1>2
<1>6. Ahead \in Nat /\ Ahead' \in Nat /\ Ahead' <= Ahead
  BY <1>0, <1>3, <1>5, LoopsShrink
<1>7. Len(calls) + Ahead' <= MaxCalls BY <1>0, <1>6, LoopAssumption DEF ClientTypes
<1>8. /\ job' \in [1..MaxCalls -> {"none", "sent", "running", "gone"}]
      /\ \A m \in 1..Len(calls) : job'[m] \in {"sent", "running"} => job[m] \in {"sent", "running"}
      /\ \A m \in 1..MaxCalls : m > Len(calls) => job'[m] = job[m]
  <2>1. 1..Len(calls) \subseteq 1..MaxCalls BY <1>0, <1>6, LoopAssumption DEF ClientTypes
  <2> QED BY <1>0, <2>1 DEF Finishes, ClientTypes
<1>9. /\ ran' \subseteq 1..Len(calls)
      /\ \A m \in 1..Len(calls) : job'[m] \in {"sent", "running"} \/ m \in ran' => Permitted(m)
  BY <1>8 DEF ClientInv, ClientTypes, JobsInv
<1>10. \A l \in Loop : loop'[l].pc \in Busy =>
         /\ loop[l].pc \in Busy /\ loop'[l].call = loop[l].call
         /\ loop'[l].pc = "check" => loop[l].pc = "check"
         /\ loop'[l].pc \in {"send", "wait"} => Permitted(loop[l].call)
  BY <1>4 DEF ClientInv, LoopsInv
<1> QED BY <1>3, <1>7, <1>8, <1>9, <1>10, QuietStep

\* A loop ends.
LEMMA EndsKeeps ==
    ASSUME ClientInv, NEW l \in Loop, NEW how, Ends(l, how),
           UNCHANGED <<calls, answers, allowed, ran, approval>>
    PROVE  ClientInv'
<1>0. ClientTypes BY DEF ClientInv
<1>1. CASE l = "turn"
  <2> DEFINE to == [Idle EXCEPT !.pc = "over", !.work = loop["turn"].work]
  <2>1. Becomes("turn", to) /\ UNCHANGED job BY <1>1 DEF Ends
  <2>2. loop["turn"].work \in Nat BY <1>0, <1>1 DEF ClientTypes, LoopState
  <2>3. to \in LoopState BY <1>0, <1>1, <2>2, LoopStates
  <2>4. to.todo = <<>> /\ to.pc = "over" BY DEF Idle
  <2> HIDE DEF to
  <2> QED BY <1>1, <2>1, <2>3, <2>4, QuietLoop DEF Busy
<1>2. CASE l = "sub"
  <2>1. PICK n \in 1..Len(calls), status \in {"completed", "failed"} :
           Finishes(n, status, [loop EXCEPT !["sub"] = Idle])
    BY <1>2 DEF Ends
  <2>2. status \in Status BY DEF Status
  <2> QED BY <2>1, <2>2, FinishesKeeps
<1> QED BY <1>1, <1>2 DEF Loop

\* The replies of the model.
LEMMA ModelKeeps ==
    ASSUME ClientInv, NEW l \in Loop, UNCHANGED <<answers, allowed, approval>>,
           ModelAsks(l) \/ ModelAnswers(l) \/ ModelFails(l) \/ NextRound(l)
    PROVE  ClientInv'
<1>0. ClientTypes /\ l \in {"turn", "sub"} BY DEF ClientInv, Loop
<1>1. CASE ModelAnswers(l) \/ ModelFails(l) BY <1>1, EndsKeeps DEF ModelAnswers, ModelFails
<1>2. CASE NextRound(l)
  <2>1. CASE Ends(l, "failed") BY <1>2, <2>1, EndsKeeps DEF NextRound
  <2> DEFINE to == [loop[l] EXCEPT !.pc = "model", !.round = @ + 1]
  <2>2. CASE Becomes(l, to) /\ UNCHANGED <<job, outcome>>
    <3>1. to \in LoopState BY <1>0, LoopStates
    <3>2. to.todo = loop[l].todo /\ to.pc = "model" BY <1>0 DEF ClientTypes, LoopState
    <3> HIDE DEF to
    <3> QED BY <1>2, <2>2, <3>1, <3>2, QuietLoop DEF Busy, NextRound
  <2> QED BY <1>2, <2>1, <2>2 DEF NextRound
<1>3. CASE ModelAsks(l)
  <2>1. PICK reply \in Reply :
           /\ Len(calls) + Len(loop["turn"].todo) + Len(loop["sub"].todo) + Len(reply) <= MaxCalls
           /\ Becomes(l, [loop[l] EXCEPT !.pc = "start", !.todo = reply])
    BY <1>3 DEF ModelAsks
  <2>2. UNCHANGED <<calls, job, ran>> BY <1>3 DEF ModelAsks
  <2> DEFINE to == [loop[l] EXCEPT !.pc = "start", !.todo = reply]
  <2>3. reply \in Seq(Request) BY ReplyTyped
  <2>4. to \in LoopState /\ to.pc = "start" /\ to.todo = reply
    BY <1>0, <2>3 DEF ClientTypes, LoopState, Places
  <2>5. Becomes(l, to) BY <2>1
  <2> HIDE DEF to
  <2>6. /\ loop' \in [Loop -> LoopState]
        /\ loop'[l] = to /\ \A k \in Loop \ {l} : loop'[k] = loop[k]
    BY <1>0, <2>4, <2>5 DEF ClientTypes, Becomes
  <2>7. Len(calls) + Ahead' <= MaxCalls
    <3>1. Ahead' = Len(loop'["turn"].todo) + Len(loop'["sub"].todo) BY DEF Ahead
    <3>2. /\ Len(calls) \in Nat /\ Len(reply) \in Nat
          /\ Len(loop["turn"].todo) \in Nat /\ Len(loop["sub"].todo) \in Nat
      BY <1>0, <2>3 DEF ClientTypes, LoopState, Loop
    <3>3. \A a, b, c, d \in Nat : a + b + c + d <= MaxCalls =>
             a + (d + c) <= MaxCalls /\ a + (b + d) <= MaxCalls
      BY LoopAssumption
    <3>4. CASE l = "turn"
      <4>1. Ahead' = Len(reply) + Len(loop["sub"].todo)
        BY <2>4, <2>6, <3>1, <3>4 DEF Loop
      <4> QED BY <2>1, <3>2, <3>3, <4>1
    <3>5. CASE l = "sub"
      <4>1. Ahead' = Len(loop["turn"].todo) + Len(reply)
        BY <2>4, <2>6, <3>1, <3>5 DEF Loop
      <4> QED BY <2>1, <3>2, <3>3, <4>1
    <3> QED BY <1>0, <3>4, <3>5
  <2>8. \A k \in Loop : loop'[k].pc \in Busy =>
           /\ loop[k].pc \in Busy /\ loop'[k].call = loop[k].call
           /\ loop'[k].pc = "check" => loop[k].pc = "check"
           /\ loop'[k].pc \in {"send", "wait"} => Permitted(loop[k].call)
    BY <2>4, <2>6 DEF ClientInv, LoopsInv, Busy
  <2>9. /\ job' \in [1..MaxCalls -> {"none", "sent", "running", "gone"}]
        /\ ran' \subseteq 1..Len(calls)
        /\ \A n \in 1..Len(calls) : job'[n] \in {"sent", "running"} \/ n \in ran' => Permitted(n)
    BY <2>2 DEF ClientInv, ClientTypes, JobsInv
  <2> QED BY <2>2, <2>6, <2>7, <2>8, <2>9, QuietStep
<1> QED BY <1>1, <1>2, <1>3

\* A call is sent only when it may be.
LEMMA CallKeeps ==
    ASSUME ClientInv, NEW l \in Loop, UNCHANGED <<answers, allowed, approval>>,
           Unknown(l) \/ Permit(l, allowed) \/ Send(l) \/ Leave(l) \/ Settle(l)
    PROVE  ClientInv'
<1>0. ClientTypes /\ LoopsInv /\ loop[l] \in LoopState BY DEF ClientInv, ClientTypes
<1>1. ASSUME NEW status \in Status, Becomes(l, Gets(l, status)), UNCHANGED <<calls, job, ran>>
      PROVE  ClientInv'
  <2>1. Gets(l, status) \in LoopState BY <1>0, LoopStates
  <2>2. Gets(l, status).todo = loop[l].todo /\ Gets(l, status).pc = "settle"
    BY <1>0 DEF Gets, LoopState
  <2> QED BY <1>1, <2>1, <2>2, QuietLoop DEF Busy
<1>2. "failed" \in Status BY DEF Status
<1>3. CASE Unknown(l) BY <1>1, <1>2, <1>3 DEF Unknown
<1>4. CASE Leave(l) BY <1>1, <1>2, <1>4 DEF Leave
<1>5. CASE Settle(l)
  <2> DEFINE to == [loop[l] EXCEPT !.pc = "start", !.got = None]
  <2>1. to \in LoopState BY <1>0, LoopStates
  <2>2. to.todo = loop[l].todo /\ to.pc = "start" BY <1>0 DEF LoopState
  <2>3. Becomes(l, to) /\ UNCHANGED <<calls, job, ran>> BY <1>5 DEF Settle
  <2> HIDE DEF to
  <2> QED BY <2>1, <2>2, <2>3, QuietLoop DEF Busy
<1>6. CASE Permit(l, allowed)
  <2> DEFINE to == [loop[l] EXCEPT !.pc = "send"]
  <2>1. to \in LoopState BY <1>0, LoopStates DEF Places
  <2>2. to.todo = loop[l].todo /\ to.pc = "send" /\ to.call = loop[l].call
    BY <1>0 DEF LoopState
  <2>3. Becomes(l, to) /\ UNCHANGED <<calls, job, ran>> BY <1>6 DEF Permit, Goto
  <2>4. loop[l].pc = "check" BY <1>6 DEF Permit, At
  <2>5. Permitted(loop[l].call)
    BY <1>6 DEF Permit, NeedsApproval, ToolOf, Permitted, ClientInv, AllowedInv
  <2> HIDE DEF to
  <2> QED BY <2>1, <2>2, <2>3, <2>4, <2>5, QuietLoop DEF Busy
<1>7. CASE Send(l)
  <2>1. CASE Becomes(l, Gets(l, "failed")) /\ UNCHANGED job BY <1>1, <1>2, <1>7, <2>1 DEF Send
  <2>2. CASE Goto(l, "wait") /\ job' = [job EXCEPT ![loop[l].call] = "sent"]
    <3> DEFINE to == [loop[l] EXCEPT !.pc = "wait"]
    <3>1. to \in LoopState BY <1>0, LoopStates DEF Places
    <3>2. to.todo = loop[l].todo /\ to.pc = "wait" /\ to.call = loop[l].call
      BY <1>0 DEF LoopState
    <3>3. Becomes(l, to) /\ UNCHANGED <<calls, ran>> BY <1>7, <2>2 DEF Send, Goto
    <3>4. loop[l].pc = "send" BY <1>7 DEF Send, At
    <3>5. loop[l].call \in 1..Len(calls) /\ Permitted(loop[l].call)
      BY <1>0, <3>4 DEF LoopsInv, Busy
    <3> HIDE DEF to
    <3>6. /\ loop' \in [Loop -> LoopState]
          /\ loop'[l] = to /\ \A k \in Loop \ {l} : loop'[k] = loop[k]
          /\ Ahead \in Nat /\ Ahead' \in Nat /\ Ahead' <= Ahead
      BY <1>0, <3>1, <3>2, <3>3, OneLoopMoves
    <3>7. Len(calls) + Ahead' <= MaxCalls BY <1>0, <3>6, LoopAssumption DEF ClientTypes
    <3>8. \A k \in Loop : loop'[k].pc \in Busy =>
             /\ loop[k].pc \in Busy /\ loop'[k].call = loop[k].call
             /\ loop'[k].pc = "check" => loop[k].pc = "check"
             /\ loop'[k].pc \in {"send", "wait"} => Permitted(loop[k].call)
      BY <1>0, <3>2, <3>4, <3>5, <3>6 DEF LoopsInv, Busy
    <3>9. /\ job' \in [1..MaxCalls -> {"none", "sent", "running", "gone"}]
          /\ ran' \subseteq 1..Len(calls)
      BY <1>0, <2>2, <3>3 DEF ClientTypes
    <3>10. \A n \in 1..MaxCalls : n > Len(calls) => job'[n] = job[n]
      <4>1. \A n \in 1..MaxCalls : n > Len(calls) => n # loop[l].call
        BY <1>0, <3>5, LoopAssumption DEF ClientTypes
      <4> QED BY <1>0, <2>2, <4>1 DEF ClientTypes
    <3>11. \A n \in 1..Len(calls) : job'[n] \in {"sent", "running"} \/ n \in ran' => Permitted(n)
      BY <1>0, <2>2, <3>3, <3>5 DEF ClientTypes, ClientInv, JobsInv
    <3> QED BY <3>3, <3>6, <3>7, <3>8, <3>9, <3>10, <3>11, QuietStep
  <2> QED BY <1>7, <2>1, <2>2 DEF Send
<1> QED BY <1>3, <1>4, <1>5, <1>6, <1>7

\* A call begins undecided.
LEMMA StartKeeps ==
    ASSUME ClientInv, NEW l \in Loop, StartCall(l), UNCHANGED <<answers, allowed, approval>>
    PROVE  ClientInv'
<1> DEFINE r == Head(loop[l].todo)
           call == [tool |-> r.tool, id |-> r.id, target |-> r.target, by |-> l, work |-> loop[l].work]
           to == [loop[l] EXCEPT !.pc = "check", !.todo = Tail(@), !.call = Len(calls) + 1]
<1>0. ClientTypes /\ loop[l] \in LoopState /\ loop[l].todo # <<>>
  BY DEF ClientInv, ClientTypes, StartCall
<1>1. r \in Request /\ Tail(loop[l].todo) \in Seq(Request)
      /\ Len(loop[l].todo) \in Nat /\ Len(loop[l].todo) >= 1
      /\ Len(Tail(loop[l].todo)) = Len(loop[l].todo) - 1
  <2>1. loop[l].todo \in Seq(Request) BY <1>0 DEF LoopState
  <2> HIDE DEF ClientInv
  <2> QED BY <2>1, <1>0
<1>2. call \in Call
  <2>1. r.tool \in Safe \cup Dangerous \cup {AgentTool} /\ r.id \in CallId
        /\ r.target \in Target \cup {None}
    BY <1>1 DEF Request
  <2>2. loop[l].work \in Nat BY <1>0 DEF LoopState
  <2> QED BY <2>1, <2>2 DEF Call
<1>3. /\ to \in LoopState
      /\ to.pc = "check" /\ to.todo = Tail(loop[l].todo) /\ to.call = Len(calls) + 1
  <2>1. Len(calls) + 1 \in Nat BY <1>0 DEF ClientTypes
  <2>2. \A s \in Seq(Request), n \in Nat :
           LET new == [loop[l] EXCEPT !.pc = "check", !.todo = s, !.call = n]
           IN  new \in LoopState /\ new.pc = "check" /\ new.todo = s /\ new.call = n
    BY <1>0 DEF LoopState, Places
  <2> QED BY <1>1, <2>1, <2>2
<1>4. Becomes(l, to) /\ calls' = Append(calls, call) /\ UNCHANGED <<job, ran>>
  BY DEF StartCall
<1>5. call.by = l OBVIOUS
<1> HIDE DEF to, call, r
<1>6. /\ calls' \in Seq(Call) /\ Len(calls) \in Nat /\ Len(calls') = Len(calls) + 1
      /\ calls'[Len(calls) + 1] = call
      /\ \A m \in 1..Len(calls) : calls'[m] = calls[m]
  BY <1>0, <1>2, <1>4 DEF ClientTypes
<1>7. /\ loop' \in [Loop -> LoopState]
      /\ loop'[l] = to /\ \A k \in Loop \ {l} : loop'[k] = loop[k]
  BY <1>0, <1>3, <1>4 DEF ClientTypes, Becomes
<1>8. /\ Len(calls') + Ahead' <= MaxCalls
      /\ Len(calls) + 1 <= MaxCalls
  <2>1. Ahead' = Len(loop'["turn"].todo) + Len(loop'["sub"].todo)
        /\ Ahead = Len(loop["turn"].todo) + Len(loop["sub"].todo) BY DEF Ahead
  <2>2. Len(loop["turn"].todo) \in Nat /\ Len(loop["sub"].todo) \in Nat
    BY <1>0 DEF ClientTypes, LoopState, Loop
  <2>3. Len(calls) + (Len(loop["turn"].todo) + Len(loop["sub"].todo)) <= MaxCalls
    BY <1>0, <2>1 DEF ClientTypes
  <2>4. \A a, b, c \in Nat :
           /\ a + (b + c) <= MaxCalls
           => /\ b >= 1 => (a + 1) + ((b - 1) + c) <= MaxCalls /\ a + 1 <= MaxCalls
              /\ c >= 1 => (a + 1) + (b + (c - 1)) <= MaxCalls /\ a + 1 <= MaxCalls
    BY LoopAssumption
  <2>5. CASE l = "turn"
    <3>1. Ahead' = (Len(loop["turn"].todo) - 1) + Len(loop["sub"].todo)
      BY <1>1, <1>3, <1>7, <2>1, <2>5 DEF Loop
    <3> QED BY <1>1, <1>6, <2>2, <2>3, <2>4, <2>5, <3>1
  <2>6. CASE l = "sub"
    <3>1. Ahead' = Len(loop["turn"].todo) + (Len(loop["sub"].todo) - 1)
      BY <1>1, <1>3, <1>7, <2>1, <2>6 DEF Loop
    <3> QED BY <1>1, <1>6, <2>2, <2>3, <2>4, <2>6, <3>1
  <2> QED BY <2>5, <2>6 DEF Loop
<1>9. ClientTypes'
  <2>1. 1..Len(calls) \subseteq 1..Len(calls') BY <1>6
  <2> QED BY <1>0, <1>4, <1>6, <1>7, <1>8, <2>1 DEF ClientTypes
<1>10. \A n \in 1..Len(calls) : Permitted(n) => Permitted(n)'
  BY <1>0, <1>6, PermissionKept
<1>11. AnswersInv'
  BY <1>0, <1>4, <1>6 DEF ClientInv, AnswersInv
<1>12. \A tool : SessionGiven(tool) => SessionGiven(tool)' BY <1>6 DEF SessionGiven
<1>13. AllowedInv' BY <1>12 DEF ClientInv, AllowedInv
<1>14. JobsInv'
  <2> SUFFICES ASSUME NEW n \in 1..Len(calls'), job[n] \in {"sent", "running"} \/ n \in ran
               PROVE  Permitted(n)'
    BY <1>4 DEF JobsInv
  <2>1. CASE n \in 1..Len(calls) BY <2>1, <1>10 DEF ClientInv, JobsInv
  <2>2. CASE n = Len(calls) + 1
    <3>1. n \notin ran BY <1>0, <1>6, <2>2 DEF ClientTypes
    <3>2. job[n] = "none" BY <1>0, <1>6, <1>8, <2>2 DEF ClientInv, AnswersInv
    <3> QED BY <3>1, <3>2
  <2> QED BY <1>6, <2>1, <2>2
<1>15. LoopsInv'
  <2> SUFFICES ASSUME NEW k \in Loop
               PROVE  /\ loop'[k].pc \in Busy => loop'[k].call \in 1..Len(calls')
                                                   /\ calls'[loop'[k].call].by = k
                      /\ loop'[k].pc = "check" => answers'[loop'[k].call] = "none"
                                                    /\ approval' # loop'[k].call
                      /\ (loop[k].pc \in {"send", "wait"} => Permitted(loop[k].call))'
    BY DEF LoopsInv
  <2>1. CASE k = l
    <3>1. answers[Len(calls) + 1] = "none" /\ approval # Len(calls) + 1
      BY <1>6, <1>8 DEF ClientInv, AnswersInv
    <3> QED BY <1>3, <1>5, <1>6, <1>7, <2>1, <3>1 DEF Busy
  <2>2. CASE k # l
    <3>1. loop'[k] = loop[k] BY <1>7, <2>2
    <3>2. loop[k].pc \in Busy => loop[k].call \in 1..Len(calls') /\ calls'[loop[k].call].by = k
      BY <1>6 DEF ClientInv, LoopsInv
    <3>3. loop[k].pc = "check" => answers[loop[k].call] = "none" /\ approval # loop[k].call
      BY DEF ClientInv, LoopsInv
    <3>4. loop[k].pc \in {"send", "wait"} => Permitted(loop[k].call)'
      BY <1>10, <3>1 DEF ClientInv, LoopsInv, Busy
    <3> QED BY <3>1, <3>2, <3>3, <3>4
  <2> QED BY <2>1, <2>2
<1> QED BY <1>9, <1>11, <1>13, <1>14, <1>15 DEF ClientInv

\* A question is put about a call that has had no answer.
LEMMA AskKeeps == ASSUME ClientInv, NEW l \in Loop, AskUser(l) PROVE ClientInv'
<1> DEFINE to == [loop[l] EXCEPT !.pc = "asking"]
           n == loop[l].call
<1>0. ClientTypes /\ loop[l] \in LoopState /\ LoopsInv /\ AnswersInv BY DEF ClientInv, ClientTypes
<1>1. /\ Becomes(l, to) /\ approval' = n /\ loop[l].pc = "check"
      /\ UNCHANGED <<calls, answers, allowed, job, ran>>
  BY DEF AskUser, Ask, Goto, At
<1>2. n \in 1..Len(calls) /\ calls[n].by = l /\ answers[n] = "none"
  BY <1>0, <1>1 DEF LoopsInv, Busy
<1>3. to \in LoopState BY <1>0, LoopStates DEF Places
<1>4. to.todo = loop[l].todo /\ to.pc = "asking" /\ to.call = n
  BY <1>0 DEF LoopState
<1> HIDE DEF to
<1>5. /\ loop' \in [Loop -> LoopState]
      /\ loop'[l] = to /\ \A k \in Loop \ {l} : loop'[k] = loop[k]
      /\ Ahead \in Nat /\ Ahead' \in Nat /\ Ahead' <= Ahead
  BY <1>0, <1>1, <1>3, <1>4, OneLoopMoves
<1>6. ClientTypes' BY <1>0, <1>1, <1>2, <1>5, LoopAssumption DEF ClientTypes
<1>7. AnswersInv' BY <1>0, <1>1, <1>2 DEF AnswersInv
<1>8. \A m \in 1..Len(calls) : Permitted(m) => Permitted(m)'
  BY <1>1 DEF Permitted, SessionGiven
<1>9. JobsInv' /\ AllowedInv'
  BY <1>1, <1>8 DEF ClientInv, JobsInv, AllowedInv, SessionGiven
<1>10. LoopsInv'
  <2> SUFFICES ASSUME NEW k \in Loop
               PROVE  /\ loop'[k].pc \in Busy => loop'[k].call \in 1..Len(calls)
                                                   /\ calls[loop'[k].call].by = k
                      /\ loop'[k].pc = "check" => answers[loop'[k].call] = "none"
                                                    /\ approval' # loop'[k].call
                      /\ (loop[k].pc \in {"send", "wait"} => Permitted(loop[k].call))'
    BY <1>1 DEF LoopsInv
  <2>1. CASE k = l BY <1>2, <1>4, <1>5, <2>1
  <2>2. CASE k # l
    <3>1. loop'[k] = loop[k] BY <1>5, <2>2
    <3>2. loop[k].pc = "check" => loop[k].call # n BY <1>0, <1>2, <2>2 DEF LoopsInv, Busy
    <3>3. loop[k].pc \in {"send", "wait"} => Permitted(loop[k].call)'
      BY <1>0, <1>8, <3>1 DEF LoopsInv, Busy
    <3> QED BY <1>0, <1>1, <3>1, <3>2, <3>3 DEF LoopsInv
  <2> QED BY <2>1, <2>2
<1> QED BY <1>6, <1>7, <1>9, <1>10 DEF ClientInv

\* The user's answer is put in the channel of the question on the screen, and
\* never changes one that was given.
LEMMA ChooseKeeps == ASSUME ClientInv, Choose PROVE ClientInv'
<1>0. ClientTypes /\ LoopsInv /\ AnswersInv BY DEF ClientInv
<1>1. approval \in 1..Len(calls) /\ answers[approval] = "none" /\ approval' = 0
  BY <1>0 DEF Choose, AnswersInv
<1>2. PICK d \in Decision : answers' = [answers EXCEPT ![approval] = d] BY DEF Choose
<1>3. UNCHANGED <<calls, loop, job, ran, allowed>> BY DEF Choose, loopVars
<1>4. ClientTypes' BY <1>0, <1>1, <1>2, <1>3 DEF ClientTypes, Ahead
<1>5. \A m \in 1..MaxCalls : m # approval => answers'[m] = answers[m]
  BY <1>0, <1>2 DEF ClientTypes
<1>6. Len(calls) \in Nat /\ \A m \in 1..Len(calls) : m \in 1..MaxCalls
  BY <1>0, CallsBounded
<1>7. AnswersInv' BY <1>0, <1>1, <1>3, <1>5, <1>6 DEF AnswersInv
<1>8. \A m \in 1..Len(calls) : Permitted(m) => Permitted(m)'
  <2>1. \A m \in 1..Len(calls) : answers[m] # "none" => answers'[m] = answers[m]
    BY <1>1, <1>5, <1>6
  <2> QED BY <1>0, <1>3, <2>1, PermissionKept DEF ClientTypes
<1>9. \A tool : SessionGiven(tool) => SessionGiven(tool)'
  BY <1>1, <1>3, <1>5, <1>6 DEF SessionGiven
<1>10. JobsInv' /\ AllowedInv'
  BY <1>3, <1>8, <1>9 DEF ClientInv, JobsInv, AllowedInv
<1>11. LoopsInv'
  <2> SUFFICES ASSUME NEW k \in Loop
               PROVE  /\ loop[k].pc \in Busy => loop[k].call \in 1..Len(calls)
                                                  /\ calls[loop[k].call].by = k
                      /\ loop[k].pc = "check" => answers'[loop[k].call] = "none"
                                                   /\ 0 # loop[k].call
                      /\ (loop[k].pc \in {"send", "wait"} => Permitted(loop[k].call))'
    BY <1>1, <1>3 DEF LoopsInv
  <2>1. loop[k].pc \in Busy => loop[k].call \in 1..Len(calls) /\ calls[loop[k].call].by = k
    BY <1>0 DEF LoopsInv
  <2>2. loop[k].pc = "check" => answers'[loop[k].call] = "none" /\ 0 # loop[k].call
    BY <1>0, <1>5, <1>6, <2>1 DEF LoopsInv, Busy
  <2>3. loop[k].pc \in {"send", "wait"} => Permitted(loop[k].call)'
    BY <1>0, <1>3, <1>8, <2>1 DEF LoopsInv, Busy
  <2> QED BY <1>3, <2>1, <2>2, <2>3
<1> QED BY <1>4, <1>7, <1>10, <1>11 DEF ClientInv

\* The goroutine that asked hears the answer, or the end of its context.
LEMMA HearKeeps ==
    ASSUME ClientInv, NEW l \in Loop, HearAnswer(l) \/ HearCancel(l)
    PROVE  ClientInv'
<1>0. ClientTypes /\ loop[l] \in LoopState /\ LoopsInv BY DEF ClientInv, ClientTypes
<1> DEFINE n == loop[l].call
           to == [loop[l] EXCEPT !.pc = "send"]
<1>1. UNCHANGED <<calls, answers, approval, job, ran>>
  BY DEF HearAnswer, HearCancel, Answered, uiVars
<1>2. n \in 1..Len(calls) /\ n \in 1..MaxCalls
  <2>1. n \in 1..Len(calls)
    BY <1>0 DEF HearAnswer, HearCancel, Answered, At, LoopsInv, Busy
  <2> QED BY <1>0, <2>1, CallsBounded
<1>3. UNCHANGED allowed \/ \A tool \in allowed' : SessionGiven(tool)
  <2>1. CASE UNCHANGED allowed BY <2>1
  <2>2. CASE answers[n] = "session" /\ allowed' = allowed \cup {calls[n].tool}
    BY <1>2, <2>2 DEF ClientInv, AllowedInv, SessionGiven
  <2> QED BY <2>1, <2>2 DEF HearAnswer, HearCancel, Record, uiVars
<1>4. CASE Becomes(l, Gets(l, "failed"))
  <2>1. Gets(l, "failed") \in LoopState BY <1>0, LoopStates DEF Status
  <2>2. Gets(l, "failed").todo = loop[l].todo /\ Gets(l, "failed").pc = "settle"
    BY <1>0 DEF Gets, LoopState
  <2> QED BY <1>1, <1>3, <1>4, <2>1, <2>2, QuietLoop DEF Busy
<1>5. CASE HearAnswer(l) /\ answers[n] # "deny" /\ Becomes(l, to)
  <2>1. to \in LoopState BY <1>0, LoopStates DEF Places
  <2>2. to.todo = loop[l].todo /\ to.pc = "send" /\ to.call = n
    BY <1>0 DEF LoopState
  <2>3. loop[l].pc = "asking" /\ answers[n] # "none" BY <1>5 DEF HearAnswer, At
  <2>4. answers[n] \in {"once", "session"} BY <1>0, <1>2, <1>5, <2>3 DEF ClientTypes, Decision
  <2>5. Permitted(n) BY <1>2, <2>4 DEF Permitted, SessionGiven
  <2> HIDE DEF to
  <2> QED BY <1>1, <1>3, <1>5, <2>1, <2>2, <2>3, <2>5, QuietLoop DEF Busy
<1> QED BY <1>4, <1>5 DEF HearAnswer, HearCancel, Answered, Goto

\* The goroutine of a builtin acts only on what was sent.
LEMMA JobKeeps ==
    ASSUME ClientInv, NEW n \in 1..MaxCalls, JobStep(n), UNCHANGED uiVars
    PROVE  ClientInv'
<1>0. /\ ClientTypes /\ LoopsInv /\ JobsInv /\ n \in 1..Len(calls)
      /\ UNCHANGED <<calls, answers, allowed, approval>>
  BY DEF ClientInv, JobStep, Made, uiVars, ToolActs, ToolRefuses, ToolReturns,
         RefuseDelegation, Delegate
<1>1. CASE ToolRefuses(n) \/ ToolReturns(n) \/ RefuseDelegation(n)
  <2>1. PICK status \in {"completed", "failed"} : Finishes(n, status, loop) /\ UNCHANGED ran
    BY <1>1 DEF ToolRefuses, ToolReturns, RefuseDelegation
  <2> QED BY <1>0, <2>1, FinishesKeeps DEF Status
<1>2. CASE ToolActs(n) \/ Delegate(n)
  <2>1. /\ job[n] = "sent" /\ job' = [job EXCEPT ![n] = "running"]
        /\ ran' = ran \cup {n}
    BY <1>2 DEF ToolActs, Delegate
  <2>2. Permitted(n) BY <1>0, <2>1 DEF JobsInv
  <2>3. /\ job' \in [1..MaxCalls -> {"none", "sent", "running", "gone"}]
        /\ ran' \subseteq 1..Len(calls)
    BY <1>0, <2>1 DEF ClientTypes
  <2>4. \A m \in 1..MaxCalls : m > Len(calls) => job'[m] = job[m]
    <3>1. \A m \in 1..MaxCalls : m > Len(calls) => m # n BY <1>0, CallsBounded
    <3> QED BY <1>0, <2>1, <3>1 DEF ClientTypes
  <2>5. \A m \in 1..Len(calls) : job'[m] \in {"sent", "running"} \/ m \in ran' => Permitted(m)
    BY <1>0, <2>1, <2>2 DEF JobsInv, ClientTypes
  <2>6. /\ loop' \in [Loop -> LoopState]
        /\ \A l \in Loop : loop'[l].pc \in Busy => loop'[l] = loop[l]
        /\ \A l \in Loop : loop'[l].todo = loop[l].todo \/ loop'[l].todo = <<>>
    <3>1. CASE ToolActs(n) BY <1>0, <3>1 DEF ToolActs, ClientTypes
    <3>2. CASE Delegate(n)
      <4> DEFINE to == [Idle EXCEPT !.pc = "model", !.round = 1, !.work = TurnOf(n)]
      <4>1. TurnOf(n) \in Nat
        <5>1. calls[n] \in Call BY <1>0 DEF ClientTypes
        <5> QED BY <5>1 DEF TurnOf, Call
      <4>2. to \in LoopState BY <1>0, <4>1, LoopStates DEF Loop
      <4>3. to.todo = <<>> /\ to.pc = "model" BY DEF Idle
      <4>4. Becomes("sub", to) BY <3>2 DEF Delegate
      <4> HIDE DEF to
      <4>5. /\ loop' \in [Loop -> LoopState]
            /\ loop'["sub"] = to /\ \A l \in Loop \ {"sub"} : loop'[l] = loop[l]
        BY <1>0, <4>2, <4>4 DEF ClientTypes, Becomes, Loop
      <4> QED BY <4>3, <4>5 DEF Busy
    <3> QED BY <1>2, <3>1, <3>2
  <2>7. Ahead' \in Nat /\ Ahead' <= Ahead /\ Ahead \in Nat BY <1>0, <2>6, LoopsShrink
  <2>8. Len(calls) + Ahead' <= MaxCalls BY <1>0, <2>7, LoopAssumption DEF ClientTypes
  <2>9. \A l \in Loop : loop'[l].pc \in Busy =>
           /\ loop[l].pc \in Busy /\ loop'[l].call = loop[l].call
           /\ loop'[l].pc = "check" => loop[l].pc = "check"
           /\ loop'[l].pc \in {"send", "wait"} => Permitted(loop[l].call)
    BY <1>0, <2>6 DEF LoopsInv
  <2> QED BY <1>0, <2>3, <2>4, <2>5, <2>6, <2>8, <2>9, QuietStep
<1> QED BY <1>1, <1>2 DEF JobStep

\* A turn begins, and is over.
LEMMA TurnKeeps ==
    ASSUME ClientInv, Finish \/ \E w \in Work : Submit(w)
    PROVE  ClientInv'
<1>0. /\ ClientTypes /\ UNCHANGED <<calls, answers, allowed, job, ran>>
      /\ approval' \in {approval, 0} /\ "turn" \in Loop
  BY DEF ClientInv, Finish, Submit, Begin, Loop
<1>1. CASE Finish
  <2> DEFINE to == [loop["turn"] EXCEPT !.pc = "idle"]
  <2>1. to \in LoopState BY <1>0, LoopStates DEF Places
  <2>2. to.todo = loop["turn"].todo /\ to.pc = "idle" BY <1>0 DEF ClientTypes, LoopState
  <2>3. Becomes("turn", to) BY <1>1 DEF Finish, Goto
  <2> HIDE DEF to
  <2> QED BY <1>0, <2>1, <2>2, <2>3, QuietLoop DEF Busy
<1>2. ASSUME NEW w \in Work, Submit(w) PROVE ClientInv'
  <2> DEFINE to == [Idle EXCEPT !.pc = "model", !.round = 1, !.work = w]
  <2>1. to \in LoopState BY <1>0, LoopStates, LoopAssumption
  <2>2. to.todo = <<>> /\ to.pc = "model" BY DEF Idle
  <2>3. Becomes("turn", to) BY <1>2 DEF Submit, Begin
  <2> HIDE DEF to
  <2> QED BY <1>0, <2>1, <2>2, <2>3, QuietLoop DEF Busy
<1> QED BY <1>1, <1>2

\* A client that has just begun shows nothing and waits for nothing.
LEMMA InitClient == Init => ClientInv
<1> SUFFICES ASSUME Init PROVE ClientInv OBVIOUS
<1>1. /\ calls = <<>> /\ Len(calls) = 0 /\ ran = {} /\ approval = 0 /\ allowed = {}
      /\ loop = [l \in Loop |-> Idle]
      /\ job = [n \in 1..MaxCalls |-> "none"] /\ answers = [n \in 1..MaxCalls |-> "none"]
  BY DEF Init, LoopInit
<1>2. Idle \in LoopState /\ Idle.todo = <<>> /\ Idle.pc = "idle"
  <2>1. <<>> \in Seq(Request) OBVIOUS
  <2> QED BY <2>1 DEF Idle, LoopState, Places, Status
<1>3. Ahead = 0 BY <1>1, <1>2 DEF Ahead, Loop
<1>4. ClientTypes BY <1>1, <1>2, <1>3, LoopAssumption DEF ClientTypes
<1> QED BY <1>1, <1>2, <1>4
     DEF ClientInv, AnswersInv, LoopsInv, JobsInv, AllowedInv, Busy

\* Every step keeps the invariant.
LEMMA NextKeeps == ClientInv /\ [Next]_vars => ClientInv'
<1> SUFFICES ASSUME ClientInv, [Next]_vars PROVE ClientInv' OBVIOUS
<1>1. ASSUME UNCHANGED <<calls, loop, job, ran, approval, answers, allowed>> PROVE ClientInv'
  <2>1. Ahead' = Ahead BY <1>1 DEF Ahead
  <2>2. ClientTypes' BY <1>1, <2>1 DEF ClientInv, ClientTypes
  <2>3. AnswersInv' BY <1>1 DEF ClientInv, AnswersInv
  <2>4. LoopsInv' BY <1>1 DEF ClientInv, LoopsInv, Permitted, SessionGiven
  <2>5. JobsInv' BY <1>1 DEF ClientInv, JobsInv, Permitted, SessionGiven
  <2>6. AllowedInv' BY <1>1 DEF ClientInv, AllowedInv, SessionGiven
  <2> QED BY <2>2, <2>3, <2>4, <2>5, <2>6 DEF ClientInv
<1>2. CASE UNCHANGED vars BY <1>1, <1>2 DEF vars, loopVars, uiVars
<1>3. CASE Key
  <2>1. ASSUME NEW w \in Work, Compact(w) PROVE ClientInv' BY <1>1, <2>1 DEF Compact, loopVars
  <2>2. CASE Type BY <1>1, <2>2 DEF Type, loopVars
  <2>3. CASE Interrupt BY <1>1, <2>3 DEF Interrupt, uiVars
  <2> QED BY <1>3, <2>1, <2>2, <2>3, TurnKeeps, ChooseKeeps DEF Key
<1>4. CASE FinishCompact BY <1>1, <1>4 DEF FinishCompact, loopVars
<1>5. CASE Finish BY <1>5, TurnKeeps
<1>6. ASSUME NEW n \in 1..MaxCalls, Tool(n) PROVE ClientInv' BY <1>6, JobKeeps DEF Tool
<1>7. ASSUME NEW l \in Loop, Goroutine(l) PROVE ClientInv'
  <2>1. CASE LoopMoves(l)
    <3>1. UNCHANGED <<answers, allowed, approval>> BY <2>1 DEF LoopMoves, uiVars
    <3>2. CASE l = "turn" /\ (StartUnrecorded \/ SettleUnrecorded \/ StreamEnds)
      BY <3>1, <3>2, EndsKeeps DEF StartUnrecorded, SettleUnrecorded, StreamEnds
    <3> QED BY <2>1, <3>1, <3>2, ModelKeeps, CallKeeps DEF LoopMoves
  <2>2. CASE CallStarts(l) BY <2>2, StartKeeps DEF CallStarts
  <2>3. CASE CallSettles(l) BY <2>3, CallKeeps DEF CallSettles
  <2> QED BY <1>7, <2>1, <2>2, <2>3, AskKeeps, HearKeeps DEF Goroutine
<1> QED BY <1>2, <1>3, <1>4, <1>5, <1>6, <1>7 DEF Next

(***************************************************************************)
(* A dangerous tool has an effect only after the user allowed that call,   *)
(* or the tool for the session, however long the behaviour, and with turns *)
(* interrupted and delegated runs left behind (sendPrompt, executeTool,    *)
(* runSubagent).                                                           *)
(***************************************************************************)
THEOREM RunsAreAllowed == Spec => []RunsOnlyAllowed
<1>1. ClientInv => RunsOnlyAllowed
  BY DEF ClientInv, ClientTypes, JobsInv, Permitted, SessionGiven, RunsOnlyAllowed
<1> QED BY InitClient, NextKeeps, <1>1, PTL DEF Spec

-----------------------------------------------------------------------------
(* The shape of the loops *)

\* The turn is at a call: its row is written and not yet updated.
InCall == {"check", "asking", "send", "wait", "settle"}

\* A loop works for a turn while it is not idle, within the limits of rounds
\* and of one reply; it has the result it is to write, and asks about what
\* needs asking.
GoodLoop(s) ==
    /\ s.round \in 0..MaxToolRounds
    /\ s.todo = <<>> \/ s.todo \in Reply
    /\ s.call \in 0..Len(calls)
    /\ s.work \in Work \cup {0}
    /\ s.pc # "idle" => s.work \in Work
    /\ s.pc = "settle" => s.got \in {"completed", "failed"}
    /\ s.pc = "asking" => calls[s.call].tool \in Dangerous

LoopsGood == \A l \in Loop : GoodLoop(loop[l])

\* The turn stays where it is, as far as a look from outside tells: in a call,
\* between calls, over or not there.
StageKept ==
    /\ loop'["turn"].work = loop["turn"].work
    /\ loop'["turn"].pc = "idle" <=> loop["turn"].pc = "idle"
    /\ loop'["turn"].pc = "over" <=> loop["turn"].pc = "over"
    /\ loop'["turn"].pc \in InCall <=> loop["turn"].pc \in InCall
    /\ loop'["turn"].pc \in InCall => loop'["turn"].call = loop["turn"].call
    /\ UNCHANGED outcome

\* The turn is over, and that it is completed means that it is at no call.
TurnOver ==
    /\ loop["turn"].pc \notin {"idle", "over"}
    /\ loop'["turn"].pc = "over" /\ loop'["turn"].work = loop["turn"].work
    /\ \E how \in {"completed", "failed", "cancelled", "lost"} :
          /\ outcome' = [outcome EXCEPT ![loop["turn"].work] = how]
          /\ how = "completed" => loop["turn"].pc = "model"

\* What is left of a reply is a reply again, or nothing.
LEMMA ReplyRest ==
    ASSUME NEW reply \in Reply
    PROVE  Tail(reply) = <<>> \/ Tail(reply) \in Reply
<1>1. PICK n \in 1..MaxAtOnce : reply \in [1..n -> Request] BY DEF Reply
<1>2. n \in Nat /\ n >= 1 /\ n <= MaxAtOnce BY LoopAssumption
<1>3. reply \in Seq(Request) /\ Len(reply) = n BY <1>1, <1>2
<1>4. reply # <<>> BY <1>2, <1>3
<1>5. Tail(reply) \in Seq(Request) /\ Len(Tail(reply)) = n - 1 BY <1>3, <1>4
<1>6. CASE n = 1
  <2>1. Len(Tail(reply)) = 0 BY <1>5, <1>6
  <2>2. \A s \in Seq(Request) : Len(s) = 0 => s = <<>> OBVIOUS
  <2> QED BY <1>5, <2>1, <2>2
<1>7. CASE n # 1
  <2>1. n - 1 \in 1..MaxAtOnce BY <1>2, <1>7, LoopAssumption
  <2>2. Tail(reply) \in [1..(n - 1) -> Request]
    <3>1. \A s \in Seq(Request) : s \in [1..Len(s) -> Request] OBVIOUS
    <3> QED BY <1>5, <3>1
  <2> QED BY <2>1, <2>2 DEF Reply
<1> QED BY <1>6, <1>7

\* What a loop becomes is good when it was.
LEMMA GoodLoops ==
    ASSUME ClientTypes, LoopsGood, NEW l \in Loop
    PROVE  /\ \A pc \in Places \ {"settle", "asking"} : loop[l].work \in Work =>
                 GoodLoop([loop[l] EXCEPT !.pc = pc])
           /\ calls[loop[l].call].tool \in Dangerous /\ loop[l].work \in Work =>
                 GoodLoop([loop[l] EXCEPT !.pc = "asking"])
           /\ \A status \in {"completed", "failed"} : loop[l].work \in Work =>
                 GoodLoop(Gets(l, status))
           /\ loop[l].work \in Work => GoodLoop([loop[l] EXCEPT !.pc = "start", !.got = None])
           /\ GoodLoop(Idle)
           /\ \A w \in Work : /\ GoodLoop([Idle EXCEPT !.pc = "over", !.work = w])
                              /\ GoodLoop([Idle EXCEPT !.pc = "model", !.round = 1, !.work = w])
<1>1. loop[l] \in LoopState /\ GoodLoop(loop[l]) BY DEF ClientTypes, LoopsGood
<1>2. MaxToolRounds \in Nat /\ MaxToolRounds >= 1 /\ Len(calls) \in Nat
  BY LoopAssumption DEF ClientTypes
<1>3. GoodLoop(Idle) /\ \A w \in Work :
         /\ GoodLoop([Idle EXCEPT !.pc = "over", !.work = w])
         /\ GoodLoop([Idle EXCEPT !.pc = "model", !.round = 1, !.work = w])
  BY <1>2 DEF GoodLoop, Idle
<1>4. \A pc \in Places \ {"settle", "asking"} : loop[l].work \in Work =>
         GoodLoop([loop[l] EXCEPT !.pc = pc])
  BY <1>1 DEF GoodLoop, LoopState
<1>5. calls[loop[l].call].tool \in Dangerous /\ loop[l].work \in Work =>
         GoodLoop([loop[l] EXCEPT !.pc = "asking"])
  BY <1>1 DEF GoodLoop, LoopState
<1>6. \A status \in {"completed", "failed"} : loop[l].work \in Work => GoodLoop(Gets(l, status))
  BY <1>1 DEF GoodLoop, LoopState, Gets
<1>7. loop[l].work \in Work => GoodLoop([loop[l] EXCEPT !.pc = "start", !.got = None])
  BY <1>1 DEF GoodLoop, LoopState
<1> QED BY <1>3, <1>4, <1>5, <1>6, <1>7

\* One loop becomes something good, and the other stays as it is.
LEMMA OneGood ==
    ASSUME ClientTypes, LoopsGood, NEW l \in Loop, NEW to, GoodLoop(to), Becomes(l, to)
    PROVE  \A k \in Loop : GoodLoop(loop'[k])
BY DEF ClientTypes, LoopsGood, Becomes

\* The goroutine of a call comes to its end, and perhaps the delegated loop.
LEMMA FinishesGood ==
    ASSUME ClientTypes, LoopsGood, NEW n \in 1..Len(calls), NEW status \in {"completed", "failed"},
           NEW others \in {loop, [loop EXCEPT !["sub"] = Idle]},
           Finishes(n, status, others), UNCHANGED outcome
    PROVE  StageKept /\ \A l \in Loop : GoodLoop(loop'[l])
<1>1. "turn" \in Loop /\ others["turn"] = loop["turn"] /\ \A l \in Loop : others[l] \in {loop[l], Idle}
  BY DEF ClientTypes, Loop
<1>2. \A l \in Loop : loop'[l] = IF Waits(l, n) THEN Gets(l, status) ELSE others[l]
  BY DEF Finishes
<1>3. \A l \in Loop : GoodLoop(loop'[l])
  <2>1. \A l \in Loop : Waits(l, n) => loop[l].work \in Work
    BY DEF Waits, LoopsGood, GoodLoop
  <2>2. \A l \in Loop : GoodLoop(Idle) /\ GoodLoop(loop[l])
    BY GoodLoops DEF LoopsGood
  <2>3. \A l \in Loop : Waits(l, n) => GoodLoop(Gets(l, status))
    BY <2>1, GoodLoops
  <2> QED BY <1>1, <1>2, <2>2, <2>3
<1>4. loop["turn"] \in LoopState BY <1>1 DEF ClientTypes
<1>5. CASE Waits("turn", n)
  <2>1. loop'["turn"] = Gets("turn", status) BY <1>1, <1>2, <1>5
  <2>2. /\ Gets("turn", status).pc = "settle" /\ Gets("turn", status).work = loop["turn"].work
        /\ Gets("turn", status).call = loop["turn"].call
    BY <1>4 DEF Gets, LoopState
  <2> QED BY <1>3, <1>5, <2>1, <2>2 DEF StageKept, InCall, Waits
<1>6. CASE ~Waits("turn", n)
  <2>1. loop'["turn"] = loop["turn"] BY <1>1, <1>2, <1>6
  <2> QED BY <1>3, <2>1 DEF StageKept
<1> QED BY <1>5, <1>6

\* A loop ends: the turn is over, or stays where it is.
LEMMA EndsGood ==
    ASSUME ClientTypes, LoopsGood, NEW l \in Loop, NEW how \in {"completed", "failed", "lost"},
           Ends(l, how), loop[l].pc \notin {"idle", "over"},
           how = "completed" => loop[l].pc = "model"
    PROVE  (StageKept \/ TurnOver) /\ \A k \in Loop : GoodLoop(loop'[k])
<1>1. CASE l = "turn"
  <2> DEFINE to == [Idle EXCEPT !.pc = "over", !.work = loop["turn"].work]
  <2>1. Becomes("turn", to) /\ TurnEndsAs("turn", how) BY <1>1 DEF Ends
  <2>2. loop["turn"].work \in Work BY <1>1 DEF LoopsGood, GoodLoop
  <2>3. GoodLoop(to) BY <1>1, <2>2, GoodLoops
  <2>4. to.pc = "over" /\ to.work = loop["turn"].work BY DEF Idle
  <2> HIDE DEF to
  <2>5. loop'["turn"] = to BY <1>1, <2>1 DEF Becomes, ClientTypes
  <2>6. \A k \in Loop : GoodLoop(loop'[k]) BY <1>1, <2>1, <2>3, OneGood
  <2>7. PICK ended \in {"completed", "failed", "cancelled", "lost"} :
           /\ outcome' = [outcome EXCEPT ![loop["turn"].work] = ended]
           /\ ended = "completed" => how = "completed"
    BY <2>1 DEF TurnEndsAs
  <2> QED BY <1>1, <2>4, <2>5, <2>6, <2>7 DEF TurnOver
<1>2. CASE l = "sub"
  <2>1. PICK n \in 1..Len(calls), status \in {"completed", "failed"} :
           Finishes(n, status, [loop EXCEPT !["sub"] = Idle])
    BY <1>2 DEF Ends
  <2>2. UNCHANGED outcome BY <1>2 DEF Ends
  <2> QED BY <2>1, <2>2, FinishesGood
<1> QED BY <1>1, <1>2 DEF Loop

\* One loop stays at a call, between calls, or where it is.
LEMMA StaysGood ==
    ASSUME ClientTypes, LoopsGood, NEW l \in Loop, NEW to, GoodLoop(to), Becomes(l, to),
           to.work = loop[l].work, loop[l].pc \notin {"idle", "over"}, to.pc \notin {"idle", "over"},
           to.pc \in InCall <=> loop[l].pc \in InCall,
           to.pc \in InCall => to.call = loop[l].call,
           UNCHANGED outcome
    PROVE  StageKept /\ \A k \in Loop : GoodLoop(loop'[k])
<1>1. \A k \in Loop : loop'[k] = IF k = l THEN to ELSE loop[k] BY DEF Becomes, ClientTypes
<1>2. "turn" \in Loop BY DEF Loop
<1>3. \A k \in Loop : GoodLoop(loop'[k]) BY OneGood
<1> QED BY <1>1, <1>2, <1>3 DEF StageKept

\* What the goroutine of a turn does that no entry of the transcript shows.
LEMMA LoopMovesGood ==
    ASSUME ClientInv, LoopsGood, NEW l \in Loop,
           LoopMoves(l) \/ AskUser(l) \/ HearAnswer(l) \/ HearCancel(l)
    PROVE  /\ StageKept \/ TurnOver
           /\ \A k \in Loop : GoodLoop(loop'[k])
           /\ UNCHANGED <<runs, calls, rows, stopped, used, sending, compacting, cancel,
                          slashOpen, transcript, folding>>
<1> DEFINE Good == (StageKept \/ TurnOver) /\ \A k \in Loop : GoodLoop(loop'[k])
<1>0. ClientTypes /\ loop[l] \in LoopState /\ GoodLoop(loop[l]) BY DEF ClientInv, ClientTypes, LoopsGood
<1>w. loop[l].pc # "idle" => loop[l].work \in Work BY <1>0 DEF GoodLoop
<1>1. ASSUME ModelAnswers(l) \/ ModelFails(l) PROVE Good
  BY <1>0, <1>1, EndsGood DEF ModelAnswers, ModelFails, At
<1>2. ASSUME ModelAsks(l) PROVE Good
  <2>1. PICK reply \in Reply : Becomes(l, [loop[l] EXCEPT !.pc = "start", !.todo = reply])
    BY <1>2 DEF ModelAsks
  <2> DEFINE to == [loop[l] EXCEPT !.pc = "start", !.todo = reply]
  <2>2. GoodLoop(to) BY <1>0, <1>2 DEF GoodLoop, LoopState, ModelAsks, At
  <2>3. to.work = loop[l].work /\ to.pc = "start" BY <1>0 DEF LoopState
  <2> HIDE DEF to
  <2> QED BY <1>0, <1>2, <2>1, <2>2, <2>3, StaysGood DEF ModelAsks, At, InCall, to
<1>3. ASSUME NextRound(l) PROVE Good
  <2>1. CASE Ends(l, "failed") BY <1>0, <1>3, <2>1, EndsGood DEF NextRound, At
  <2> DEFINE to == [loop[l] EXCEPT !.pc = "model", !.round = @ + 1]
  <2>2. CASE loop[l].round < MaxToolRounds /\ Becomes(l, to) /\ UNCHANGED outcome
    <3>1. loop[l].round + 1 \in 0..MaxToolRounds
      BY <1>0, <2>2, LoopAssumption DEF GoodLoop
    <3>2. GoodLoop(to)
      BY <1>0, <1>3, <3>1 DEF GoodLoop, LoopState, NextRound, At
    <3>3. to.work = loop[l].work /\ to.pc = "model" BY <1>0 DEF LoopState
    <3> HIDE DEF to
    <3> QED BY <1>0, <1>3, <2>2, <3>2, <3>3, StaysGood DEF NextRound, At, InCall
  <2> QED BY <1>3, <2>1, <2>2 DEF NextRound
<1>4. ASSUME NEW status \in {"completed", "failed"}, Becomes(l, Gets(l, status)),
             loop[l].pc \in InCall, UNCHANGED outcome
      PROVE  Good
  <2>1. /\ Gets(l, status).pc = "settle" /\ Gets(l, status).work = loop[l].work
        /\ Gets(l, status).call = loop[l].call
    BY <1>0 DEF Gets, LoopState
  <2>2. GoodLoop(Gets(l, status)) BY <1>0, <1>4, <1>w, GoodLoops DEF InCall
  <2> QED BY <1>0, <1>4, <2>1, <2>2, StaysGood DEF InCall
<1>5. ASSUME NEW pc \in {"asking", "send", "wait"}, Goto(l, pc), loop[l].pc \in InCall,
             pc = "asking" => ToolOf(l) \in Dangerous, UNCHANGED outcome
      PROVE  Good
  <2> DEFINE to == [loop[l] EXCEPT !.pc = pc]
  <2>1. to.pc = pc /\ to.work = loop[l].work /\ to.call = loop[l].call
    BY <1>0 DEF LoopState
  <2>2. GoodLoop(to) BY <1>0, <1>5, <1>w, GoodLoops DEF InCall, Places, ToolOf
  <2>3. Becomes(l, to) BY <1>5 DEF Goto
  <2> HIDE DEF to
  <2> QED BY <1>0, <1>5, <2>1, <2>2, <2>3, StaysGood DEF InCall
<1>6. ASSUME Unknown(l) PROVE Good BY <1>4, <1>6 DEF Unknown, At, InCall
<1>7. ASSUME Permit(l, allowed) PROVE Good BY <1>5, <1>7 DEF Permit, At, InCall
<1>8. ASSUME Send(l) PROVE Good BY <1>4, <1>5, <1>8 DEF Send, At, InCall
<1>9. ASSUME Leave(l) PROVE Good BY <1>4, <1>9 DEF Leave, At, InCall
<1>10. ASSUME Ask(l, allowed) PROVE Good BY <1>5, <1>10 DEF Ask, At, InCall, NeedsApproval
<1>11. ASSUME NEW yes, Answered(l, yes) PROVE Good BY <1>4, <1>5, <1>11 DEF Answered, At, InCall
<1>12. ASSUME l = "turn" /\ (StartUnrecorded \/ SettleUnrecorded \/ StreamEnds) PROVE Good
  BY <1>0, <1>12, EndsGood DEF StartUnrecorded, SettleUnrecorded, StreamEnds, At, Loop
<1>13. Good
  BY <1>1, <1>2, <1>3, <1>6, <1>7, <1>8, <1>9, <1>10, <1>11, <1>12
  DEF LoopMoves, AskUser, HearAnswer, HearCancel
<1>14. UNCHANGED <<runs, calls, rows, stopped, used, sending, compacting, cancel,
                   slashOpen, transcript, folding>>
  BY DEF LoopMoves, AskUser, HearAnswer, HearCancel, Ask, Answered, ModelAsks, ModelAnswers,
         ModelFails, NextRound, Unknown, Permit, Send, Leave, StartUnrecorded, SettleUnrecorded,
         StreamEnds, uiVars
<1> QED BY <1>13, <1>14

\* A builtin's goroutine moves.
LEMMA ToolGood ==
    ASSUME ClientInv, LoopsGood, NEW n \in 1..MaxCalls, Tool(n),
           \A m \in 1..Len(calls) : calls[m].work \in Work
    PROVE  /\ StageKept
           /\ \A l \in Loop : GoodLoop(loop'[l])
           /\ UNCHANGED <<runs, calls, rows, stopped, uiVars>>
<1>0. /\ ClientTypes /\ n \in 1..Len(calls)
      /\ UNCHANGED <<runs, calls, rows, stopped, outcome, uiVars>>
  BY DEF ClientInv, Tool, JobStep, Made, ToolActs, ToolRefuses, ToolReturns, RefuseDelegation, Delegate
<1>1. CASE ToolRefuses(n) \/ ToolReturns(n) \/ RefuseDelegation(n)
  <2>1. PICK status \in {"completed", "failed"} : Finishes(n, status, loop)
    BY <1>1 DEF ToolRefuses, ToolReturns, RefuseDelegation
  <2> QED BY <1>0, <2>1, FinishesGood
<1>2. CASE ToolActs(n) BY <1>0, <1>2 DEF ToolActs, StageKept, LoopsGood
<1>3. CASE Delegate(n)
  <2> DEFINE to == [Idle EXCEPT !.pc = "model", !.round = 1, !.work = TurnOf(n)]
  <2>1. Becomes("sub", to) /\ "sub" \in Loop /\ "turn" \in Loop BY <1>3 DEF Delegate, Loop
  <2>2. TurnOf(n) \in Work BY <1>0 DEF TurnOf
  <2>3. GoodLoop(to) BY <1>0, <2>1, <2>2, GoodLoops
  <2> HIDE DEF to
  <2>4. \A l \in Loop : GoodLoop(loop'[l]) BY <1>0, <2>1, <2>3, OneGood
  <2>5. loop'["turn"] = loop["turn"] BY <1>0, <2>1 DEF Becomes, ClientTypes
  <2> QED BY <1>0, <2>4, <2>5 DEF StageKept
<1> QED BY <1>0, <1>1, <1>2, <1>3 DEF Tool, JobStep

-----------------------------------------------------------------------------
(* The types, and what the client knows *)

RowStatus == {None, "pending", "completed", "failed"}
Outcome == {None, "completed", "failed", "cancelled", "lost"}

\* The types that ClientTypes leaves out, and what keeps them: the calls are
\* requests of a turn, and the loops are good.
ShapeInv ==
    /\ runs \in Runner
    /\ \A n \in 1..Len(calls) :
          /\ [tool |-> calls[n].tool, id |-> calls[n].id, target |-> calls[n].target] \in Request
          /\ calls[n].work \in Work
    /\ rows \in Seq(RowStatus) /\ Len(rows) = Len(calls)
    /\ LoopsGood
    /\ stopped \subseteq Work
    /\ outcome \in [Work -> Outcome]
    /\ used \in {0} \cup Work /\ cancel \in {0} \cup Work /\ folding \in {0} \cup Work
    /\ sending \in BOOLEAN /\ compacting \in BOOLEAN /\ slashOpen \in BOOLEAN
    /\ allowed \subseteq Dangerous
    /\ transcript \in Seq(Entry)

\* A step that the transcript does not show and that begins nothing.
Quiet ==
    /\ StageKept \/ TurnOver
    /\ \A l \in Loop : GoodLoop(loop'[l])
    /\ UNCHANGED <<runs, calls, rows, used, sending, compacting, cancel, slashOpen,
                   transcript, folding>>
    /\ stopped' \subseteq Work
    /\ allowed' \subseteq Dangerous

\* Every step is quiet or one of those that the invariants below are about.
LEMMA StepKinds ==
    ASSUME ClientInv, ShapeInv, OneAtATime, [Next]_vars
    PROVE  \/ Quiet
           \/ \E w \in Work : Submit(w) \/ Compact(w)
           \/ Type \/ Finish \/ FinishCompact
           \/ \E l \in Loop : CallStarts(l) \/ CallSettles(l)
<1>1. ASSUME UNCHANGED loop, UNCHANGED outcome PROVE StageKept /\ \A l \in Loop : GoodLoop(loop'[l])
  BY <1>1 DEF StageKept, ShapeInv, LoopsGood
<1>2. CASE UNCHANGED vars BY <1>1, <1>2 DEF vars, loopVars, uiVars, Quiet, ShapeInv
<1>3. CASE Interrupt
  <2>1. cancel \in Work BY <1>3 DEF Interrupt, OneAtATime, ShapeInv
  <2> QED BY <1>1, <1>3, <2>1 DEF Interrupt, uiVars, Quiet, ShapeInv
<1>4. CASE Choose BY <1>1, <1>4 DEF Choose, loopVars, Quiet, ShapeInv
<1>5. ASSUME NEW n \in 1..MaxCalls, Tool(n) PROVE Quiet
  BY <1>5, ToolGood DEF ShapeInv, Quiet, uiVars
<1>6. ASSUME NEW l \in Loop, LoopMoves(l) \/ AskUser(l) \/ HearAnswer(l) \/ HearCancel(l)
      PROVE  Quiet
  <2>1. allowed' \subseteq Dangerous
    <3>1. CASE UNCHANGED allowed BY <3>1 DEF ShapeInv
    <3>2. CASE HearAnswer(l)
      <4>1. calls[loop[l].call].tool \in Dangerous
        BY <3>2 DEF HearAnswer, At, ShapeInv, LoopsGood, GoodLoop
      <4> QED BY <3>2, <4>1 DEF HearAnswer, Record, ShapeInv
    <3> QED BY <1>6, <3>1, <3>2 DEF LoopMoves, AskUser, HearCancel, uiVars
  <2> QED BY <1>6, <2>1, LoopMovesGood DEF ShapeInv, Quiet
<1> QED BY <1>2, <1>3, <1>4, <1>5, <1>6 DEF Next, Key, Goroutine

\* The client knows what runs.
LEMMA OneAtATimeStep ==
    ASSUME ClientInv, ShapeInv, OneAtATime, [Next]_vars PROVE OneAtATime'
<1>0. (\A l \in Loop : loop[l] \in LoopState) /\ "turn" \in Loop /\ DOMAIN loop = Loop
      /\ loop \in [Loop -> LoopState]
  BY DEF ClientInv, ClientTypes, Loop
<1>z. 0 \notin Work BY LoopAssumption
<1>1. CASE Quiet
  BY <1>1 DEF OneAtATime, Quiet, StageKept, TurnOver, At
<1>2. ASSUME NEW w \in Work, Submit(w) PROVE OneAtATime'
  <2>1. loop'["turn"] = [Idle EXCEPT !.pc = "model", !.round = 1, !.work = w]
    BY <1>0, <1>2 DEF Submit, Begin, Becomes
  <2>2. loop'["turn"].pc = "model" /\ loop'["turn"].work = w BY <2>1 DEF Idle
  <2> QED BY <1>2, <1>z, <2>2 DEF Submit, Starts, OneAtATime, Editing, At, ShapeInv
<1>3. ASSUME NEW w \in Work, Compact(w) PROVE OneAtATime'
  BY <1>3, <1>z DEF Compact, Starts, OneAtATime, At, loopVars, ShapeInv
<1>4. CASE Type BY <1>4 DEF Type, Editing, OneAtATime, At, loopVars, ShapeInv
<1>5. CASE FinishCompact BY <1>5 DEF FinishCompact, OneAtATime, At, loopVars, ShapeInv
<1>6. CASE Finish
  <2>1. loop'["turn"] = [loop["turn"] EXCEPT !.pc = "idle"]
    BY <1>0, <1>6 DEF Finish, Goto, Becomes
  <2>2. loop'["turn"].pc = "idle" BY <1>0, <2>1 DEF LoopState
  <2> QED BY <1>6, <2>2 DEF Finish, OneAtATime, At, ShapeInv
<1>7. ASSUME NEW l \in Loop, CallStarts(l) PROVE OneAtATime'
  <2>1. loop'[l] = [loop[l] EXCEPT !.pc = "check", !.todo = Tail(@), !.call = Len(calls) + 1]
        /\ \A k \in Loop \ {l} : loop'[k] = loop[k]
    BY <1>0, <1>7 DEF CallStarts, StartCall, Becomes
  <2>2. loop'["turn"].work = loop["turn"].work /\ (At("turn", "idle")' <=> At("turn", "idle"))
    <3>1. loop[l].pc = "start" BY <1>7 DEF CallStarts, StartCall, At
    <3>2. loop'[l].pc = "check" /\ loop'[l].work = loop[l].work
      <4>1. loop[l] \in LoopState BY <1>0
      <4> QED BY <2>1, <4>1 DEF LoopState
    <3> QED BY <1>0, <2>1, <3>1, <3>2 DEF At
  <2> QED BY <1>7, <2>2 DEF CallStarts, OneAtATime
<1>8. ASSUME NEW l \in Loop, CallSettles(l) PROVE OneAtATime'
  <2>1. loop'[l] = [loop[l] EXCEPT !.pc = "start", !.got = None]
        /\ \A k \in Loop \ {l} : loop'[k] = loop[k]
    BY <1>0, <1>8 DEF CallSettles, Settle, Becomes
  <2>2. loop'["turn"].work = loop["turn"].work /\ (At("turn", "idle")' <=> At("turn", "idle"))
    BY <1>0, <1>8, <2>1 DEF LoopState, At, CallSettles, Settle
  <2> QED BY <1>8, <2>2 DEF CallSettles, OneAtATime
<1> QED BY <1>1, <1>2, <1>3, <1>4, <1>5, <1>6, <1>7, <1>8, StepKinds

\* The types are kept.
LEMMA ShapeStep ==
    ASSUME ClientInv, ClientInv', ShapeInv, OneAtATime, [Next]_vars PROVE ShapeInv'
<1>0. /\ \A l \in Loop : loop[l] \in LoopState /\ GoodLoop(loop[l])
      /\ "turn" \in Loop /\ DOMAIN loop = Loop /\ Len(calls) \in Nat /\ ClientTypes
      /\ calls \in Seq(Call)
  BY DEF ClientInv, ClientTypes, Loop, ShapeInv, LoopsGood
<1>1. CASE Quiet
  <2>1. outcome' \in [Work -> Outcome]
    <3>1. CASE StageKept BY <3>1 DEF StageKept, ShapeInv
    <3>2. CASE TurnOver BY <3>2 DEF TurnOver, ShapeInv, Outcome
    <3> QED BY <1>1, <3>1, <3>2 DEF Quiet
  <2>2. LoopsGood' BY <1>1 DEF Quiet, LoopsGood, GoodLoop
  <2> QED BY <1>1, <2>1, <2>2 DEF Quiet, ShapeInv
<1>2. ASSUME NEW w \in Work, Submit(w) PROVE ShapeInv'
  <2> DEFINE to == [Idle EXCEPT !.pc = "model", !.round = 1, !.work = w]
             entry == [kind |-> "user", work |-> w, call |-> 0]
  <2>1. GoodLoop(to) /\ Becomes("turn", to)
    BY <1>0, <1>2, GoodLoops DEF Submit, Begin, ShapeInv
  <2>2. \A k \in Loop : GoodLoop(loop'[k])
    <3> HIDE DEF to
    <3> QED BY <1>0, <2>1, OneGood DEF ShapeInv
  <2>3. entry \in Entry /\ transcript' = Append(transcript, entry)
    BY <1>2, LoopAssumption DEF Submit, Shown, Entry
  <2>4. transcript' \in Seq(Entry) BY <2>3 DEF ShapeInv
  <2>5. LoopsGood' BY <1>2, <2>2 DEF Submit, Begin, LoopsGood, GoodLoop
  <2> QED BY <1>2, <2>4, <2>5 DEF Submit, Begin, Starts, ShapeInv
<1>3. ASSUME NEW w \in Work, Compact(w) PROVE ShapeInv'
  BY <1>3 DEF Compact, Starts, loopVars, ShapeInv, LoopsGood, GoodLoop
<1>4. CASE Type BY <1>4 DEF Type, loopVars, ShapeInv, LoopsGood, GoodLoop
<1>5. CASE FinishCompact BY <1>5 DEF FinishCompact, loopVars, ShapeInv, LoopsGood, GoodLoop
<1>6. CASE Finish
  <2> DEFINE to == [loop["turn"] EXCEPT !.pc = "idle"]
             w == loop["turn"].work
  <2>1. w \in Work BY <1>0, <1>6 DEF Finish, At, GoodLoop
  <2>2. GoodLoop(to) /\ Becomes("turn", to)
    BY <1>0, <1>6, <2>1, GoodLoops DEF Finish, Goto, ShapeInv, Places
  <2>3. \A k \in Loop : GoodLoop(loop'[k])
    <3> HIDE DEF to
    <3> QED BY <1>0, <2>2, OneGood DEF ShapeInv
  <2>4. LoopsGood' BY <1>6, <2>3 DEF Finish, LoopsGood, GoodLoop
  <2>5. \A kind \in {"reply", "interrupted"} : [kind |-> kind, work |-> w, call |-> 0] \in Entry
    BY <2>1, LoopAssumption DEF Entry
  <2>6. transcript' \in Seq(Entry)
    <3>1. \A s, t, u \in Seq(Entry) : s \o t \o u \in Seq(Entry) OBVIOUS
    <3>2. /\ <<>> \in Seq(Entry)
          /\ <<[kind |-> "reply", work |-> w, call |-> 0]>> \in Seq(Entry)
          /\ <<[kind |-> "interrupted", work |-> w, call |-> 0]>> \in Seq(Entry)
          /\ transcript \in Seq(Entry)
      BY <2>5 DEF ShapeInv
    <3>3. Append(transcript, [kind |-> "reply", work |-> w, call |-> 0]) \in Seq(Entry)
      BY <2>5 DEF ShapeInv
    <3> QED BY <1>6, <3>1, <3>2, <3>3 DEF Finish, Shown
  <2> QED BY <1>6, <2>4, <2>6 DEF Finish, ShapeInv
<1>7. ASSUME NEW l \in Loop, CallStarts(l) PROVE ShapeInv'
  <2> DEFINE r == Head(loop[l].todo)
             call == [tool |-> r.tool, id |-> r.id, target |-> r.target, by |-> l,
                      work |-> loop[l].work]
             to == [loop[l] EXCEPT !.pc = "check", !.todo = Tail(@), !.call = Len(calls) + 1]
             row == IF l = "turn" THEN "pending" ELSE None
  <2>1. /\ loop[l].todo \in Reply /\ loop[l].work \in Work
        /\ loop[l].todo \in Seq(Request) /\ loop[l].todo # <<>>
    BY <1>0, <1>7 DEF CallStarts, StartCall, At, GoodLoop, LoopState
  <2>2. r \in Request /\ Tail(loop[l].todo) \in Seq(Request) BY <2>1
  <2>3. [tool |-> r.tool, id |-> r.id, target |-> r.target] = r BY <2>2 DEF Request
  <2>4. /\ calls' = Append(calls, call) /\ rows' = Append(rows, row)
        /\ loop' = [loop EXCEPT ![l] = to]
    BY <1>7 DEF CallStarts, StartCall, Becomes
  <2>5. call.tool = r.tool /\ call.id = r.id /\ call.target = r.target /\ call.work = loop[l].work
    OBVIOUS
  <2>6. /\ to.round = loop[l].round /\ to.todo = Tail(loop[l].todo) /\ to.call = Len(calls) + 1
        /\ to.work = loop[l].work /\ to.pc = "check"
    BY <1>0 DEF LoopState
  <2>7. row \in RowStatus BY DEF RowStatus
  <2> HIDE DEF r, call, to, row
  <2>8. /\ Len(calls') = Len(calls) + 1 /\ calls'[Len(calls) + 1] = call
        /\ \A n \in 1..Len(calls) : calls'[n] = calls[n]
    BY <1>0, <2>4
  <2>9. \A n \in 1..Len(calls') :
          /\ [tool |-> calls'[n].tool, id |-> calls'[n].id, target |-> calls'[n].target] \in Request
          /\ calls'[n].work \in Work
    <3> SUFFICES ASSUME NEW n \in 1..Len(calls')
                 PROVE  /\ [tool |-> calls'[n].tool, id |-> calls'[n].id,
                            target |-> calls'[n].target] \in Request
                        /\ calls'[n].work \in Work
      OBVIOUS
    <3>1. CASE n \in 1..Len(calls) BY <2>8, <3>1 DEF ShapeInv
    <3>2. CASE n = Len(calls) + 1 BY <2>1, <2>2, <2>3, <2>5, <2>8, <3>2
    <3> QED BY <1>0, <2>8, <3>1, <3>2
  <2>10. rows' \in Seq(RowStatus) /\ Len(rows') = Len(calls')
    BY <2>4, <2>7, <2>8 DEF ShapeInv
  <2>11. LoopsGood'
    <3> SUFFICES ASSUME NEW k \in Loop PROVE GoodLoop(loop[k])' BY DEF LoopsGood
    <3>1. CASE k = l
      <4>1. loop'[k] = to BY <1>0, <2>4, <3>1
      <4>2. to.todo = <<>> \/ to.todo \in Reply BY <2>1, <2>6, ReplyRest
      <4>3. to.call \in 0..Len(calls') BY <1>0, <2>6, <2>8
      <4>4. to.round \in 0..MaxToolRounds BY <1>0, <2>6 DEF GoodLoop
      <4> QED BY <2>1, <2>6, <4>1, <4>2, <4>3, <4>4 DEF GoodLoop
    <3>2. CASE k # l
      <4>1. loop'[k] = loop[k] /\ GoodLoop(loop[k]) BY <1>0, <2>4, <3>2
      <4>2. loop[k].call \in 0..Len(calls') BY <1>0, <2>8, <4>1 DEF GoodLoop
      <4>3. loop[k].pc = "asking" => loop[k].call \in 1..Len(calls)
        BY DEF ClientInv, LoopsInv, Busy
      <4> QED BY <2>8, <4>1, <4>2, <4>3 DEF GoodLoop
    <3> QED BY <3>1, <3>2
  <2>12. transcript' \in Seq(Entry)
    <3>1. CASE l = "turn"
      <4>1. Len(calls) + 1 \in 0..MaxCalls
        <5>1. Len(loop'["turn"].todo) \in Nat /\ Len(loop'["sub"].todo) \in Nat
              /\ Len(calls') + (Len(loop'["turn"].todo) + Len(loop'["sub"].todo)) <= MaxCalls
          <6>1. ClientTypes' BY DEF ClientInv
          <6>2. Len(loop'["turn"].todo) \in Nat /\ Len(loop'["sub"].todo) \in Nat
            <7>1. loop' \in [Loop -> LoopState] BY <6>1 DEF ClientTypes
            <7>2. loop'["turn"].todo \in Seq(Request) /\ loop'["sub"].todo \in Seq(Request)
              BY <7>1 DEF Loop, LoopState
            <7> QED BY <7>2
          <6>3. Len(calls') + Ahead' <= MaxCalls BY <6>1 DEF ClientTypes
          <6>4. Ahead' = Len(loop'["turn"].todo) + Len(loop'["sub"].todo) BY DEF Ahead
          <6> QED BY <6>2, <6>3, <6>4
        <5>2. \A a, b, c \in Nat : (a + 1) + (b + c) <= MaxCalls => a + 1 \in 0..MaxCalls
          BY LoopAssumption
        <5> QED BY <1>0, <2>8, <5>1, <5>2
      <4>2. [kind |-> "running", work |-> loop[l].work, call |-> Len(calls) + 1] \in Entry
        BY <2>1, <4>1 DEF Entry
      <4>3. transcript' = Append(transcript, [kind |-> "running", work |-> loop[l].work,
                                              call |-> Len(calls) + 1])
        BY <1>7, <3>1 DEF CallStarts, Shown
      <4>4. \A s \in Seq(Entry), e \in Entry : Append(s, e) \in Seq(Entry) OBVIOUS
      <4> QED BY <4>2, <4>3, <4>4 DEF ShapeInv
    <3>2. CASE l # "turn" BY <1>7, <3>2 DEF CallStarts, ShapeInv
    <3> QED BY <3>1, <3>2
  <2>13. UNCHANGED <<runs, stopped, outcome, used, cancel, folding, sending, compacting,
                     slashOpen, allowed>>
    BY <1>7 DEF CallStarts, StartCall
  <2> QED BY <2>9, <2>10, <2>11, <2>12, <2>13 DEF ShapeInv
<1>8. ASSUME NEW l \in Loop, CallSettles(l) PROVE ShapeInv'
  <2> DEFINE to == [loop[l] EXCEPT !.pc = "start", !.got = None]
  <2>1. loop[l].work \in Work /\ loop[l].got \in {"completed", "failed"}
        /\ UNCHANGED <<calls, runs, stopped, outcome, used, cancel, folding, sending,
                       compacting, slashOpen, allowed>>
    BY <1>0, <1>8 DEF CallSettles, Settle, At, GoodLoop
  <2>2. GoodLoop(to) /\ Becomes(l, to)
    BY <1>0, <1>8, <2>1, GoodLoops DEF CallSettles, Settle, ShapeInv
  <2>3. \A k \in Loop : GoodLoop(loop'[k])
    <3> HIDE DEF to
    <3> QED BY <1>0, <2>2, OneGood DEF ShapeInv
  <2>4. LoopsGood' BY <2>1, <2>3 DEF LoopsGood, GoodLoop
  <2>5. rows' \in Seq(RowStatus) /\ Len(rows') = Len(rows)
    BY <1>8, <2>1 DEF CallSettles, Settle, ShapeInv, RowStatus
  <2>6. transcript' \in Seq(Entry)
    <3>1. CASE l = "turn"
      <4>1. loop[l].call \in 0..MaxCalls
        BY <1>0, CallsBounded, LoopAssumption DEF GoodLoop
      <4>2. [kind |-> "finished", work |-> loop[l].work, call |-> loop[l].call] \in Entry
        BY <2>1, <4>1 DEF Entry
      <4>3. \A i : [transcript EXCEPT ![i] =
                      [kind |-> "finished", work |-> loop[l].work, call |-> loop[l].call]]
                     \in Seq(Entry)
        <5>1. Len(transcript) \in Nat /\ transcript \in [1..Len(transcript) -> Entry]
          BY DEF ShapeInv
        <5>2. \A i : [transcript EXCEPT ![i] =
                        [kind |-> "finished", work |-> loop[l].work, call |-> loop[l].call]]
                       \in [1..Len(transcript) -> Entry]
          BY <4>2, <5>1
        <5>3. \A n \in Nat : \A f : f \in [1..n -> Entry] => f \in Seq(Entry) OBVIOUS
        <5> QED BY <5>1, <5>2, <5>3
      <4> QED BY <1>8, <3>1, <4>3 DEF CallSettles
    <3>2. CASE l # "turn" BY <1>8, <3>2 DEF CallSettles, ShapeInv
    <3> QED BY <3>1, <3>2
  <2> QED BY <2>1, <2>4, <2>5, <2>6 DEF ShapeInv
<1> QED BY <1>1, <1>2, <1>3, <1>4, <1>5, <1>6, <1>7, <1>8, StepKinds

\* At first there is nothing.
LEMMA InitShape == Init => ShapeInv /\ OneAtATime
<1> SUFFICES ASSUME Init PROVE ShapeInv /\ OneAtATime OBVIOUS
<1>1. /\ calls = <<>> /\ rows = <<>> /\ loop = [l \in Loop |-> Idle] /\ "turn" \in Loop
      /\ transcript = <<>>
  BY DEF Init, LoopInit, Loop
<1>2. LoopsGood
  BY <1>1, LoopAssumption DEF LoopsGood, GoodLoop, Idle
<1>3. rows \in Seq(RowStatus) /\ transcript \in Seq(Entry) /\ Len(rows) = 0 /\ Len(calls) = 0
  BY <1>1
<1>4. ShapeInv
  <2>1. outcome \in [Work -> Outcome] BY DEF Init, LoopInit, Outcome
  <2>2. \A n \in 1..Len(calls) : FALSE BY <1>3
  <2> QED BY <1>2, <1>3, <2>1, <2>2 DEF Init, LoopInit, ShapeInv
<1>5. loop["turn"].pc = "idle" BY <1>1 DEF Idle
<1>6. OneAtATime BY <1>5 DEF Init, OneAtATime, At
<1> QED BY <1>4, <1>6

-----------------------------------------------------------------------------
(* The rows of the calls *)

\* A row is pending only as long as its turn is at the call, or behind a turn
\* that has failed; and a turn that runs has no outcome yet.
RowsInv ==
    /\ loop["turn"].pc # "idle" => loop["turn"].work = used
    /\ \A w \in Work : w > used => outcome[w] = None
    /\ loop["turn"].pc \notin {"idle", "over"} => outcome[loop["turn"].work] = None
    /\ loop["turn"].pc \in InCall =>
          /\ loop["turn"].call \in 1..Len(calls)
          /\ calls[loop["turn"].call].work = loop["turn"].work
          /\ calls[loop["turn"].call].by = "turn"
          /\ rows[loop["turn"].call] = "pending"
    /\ \A n \in 1..Len(calls) : calls[n].by = "turn" =>
          /\ rows[n] # None
          /\ \/ rows[n] # "pending"
             \/ loop["turn"].pc \in InCall /\ loop["turn"].call = n
             \/ outcome[calls[n].work] \notin {None, "completed"}

\* A call that starts has a row of its own, and changes no other loop.
LEMMA CallStartsFacts ==
    ASSUME ClientInv, ShapeInv, NEW l \in Loop, CallStarts(l)
    PROVE  /\ Len(calls) \in Nat /\ Len(calls') = Len(calls) + 1 /\ Len(rows) = Len(calls)
           /\ \A n \in 1..Len(calls) : calls'[n] = calls[n] /\ rows'[n] = rows[n]
           /\ calls'[Len(calls) + 1].by = l /\ calls'[Len(calls) + 1].work = loop[l].work
           /\ rows'[Len(calls) + 1] = IF l = "turn" THEN "pending" ELSE None
           /\ loop[l].pc = "start" /\ loop[l].work \in Work
           /\ loop'[l].pc = "check" /\ loop'[l].call = Len(calls) + 1
           /\ loop'[l].work = loop[l].work
           /\ \A k \in Loop \ {l} : loop'[k] = loop[k]
           /\ UNCHANGED <<outcome, used>>
<1> DEFINE r == Head(loop[l].todo)
           call == [tool |-> r.tool, id |-> r.id, target |-> r.target, by |-> l,
                    work |-> loop[l].work]
           to == [loop[l] EXCEPT !.pc = "check", !.todo = Tail(@), !.call = Len(calls) + 1]
           row == IF l = "turn" THEN "pending" ELSE None
<1>1. loop[l] \in LoopState /\ GoodLoop(loop[l]) /\ loop[l].pc = "start" /\ DOMAIN loop = Loop
      /\ calls \in Seq(Call) /\ rows \in Seq(RowStatus) /\ Len(rows) = Len(calls)
  BY DEF ClientInv, ClientTypes, ShapeInv, LoopsGood, CallStarts, StartCall, At
<1>2. /\ calls' = Append(calls, call) /\ rows' = Append(rows, row)
      /\ loop' = [loop EXCEPT ![l] = to]
      /\ UNCHANGED <<outcome, used>>
  BY DEF CallStarts, StartCall, Becomes
<1>3. call.by = l /\ call.work = loop[l].work OBVIOUS
<1>4. to.pc = "check" /\ to.call = Len(calls) + 1 /\ to.work = loop[l].work
  BY <1>1 DEF LoopState
<1>5. loop[l].work \in Work BY <1>1 DEF GoodLoop
<1> HIDE DEF r, call, to
<1>6. loop'[l] = to /\ \A k \in Loop \ {l} : loop'[k] = loop[k] BY <1>1, <1>2
<1>7. /\ Len(calls') = Len(calls) + 1 /\ calls'[Len(calls) + 1] = call
      /\ \A n \in 1..Len(calls) : calls'[n] = calls[n]
  BY <1>1, <1>2
<1>8. /\ rows'[Len(rows) + 1] = row
      /\ \A n \in 1..Len(rows) : rows'[n] = rows[n]
  BY <1>1, <1>2
<1> QED BY <1>1, <1>2, <1>3, <1>4, <1>5, <1>6, <1>7, <1>8

\* The same of a call that is settled.
LEMMA CallSettlesFacts ==
    ASSUME ClientInv, ShapeInv, NEW l \in Loop, CallSettles(l)
    PROVE  /\ loop[l].pc = "settle" /\ loop[l].work \in Work
           /\ loop[l].got \in {"completed", "failed"}
           /\ loop'[l].pc = "start" /\ loop'[l].work = loop[l].work
           /\ \A k \in Loop \ {l} : loop'[k] = loop[k]
           /\ IF l = "turn" THEN rows' = [rows EXCEPT ![loop[l].call] = loop[l].got]
                            ELSE UNCHANGED rows
           /\ UNCHANGED <<calls, outcome, used>>
<1> DEFINE to == [loop[l] EXCEPT !.pc = "start", !.got = None]
<1>1. loop[l] \in LoopState /\ GoodLoop(loop[l]) /\ loop[l].pc = "settle" /\ DOMAIN loop = Loop
  BY DEF ClientInv, ClientTypes, ShapeInv, LoopsGood, CallSettles, Settle, At
<1>2. loop' = [loop EXCEPT ![l] = to] BY DEF CallSettles, Settle, Becomes
<1>3. to.pc = "start" /\ to.work = loop[l].work BY <1>1 DEF LoopState
<1> HIDE DEF to
<1>4. loop'[l] = to /\ \A k \in Loop \ {l} : loop'[k] = loop[k] BY <1>1, <1>2
<1> QED BY <1>1, <1>3, <1>4 DEF GoodLoop, CallSettles, Settle

\* A prompt is sent.
LEMMA SubmitFacts ==
    ASSUME ClientInv, ShapeInv, NEW w \in Work, Submit(w)
    PROVE  /\ loop["turn"].pc = "idle" /\ loop'["turn"].pc = "model" /\ loop'["turn"].work = w
           /\ used < w /\ used' = w
           /\ transcript' = Append(transcript, [kind |-> "user", work |-> w, call |-> 0])
           /\ UNCHANGED <<calls, rows, outcome>>
<1> DEFINE to == [Idle EXCEPT !.pc = "model", !.round = 1, !.work = w]
<1>1. DOMAIN loop = Loop /\ "turn" \in Loop BY DEF ClientInv, ClientTypes, Loop
<1>2. loop' = [loop EXCEPT !["turn"] = to] BY DEF Submit, Begin, Becomes
<1>3. to.pc = "model" /\ to.work = w BY DEF Idle
<1> HIDE DEF to
<1>4. loop'["turn"] = to BY <1>1, <1>2
<1> QED BY <1>3, <1>4 DEF Submit, Begin, At, Starts, Shown

\* A turn that is over is taken off the screen.
LEMMA FinishFacts ==
    ASSUME ClientInv, ShapeInv, Finish
    PROVE  /\ loop["turn"].pc = "over" /\ loop["turn"].work \in Work
           /\ loop'["turn"].pc = "idle"
           /\ UNCHANGED <<calls, rows, outcome, used>>
<1> DEFINE to == [loop["turn"] EXCEPT !.pc = "idle"]
<1>1. DOMAIN loop = Loop /\ "turn" \in Loop /\ loop["turn"] \in LoopState /\ GoodLoop(loop["turn"])
  BY DEF ClientInv, ClientTypes, Loop, ShapeInv, LoopsGood
<1>2. loop' = [loop EXCEPT !["turn"] = to] BY DEF Finish, Goto, Becomes
<1>3. to.pc = "idle" BY <1>1 DEF LoopState
<1> HIDE DEF to
<1>4. loop'["turn"] = to BY <1>1, <1>2
<1> QED BY <1>1, <1>3, <1>4 DEF Finish, At, GoodLoop

\* Every step keeps the rows in line with the turns.
LEMMA RowsStep ==
    ASSUME ClientInv, ShapeInv, OneAtATime, RowsInv, [Next]_vars PROVE RowsInv'
<1>0. /\ "turn" \in Loop /\ Len(calls) \in Nat
      /\ \A n \in 1..Len(calls) : calls[n].work \in Work
      /\ loop["turn"].pc # "idle" => loop["turn"].work \in Work
      /\ rows \in Seq(RowStatus) /\ Len(rows) = Len(calls)
      /\ outcome \in [Work -> Outcome] /\ used \in Nat /\ Work \subseteq Nat \ {0}
  <2>1. "turn" \in Loop /\ Len(calls) \in Nat BY DEF ClientInv, ClientTypes, Loop
  <2>2. GoodLoop(loop["turn"]) BY <2>1 DEF ShapeInv, LoopsGood
  <2>3. used \in Nat /\ Work \subseteq Nat \ {0} BY LoopAssumption DEF ShapeInv
  <2> QED BY <2>1, <2>2, <2>3 DEF ShapeInv, GoodLoop
<1>1. CASE Quiet /\ StageKept
  BY <1>1 DEF Quiet, StageKept, RowsInv
<1>2. CASE Quiet /\ TurnOver
  <2> DEFINE w == loop["turn"].work
  <2>1. PICK how \in {"completed", "failed", "cancelled", "lost"} :
           /\ outcome' = [outcome EXCEPT ![w] = how]
           /\ how = "completed" => loop["turn"].pc = "model"
    BY <1>2 DEF TurnOver
  <2>2. /\ loop["turn"].pc \notin {"idle", "over"} /\ loop'["turn"].pc = "over" /\ w \in Work
        /\ loop'["turn"].work = w /\ UNCHANGED <<calls, rows, used>>
    BY <1>0, <1>2 DEF TurnOver, Quiet
  <2>3. outcome'[w] = how /\ \A v \in Work : v # w => outcome'[v] = outcome[v]
    BY <1>0, <2>1, <2>2
  <2>4. how # None BY LoopAssumption
  <2>5. outcome[w] = None BY <2>2 DEF RowsInv
  <2>6. \A v \in Work : v > used' => outcome'[v] = None
    <3>2. w = used BY <2>2 DEF RowsInv
    <3> QED BY <1>0, <2>2, <2>3, <3>2 DEF RowsInv
  <2>7. \A n \in 1..Len(calls) : calls[n].by = "turn" /\ rows[n] = "pending" =>
           outcome'[calls[n].work] \notin {None, "completed"}
    <3> SUFFICES ASSUME NEW n \in 1..Len(calls), calls[n].by = "turn", rows[n] = "pending"
                 PROVE  outcome'[calls[n].work] \notin {None, "completed"}
      OBVIOUS
    <3>1. CASE loop["turn"].pc \in InCall /\ loop["turn"].call = n
      <4>1. calls[n].work = w /\ how # "completed" BY <2>1, <3>1 DEF RowsInv, InCall
      <4> QED BY <2>3, <2>4, <4>1
    <3>2. CASE outcome[calls[n].work] \notin {None, "completed"}
      BY <1>0, <2>3, <2>5, <3>2
    <3> QED BY <3>1, <3>2 DEF RowsInv
  <2>8. w = used BY <2>2 DEF RowsInv
  <2> QED BY <2>2, <2>6, <2>7, <2>8 DEF RowsInv, InCall
<1>3. ASSUME NEW w \in Work, Submit(w) PROVE RowsInv'
  <2>1. /\ loop["turn"].pc = "idle" /\ loop'["turn"].pc = "model" /\ loop'["turn"].work = w
        /\ used < w /\ used' = w /\ UNCHANGED <<calls, rows, outcome>>
    BY <1>3, SubmitFacts
  <2>2. outcome[w] = None /\ \A v \in Work : v > w => outcome[v] = None
    BY <1>0, <2>1 DEF RowsInv
  <2> QED BY <1>0, <2>1, <2>2 DEF RowsInv, InCall
<1>4. ASSUME NEW w \in Work, Compact(w) PROVE RowsInv'
  <2>1. UNCHANGED <<loop, calls, rows, outcome>> /\ used < w /\ used' = w
    BY <1>4 DEF Compact, loopVars, Starts
  <2>2. loop["turn"].pc = "idle" BY <1>4 DEF Compact, OneAtATime, At, ShapeInv
  <2> QED BY <1>0, <2>1, <2>2 DEF RowsInv, InCall
<1>5. CASE Type \/ FinishCompact BY <1>5 DEF Type, FinishCompact, loopVars, RowsInv
<1>6. CASE Finish BY <1>6, FinishFacts DEF RowsInv, InCall
<1>7. ASSUME NEW l \in Loop, CallStarts(l) PROVE RowsInv'
  <2>1. CASE l = "turn"
    <3>1. \A n \in 1..Len(calls') : n \in 1..Len(calls) \/ n = Len(calls) + 1
      BY <1>0, <1>7, CallStartsFacts
    <3>2. Len(calls) + 1 \in 1..Len(calls') BY <1>0, <1>7, CallStartsFacts
    <3> QED BY <1>0, <1>7, <2>1, <3>1, <3>2, CallStartsFacts, LoopAssumption DEF RowsInv, InCall
  <2>2. CASE l = "sub"
    <3>1. \A n \in 1..Len(calls') : n \in 1..Len(calls) \/ n = Len(calls) + 1
      BY <1>0, <1>7, CallStartsFacts
    <3>2. 1..Len(calls) \subseteq 1..Len(calls') BY <1>0, <1>7, CallStartsFacts
    <3>3. loop'["turn"] = loop["turn"] BY <1>0, <1>7, <2>2, CallStartsFacts
    <3> QED BY <1>0, <1>7, <2>2, <3>1, <3>2, <3>3, CallStartsFacts DEF RowsInv
  <2> QED BY <2>1, <2>2 DEF Loop
<1>8. ASSUME NEW l \in Loop, CallSettles(l) PROVE RowsInv'
  <2>1. CASE l = "turn"
    <3>1. /\ loop["turn"].pc = "settle" /\ loop["turn"].got \in {"completed", "failed"}
          /\ loop'["turn"].pc = "start" /\ loop'["turn"].work = loop["turn"].work
          /\ rows' = [rows EXCEPT ![loop["turn"].call] = loop["turn"].got]
          /\ UNCHANGED <<calls, outcome, used>>
      BY <1>8, <2>1, CallSettlesFacts
    <3>2. \A n \in 1..Len(calls) : rows'[n] = IF n = loop["turn"].call THEN loop["turn"].got ELSE rows[n]
      BY <1>0, <3>1
    <3> QED BY <3>1, <3>2, LoopAssumption DEF RowsInv, InCall
  <2>2. CASE l = "sub"
    <3>1. loop'["turn"] = loop["turn"] BY <1>0, <1>8, <2>2, CallSettlesFacts
    <3> QED BY <1>8, <2>2, <3>1, CallSettlesFacts DEF RowsInv
  <2> QED BY <2>1, <2>2 DEF Loop
<1>9. Quiet => (Quiet /\ StageKept) \/ (Quiet /\ TurnOver) BY DEF Quiet
<1> QED BY <1>1, <1>2, <1>3, <1>4, <1>5, <1>6, <1>7, <1>8, <1>9, StepKinds

-----------------------------------------------------------------------------
(* The transcript *)

\* What the entries say of their calls and of the work that runs.
EntriesInv ==
    \A i \in 1..Len(transcript) :
        /\ transcript[i].work <= used
        /\ transcript[i].kind \in {"running", "finished"} <=> transcript[i].call # 0
        /\ transcript[i].call # 0 =>
              /\ transcript[i].call <= Len(calls)
              /\ transcript[i].kind = "running" <=> rows[transcript[i].call] = "pending"
        /\ loop["turn"].pc # "idle" /\ transcript[i].work = used =>
              transcript[i].kind \notin {"reply", "interrupted"}

\* Two entries are in the order in which they came.
Ordered(a, b) ==
    /\ a.work <= b.work
    /\ b.kind = "user" => a.work # b.work
    /\ a.work = b.work =>
          /\ a.kind = "reply" => b.kind = "interrupted"
          /\ a.kind # "interrupted"
    /\ a.call # 0 /\ b.call # 0 => a.call < b.call

OrderInv == \A i, j \in 1..Len(transcript) : i < j => Ordered(transcript[i], transcript[j])

\* The call that the turn is at is the last entry.
LastInv ==
    loop["turn"].pc \in InCall =>
        /\ Len(transcript) > 0
        /\ transcript[Len(transcript)] =
             [kind |-> "running", work |-> used, call |-> loop["turn"].call]

TranscriptInv == EntriesInv /\ OrderInv /\ LastInv

\* An entry that comes after all others leaves them in order.
LEMMA OrderedAppend ==
    ASSUME transcript \in Seq(Entry), OrderInv, NEW e \in Entry,
           \A i \in 1..Len(transcript) : Ordered(transcript[i], e),
           transcript' = Append(transcript, e)
    PROVE  /\ OrderInv'
           /\ Len(transcript) \in Nat /\ Len(transcript') = Len(transcript) + 1
           /\ transcript'[Len(transcript) + 1] = e
           /\ \A i \in 1..Len(transcript) : transcript'[i] = transcript[i]
           /\ \A i \in 1..Len(transcript') : i \in 1..Len(transcript) \/ i = Len(transcript) + 1
<1>1. /\ Len(transcript) \in Nat /\ Len(transcript') = Len(transcript) + 1
      /\ transcript'[Len(transcript) + 1] = e
      /\ \A i \in 1..Len(transcript) : transcript'[i] = transcript[i]
  OBVIOUS
<1>2. \A i \in 1..Len(transcript') : i \in 1..Len(transcript) \/ i = Len(transcript) + 1
  BY <1>1
<1>3. OrderInv'
  <2> SUFFICES ASSUME NEW i \in 1..Len(transcript'), NEW j \in 1..Len(transcript'), i < j
               PROVE  Ordered(transcript'[i], transcript'[j])
    BY DEF OrderInv
  <2>1. i \in 1..Len(transcript) BY <1>1
  <2>2. CASE j \in 1..Len(transcript) BY <1>1, <2>1, <2>2 DEF OrderInv
  <2>3. CASE j = Len(transcript) + 1 BY <1>1, <2>1, <2>3
  <2> QED BY <1>2, <2>2, <2>3
<1> QED BY <1>1, <1>2, <1>3

\* The entry that a finished call replaces is the last one.
LEMMA FinishedIsLast ==
    ASSUME ShapeInv, TranscriptInv, loop["turn"].pc \in InCall
    PROVE  FinishedEntry(loop["turn"].call) = Len(transcript)
<1> DEFINE n == loop["turn"].call
           last == Len(transcript)
<1>1. /\ last \in Nat /\ last \in 1..last
      /\ transcript[last].call = n /\ transcript[last].kind = "running"
  BY DEF ShapeInv, TranscriptInv, LastInv
<1>2. last \in Entries(n) BY <1>1 DEF Entries, TranscriptInv, EntriesInv
<1>3. \A j \in Entries(n) : j <= last BY <1>1 DEF Entries
<1>4. \A i \in Entries(n) : (\A j \in Entries(n) : j <= i) => i = last
  <2>1. \A i \in Entries(n) : i \in Nat BY <1>1 DEF Entries
  <2> QED BY <1>1, <1>2, <1>3, <2>1
<1> HIDE DEF n, last
<1>5. FinishedEntry(n) = last BY <1>2, <1>3, <1>4 DEF FinishedEntry
<1> QED BY <1>5 DEF n, last

\* Every step keeps the transcript in order.
LEMMA TranscriptStep ==
    ASSUME ClientInv, ShapeInv, ShapeInv', OneAtATime, RowsInv, TranscriptInv, [Next]_vars
    PROVE  TranscriptInv'
<1>0. /\ "turn" \in Loop /\ Len(calls) \in Nat /\ Len(transcript) \in Nat
      /\ loop["turn"].pc # "idle" => loop["turn"].work \in Work
      /\ rows \in Seq(RowStatus) /\ Len(rows) = Len(calls)
      /\ transcript \in Seq(Entry)
      /\ used \in Nat /\ Work \subseteq Nat \ {0}
  <2>1. "turn" \in Loop /\ Len(calls) \in Nat BY DEF ClientInv, ClientTypes, Loop
  <2>2. GoodLoop(loop["turn"]) BY <2>1 DEF ShapeInv, LoopsGood
  <2>3. used \in Nat /\ Work \subseteq Nat \ {0} BY LoopAssumption DEF ShapeInv
  <2> QED BY <2>1, <2>2, <2>3 DEF ShapeInv, GoodLoop
<1>e. \A i \in 1..Len(transcript) : transcript[i] \in Entry BY <1>0
<1>t. \A i \in 1..Len(transcript) :
         transcript[i].work \in Nat /\ transcript[i].call \in Nat
  <2>1. \A e \in Entry : e.work \in Work /\ e.call \in 0..MaxCalls BY DEF Entry
  <2>2. Work \subseteq Nat /\ 0..MaxCalls \subseteq Nat BY LoopAssumption
  <2> QED BY <1>e, <2>1, <2>2
<1>1. CASE Quiet
  <2>1. UNCHANGED <<calls, rows, used, transcript>> BY <1>1 DEF Quiet
  <2>2. OrderInv' BY <2>1 DEF TranscriptInv, OrderInv
  <2>3. loop'["turn"].pc # "idle" <=> loop["turn"].pc # "idle"
    BY <1>1 DEF Quiet, StageKept, TurnOver
  <2>4. EntriesInv' BY <2>1, <2>3 DEF TranscriptInv, EntriesInv
  <2>5. loop'["turn"].pc \in InCall =>
           loop["turn"].pc \in InCall /\ loop'["turn"].call = loop["turn"].call
    BY <1>1 DEF Quiet, StageKept, TurnOver, InCall
  <2>6. LastInv' BY <2>1, <2>5 DEF TranscriptInv, LastInv
  <2> QED BY <2>2, <2>4, <2>6 DEF TranscriptInv
<1>2. ASSUME NEW w \in Work, Submit(w) PROVE TranscriptInv'
  <2> DEFINE e == [kind |-> "user", work |-> w, call |-> 0]
  <2>1. /\ loop["turn"].pc = "idle" /\ loop'["turn"].pc = "model" /\ loop'["turn"].work = w
        /\ used < w /\ used' = w /\ transcript' = Append(transcript, e)
        /\ UNCHANGED <<calls, rows, outcome>>
    BY <1>2, SubmitFacts
  <2>2. e \in Entry BY LoopAssumption DEF Entry
  <2>3. \A i \in 1..Len(transcript) : transcript[i].work < w
    BY <1>0, <1>t, <2>1 DEF TranscriptInv, EntriesInv
  <2>4. \A i \in 1..Len(transcript) : Ordered(transcript[i], e)
    BY <1>0, <1>t, <2>3 DEF Ordered
  <2>5. e.kind = "user" /\ e.work = w /\ e.call = 0 OBVIOUS
  <2> HIDE DEF e
  <2>6. /\ OrderInv'
        /\ transcript'[Len(transcript) + 1] = e
        /\ \A i \in 1..Len(transcript) : transcript'[i] = transcript[i]
        /\ \A i \in 1..Len(transcript') : i \in 1..Len(transcript) \/ i = Len(transcript) + 1
    BY <1>0, <2>1, <2>2, <2>4, OrderedAppend DEF TranscriptInv
  <2>7. EntriesInv'
    BY <1>0, <1>t, <2>1, <2>3, <2>5, <2>6 DEF TranscriptInv, EntriesInv
  <2>8. LastInv' BY <2>1 DEF LastInv, InCall
  <2> QED BY <2>6, <2>7, <2>8 DEF TranscriptInv
<1>3. ASSUME NEW w \in Work, Compact(w) PROVE TranscriptInv'
  <2>1. UNCHANGED <<loop, calls, rows, transcript>> /\ used < w /\ used' = w
    BY <1>3 DEF Compact, loopVars, Starts
  <2>2. loop["turn"].pc = "idle" BY <1>3 DEF Compact, OneAtATime, At, ShapeInv
  <2>3. EntriesInv' BY <1>0, <1>t, <2>1, <2>2 DEF TranscriptInv, EntriesInv
  <2>4. OrderInv' BY <2>1 DEF TranscriptInv, OrderInv
  <2>5. LastInv' BY <2>1, <2>2 DEF LastInv, InCall
  <2> QED BY <2>3, <2>4, <2>5 DEF TranscriptInv
<1>4. CASE Type \/ FinishCompact
  <2>1. UNCHANGED <<loop, calls, rows, transcript, used>>
    BY <1>4 DEF Type, FinishCompact, loopVars
  <2> QED BY <2>1 DEF TranscriptInv, EntriesInv, OrderInv, LastInv
<1>5. CASE Finish
  <2> DEFINE w == loop["turn"].work
             reply == [kind |-> "reply", work |-> w, call |-> 0]
             note == [kind |-> "interrupted", work |-> w, call |-> 0]
  <2>1. /\ loop["turn"].pc = "over" /\ w \in Work /\ loop'["turn"].pc = "idle"
        /\ UNCHANGED <<calls, rows, outcome, used>>
    BY <1>5, FinishFacts
  <2>2. w = used BY <2>1 DEF RowsInv
  <2>3. reply \in Entry /\ note \in Entry BY <2>1, LoopAssumption DEF Entry
  <2>4. /\ reply.kind = "reply" /\ reply.work = used /\ reply.call = 0
        /\ note.kind = "interrupted" /\ note.work = used /\ note.call = 0
    BY <2>2
  <2>5. \/ UNCHANGED transcript
        \/ transcript' = Append(transcript, reply)
        \/ transcript' = Append(transcript, note)
        \/ transcript' = Append(Append(transcript, reply), note)
    <3>1. \A a, b \in Entry : /\ transcript \o <<>> \o <<a>> = Append(transcript, a)
                              /\ transcript \o <<b>> \o <<a>> = Append(Append(transcript, b), a)
      BY <1>0
    <3> QED BY <1>5, <2>3, <3>1 DEF Finish, Shown
  <2> HIDE DEF w, reply, note
  <2>6. \A i \in 1..Len(transcript) :
           /\ transcript[i].work <= used
           /\ transcript[i].work = used => transcript[i].kind \notin {"reply", "interrupted"}
    BY <2>1 DEF TranscriptInv, EntriesInv
  <2>7. \A i \in 1..Len(transcript) :
           Ordered(transcript[i], reply) /\ Ordered(transcript[i], note)
    BY <1>0, <1>t, <2>4, <2>6 DEF Ordered
  <2>8. LastInv' BY <2>1 DEF LastInv, InCall
  <2>9. ASSUME NEW e \in {reply, note}, transcript' = Append(transcript, e) PROVE TranscriptInv'
    <3>1. e \in Entry /\ \A i \in 1..Len(transcript) : Ordered(transcript[i], e)
      BY <2>3, <2>7
    <3>2. /\ OrderInv'
          /\ transcript'[Len(transcript) + 1] = e
          /\ \A i \in 1..Len(transcript) : transcript'[i] = transcript[i]
          /\ \A i \in 1..Len(transcript') : i \in 1..Len(transcript) \/ i = Len(transcript) + 1
      BY <1>0, <2>9, <3>1, OrderedAppend DEF TranscriptInv
    <3>3. e.kind \in {"reply", "interrupted"} /\ e.work = used /\ e.call = 0 BY <2>4
    <3>4. EntriesInv' BY <1>0, <1>t, <2>1, <3>2, <3>3 DEF TranscriptInv, EntriesInv
    <3> QED BY <2>8, <3>2, <3>4 DEF TranscriptInv
  <2>10. CASE UNCHANGED transcript
    BY <2>1, <2>8, <2>10 DEF TranscriptInv, EntriesInv, OrderInv
  <2>11. CASE transcript' = Append(Append(transcript, reply), note)
    <3> DEFINE s == Append(transcript, reply)
               k == Len(transcript)
    <3>1. /\ s \in Seq(Entry) /\ Len(s) = k + 1 /\ s[k + 1] = reply
          /\ \A i \in 1..k : s[i] = transcript[i]
      BY <1>0, <2>3
    <3> HIDE DEF s
    <3>2. /\ Len(transcript') = k + 2 /\ transcript'[k + 2] = note /\ transcript'[k + 1] = reply
          /\ \A i \in 1..k : transcript'[i] = transcript[i]
      <4>1. transcript' = Append(s, note) BY <2>11 DEF s
      <4>2. /\ Len(Append(s, note)) = k + 2 /\ Append(s, note)[k + 2] = note
            /\ \A i \in 1..(k + 1) : Append(s, note)[i] = s[i]
        BY <1>0, <2>3, <3>1
      <4> QED BY <1>0, <3>1, <4>1, <4>2
    <3>3. \A i \in 1..Len(transcript') : i \in 1..k \/ i = k + 1 \/ i = k + 2
      BY <1>0, <3>2
    <3>4. EntriesInv' BY <1>0, <1>t, <2>1, <2>4, <3>2, <3>3 DEF TranscriptInv, EntriesInv
    <3>5. Ordered(reply, note) BY <1>0, <2>4 DEF Ordered
    <3>6. OrderInv'
      <4> SUFFICES ASSUME NEW i \in 1..Len(transcript'), NEW j \in 1..Len(transcript'), i < j
                   PROVE  Ordered(transcript'[i], transcript'[j])
        BY DEF OrderInv
      <4>1. CASE j \in 1..k
        <5>1. i \in 1..k BY <1>0, <4>1
        <5> QED BY <3>2, <4>1, <5>1 DEF TranscriptInv, OrderInv
      <4>2. CASE j = k + 1
        <5>1. i \in 1..k BY <1>0, <4>2
        <5> QED BY <2>7, <3>2, <4>2, <5>1
      <4>3. CASE j = k + 2
        <5>1. i \in 1..k \/ i = k + 1 BY <1>0, <4>3
        <5> QED BY <2>7, <3>2, <3>5, <4>3, <5>1
      <4> QED BY <3>3, <4>1, <4>2, <4>3
    <3> QED BY <2>8, <3>4, <3>6 DEF TranscriptInv
  <2> QED BY <2>5, <2>9, <2>10, <2>11
<1>6. ASSUME NEW l \in Loop, CallStarts(l) PROVE TranscriptInv'
  <2>1. /\ Len(calls') = Len(calls) + 1 /\ \A n \in 1..Len(calls) : rows'[n] = rows[n]
        /\ rows'[Len(calls) + 1] = IF l = "turn" THEN "pending" ELSE None
        /\ loop[l].pc = "start" /\ loop[l].work \in Work
        /\ loop'[l].pc = "check" /\ loop'[l].call = Len(calls) + 1
        /\ loop'[l].work = loop[l].work /\ \A k \in Loop \ {l} : loop'[k] = loop[k]
        /\ UNCHANGED used
    BY <1>6, CallStartsFacts
  <2>2. CASE l = "turn"
    <3> DEFINE e == [kind |-> "running", work |-> loop["turn"].work, call |-> Len(calls) + 1]
    <3>1. transcript' = Append(transcript, e) BY <1>6, <2>2 DEF CallStarts, Shown
    <3>2. loop["turn"].work = used BY <2>1, <2>2 DEF RowsInv
    <3>3. e.kind = "running" /\ e.work = used /\ e.call = Len(calls) + 1
          /\ e = [kind |-> "running", work |-> used, call |-> Len(calls) + 1]
      BY <3>2
    <3>4. e \in Entry
      <4>1. transcript' \in Seq(Entry) BY DEF ShapeInv
      <4>2. Len(transcript) + 1 \in 1..Len(transcript') /\ transcript'[Len(transcript) + 1] = e
        BY <1>0, <3>1
      <4> QED BY <4>1, <4>2
    <3> HIDE DEF e
    <3>5. \A i \in 1..Len(transcript) : Ordered(transcript[i], e)
      <4>1. \A i \in 1..Len(transcript) :
               /\ transcript[i].work <= used
               /\ transcript[i].work = used => transcript[i].kind \notin {"reply", "interrupted"}
               /\ transcript[i].call # 0 => transcript[i].call <= Len(calls)
        BY <2>1, <2>2 DEF TranscriptInv, EntriesInv
      <4> QED BY <1>0, <1>t, <3>3, <4>1 DEF Ordered
    <3>6. /\ OrderInv' /\ Len(transcript') = Len(transcript) + 1
          /\ transcript'[Len(transcript) + 1] = e
          /\ \A i \in 1..Len(transcript) : transcript'[i] = transcript[i]
          /\ \A i \in 1..Len(transcript') : i \in 1..Len(transcript) \/ i = Len(transcript) + 1
      BY <1>0, <3>1, <3>4, <3>5, OrderedAppend DEF TranscriptInv
    <3>7. EntriesInv'
      <4> SUFFICES ASSUME NEW i \in 1..Len(transcript')
                   PROVE  /\ transcript'[i].work <= used
                          /\ transcript'[i].kind \in {"running", "finished"}
                                <=> transcript'[i].call # 0
                          /\ transcript'[i].call # 0 =>
                                /\ transcript'[i].call <= Len(calls')
                                /\ transcript'[i].kind = "running"
                                      <=> rows'[transcript'[i].call] = "pending"
                          /\ transcript'[i].work = used =>
                                transcript'[i].kind \notin {"reply", "interrupted"}
        BY <2>1 DEF EntriesInv
      <4>1. CASE i \in 1..Len(transcript)
        <5>1. transcript'[i] = transcript[i] BY <3>6, <4>1
        <5>2. transcript[i].call # 0 => transcript[i].call \in 1..Len(calls)
          BY <1>0, <1>t, <4>1 DEF TranscriptInv, EntriesInv
        <5> QED BY <1>0, <1>t, <2>1, <2>2, <4>1, <5>1, <5>2 DEF TranscriptInv, EntriesInv
      <4>2. CASE i = Len(transcript) + 1
        BY <1>0, <2>1, <2>2, <3>3, <3>6, <4>2
      <4> QED BY <3>6, <4>1, <4>2
    <3>8. LastInv' BY <1>0, <2>1, <2>2, <3>3, <3>6 DEF LastInv
    <3> QED BY <3>6, <3>7, <3>8 DEF TranscriptInv
  <2>3. CASE l = "sub"
    <3>1. loop'["turn"] = loop["turn"] /\ UNCHANGED transcript
      BY <1>0, <1>6, <2>1, <2>3 DEF CallStarts
    <3>2. \A i \in 1..Len(transcript) :
             transcript[i].call # 0 => transcript[i].call \in 1..Len(calls)
      BY <1>0, <1>t DEF TranscriptInv, EntriesInv
    <3>3. EntriesInv' BY <1>0, <1>t, <2>1, <3>1, <3>2 DEF TranscriptInv, EntriesInv
    <3> QED BY <2>1, <3>1, <3>3 DEF TranscriptInv, OrderInv, LastInv
  <2> QED BY <2>2, <2>3 DEF Loop
<1>7. ASSUME NEW l \in Loop, CallSettles(l) PROVE TranscriptInv'
  <2>1. /\ loop[l].pc = "settle" /\ loop[l].work \in Work
        /\ loop[l].got \in {"completed", "failed"}
        /\ loop'[l].pc = "start" /\ loop'[l].work = loop[l].work
        /\ \A k \in Loop \ {l} : loop'[k] = loop[k]
        /\ IF l = "turn" THEN rows' = [rows EXCEPT ![loop[l].call] = loop[l].got]
                         ELSE UNCHANGED rows
        /\ UNCHANGED <<calls, outcome, used>>
    BY <1>7, CallSettlesFacts
  <2>2. CASE l = "turn"
    <3> DEFINE n == loop["turn"].call
               last == Len(transcript)
               e == [kind |-> "finished", work |-> loop["turn"].work, call |-> n]
    <3>1. loop["turn"].pc \in InCall BY <2>1, <2>2 DEF InCall
    <3>2. loop["turn"].work = used BY <2>1, <2>2 DEF RowsInv
    <3>3. n \in 1..Len(calls) BY <3>1 DEF RowsInv
    <3>4. /\ last > 0
          /\ transcript[last] = [kind |-> "running", work |-> used, call |-> n]
      BY <3>1 DEF TranscriptInv, LastInv
    <3>5. transcript' = [transcript EXCEPT ![last] = e]
      BY <1>7, <2>2, <3>1, FinishedIsLast DEF CallSettles
    <3>6. e.kind = "finished" /\ e.work = used /\ e.call = n BY <3>2
    <3> HIDE DEF e
    <3>7. /\ Len(transcript') = last /\ transcript'[last] = e
          /\ \A i \in 1..last : i # last => transcript'[i] = transcript[i]
      BY <1>0, <3>4, <3>5
    <3>8. \A m \in 1..Len(calls) : rows'[m] = IF m = n THEN loop["turn"].got ELSE rows[m]
      BY <1>0, <2>1, <2>2
    <3>9. last \in 1..last /\ \A i \in 1..last : i # last => i < last BY <1>0, <3>4
    <3>10. \A i \in 1..last : i # last /\ transcript[i].call # 0 => transcript[i].call < n
      <4>1. \A i \in 1..last : i # last => Ordered(transcript[i], transcript[last])
        BY <3>9 DEF TranscriptInv, OrderInv
      <4> QED BY <1>0, <3>3, <3>4, <4>1 DEF Ordered
    <3> HIDE DEF n, last
    <3>11. EntriesInv'
      <4> SUFFICES ASSUME NEW i \in 1..last
                   PROVE  /\ transcript'[i].work <= used
                          /\ transcript'[i].kind \in {"running", "finished"}
                                <=> transcript'[i].call # 0
                          /\ transcript'[i].call # 0 =>
                                /\ transcript'[i].call <= Len(calls)
                                /\ transcript'[i].kind = "running"
                                      <=> rows'[transcript'[i].call] = "pending"
                          /\ transcript'[i].work = used =>
                                transcript'[i].kind \notin {"reply", "interrupted"}
        BY <2>1, <2>2, <3>7 DEF EntriesInv
      <4>1. CASE i = last
        <5>1. rows'[n] \in {"completed", "failed"} /\ n # 0 /\ n <= Len(calls)
          BY <1>0, <2>1, <2>2, <3>3, <3>8
        <5> QED BY <1>0, <3>6, <3>7, <4>1, <5>1
      <4>2. CASE i # last
        <5>1. transcript'[i] = transcript[i] BY <3>7, <4>2
        <5>2. /\ transcript[i].work <= used
              /\ transcript[i].kind \in {"running", "finished"} <=> transcript[i].call # 0
              /\ transcript[i].call # 0 =>
                    /\ transcript[i].call <= Len(calls)
                    /\ transcript[i].kind = "running" <=> rows[transcript[i].call] = "pending"
              /\ transcript[i].work = used => transcript[i].kind \notin {"reply", "interrupted"}
          BY <2>1, <2>2 DEF TranscriptInv, EntriesInv, last
        <5>3. transcript[i].call # 0 => rows'[transcript[i].call] = rows[transcript[i].call]
          <6>1. transcript[i].call # 0 => transcript[i].call < n BY <3>10, <4>2
          <6>2. transcript[i].call \in Nat BY <1>t DEF last
          <6>3. transcript[i].call # 0 => transcript[i].call \in 1..Len(calls)
            BY <1>0, <5>2, <6>2
          <6> QED BY <1>0, <3>3, <3>8, <6>1, <6>2, <6>3
        <5> QED BY <5>1, <5>2, <5>3
      <4> QED BY <4>1, <4>2
    <3>12. OrderInv'
      <4>1. \A i, j \in 1..last : i < j => Ordered(transcript[i], transcript[j])
        BY DEF TranscriptInv, OrderInv, last
      <4>2. \A i \in 1..last : i # last => Ordered(transcript[i], e)
        <5>1. \A i \in 1..last : i # last => Ordered(transcript[i], transcript[last])
          BY <3>9, <4>1
        <5>2. \A i \in 1..last : transcript[i].work = used =>
                 transcript[i].kind \notin {"reply", "interrupted"}
          BY <2>1, <2>2 DEF TranscriptInv, EntriesInv, last
        <5> QED BY <3>4, <3>6, <5>1, <5>2 DEF Ordered
      <4>3. \A i, j \in 1..last : i < j => i # last
        BY <1>0, <3>4 DEF last
      <4>4. \A i, j \in 1..last : i < j => Ordered(transcript'[i], transcript'[j])
        <5> SUFFICES ASSUME NEW i \in 1..last, NEW j \in 1..last, i < j
                     PROVE  Ordered(transcript'[i], transcript'[j])
          OBVIOUS
        <5>1. CASE j = last BY <3>7, <4>2, <4>3, <5>1
        <5>2. CASE j # last BY <3>7, <4>1, <4>3, <5>2
        <5> QED BY <5>1, <5>2
      <4> QED BY <3>7, <4>4 DEF OrderInv
    <3>13. LastInv' BY <2>1, <2>2 DEF LastInv, InCall
    <3> QED BY <3>11, <3>12, <3>13 DEF TranscriptInv
  <2>3. CASE l = "sub"
    <3>1. loop'["turn"] = loop["turn"] /\ UNCHANGED <<calls, rows, transcript, used>>
      BY <1>0, <1>7, <2>1, <2>3 DEF CallSettles
    <3> QED BY <3>1 DEF TranscriptInv, EntriesInv, OrderInv, LastInv
  <2> QED BY <2>2, <2>3 DEF Loop
<1> QED BY <1>1, <1>2, <1>3, <1>4, <1>5, <1>6, <1>7, StepKinds

-----------------------------------------------------------------------------
(* The theorems *)

ScreenInv == ClientInv /\ ShapeInv /\ OneAtATime /\ RowsInv /\ TranscriptInv

\* All of it holds in every reachable state.
LEMMA ScreenHolds == Spec => []ScreenInv
<1>1. Init => ScreenInv
  <2> SUFFICES ASSUME Init PROVE RowsInv /\ TranscriptInv
    BY InitClient, InitShape DEF ScreenInv
  <2>1. /\ Len(calls) = 0 /\ Len(transcript) = 0 /\ loop["turn"].pc = "idle"
        /\ \A w \in Work : outcome[w] = None
    BY DEF Init, LoopInit, Loop, Idle
  <2> QED BY <2>1 DEF RowsInv, TranscriptInv, EntriesInv, OrderInv, LastInv, InCall
<1>2. ScreenInv /\ [Next]_vars => ScreenInv'
  <2> SUFFICES ASSUME ScreenInv, [Next]_vars PROVE ScreenInv' OBVIOUS
  <2>1. ClientInv' BY NextKeeps DEF ScreenInv
  <2>2. ShapeInv' BY <2>1, ShapeStep DEF ScreenInv
  <2> QED BY <2>1, <2>2, OneAtATimeStep, RowsStep, TranscriptStep DEF ScreenInv
<1> QED BY <1>1, <1>2, PTL DEF Spec

(***************************************************************************)
(* The client runs one thing at a time and knows it: `sending`, the cancel *)
(* function and the menu agree with what is at work (submit,               *)
(* compactCommand, finish, finishCompact), and a turn that is saved as     *)
(* completed leaves no call of its own pending (replayableCalls).          *)
(***************************************************************************)
THEOREM ClientIsWellFormed == Spec => []TuiInv
<1>1. ScreenInv => TypeOK
  <2> SUFFICES ASSUME ScreenInv PROVE TypeOK OBVIOUS
  <2>1. /\ ClientTypes /\ AnswersInv /\ ShapeInv BY DEF ScreenInv, ClientInv
  <2>2. Len(calls) \in Nat /\ Len(calls) <= MaxCalls BY <2>1, CallsBounded
  <2>3. approval \in 0..Len(calls) BY <2>1, <2>2 DEF AnswersInv, ClientTypes
  <2>4. \A n \in 1..Len(calls) :
          /\ [tool |-> calls[n].tool, id |-> calls[n].id, target |-> calls[n].target] \in Request
          /\ calls[n].by \in Loop /\ calls[n].work \in Work
    <3>1. \A n \in 1..Len(calls) : calls[n].by \in Loop
      <4>1. \A n \in 1..Len(calls) : calls[n] \in Call BY <2>1 DEF ClientTypes
      <4> QED BY <4>1 DEF Call
    <3> QED BY <2>1, <3>1 DEF ShapeInv
  <2>5. \A n \in 1..Len(rows) : rows[n] \in {None, "pending", "completed", "failed"}
    BY <2>1 DEF ShapeInv, RowStatus
  <2>6. \A l \in Loop :
          /\ loop[l].pc \in {"idle", "model", "start", "check", "asking", "send", "wait",
                             "settle", "over"}
          /\ loop[l].round \in 0..MaxToolRounds
          /\ loop[l].todo = <<>> \/ loop[l].todo \in Reply
          /\ loop[l].call \in 0..Len(calls)
    BY <2>1 DEF ClientTypes, LoopState, Places, ShapeInv, LoopsGood, GoodLoop
  <2>7. \A i \in 1..Len(transcript) : transcript[i] \in Entry BY <2>1 DEF ShapeInv
  <2> QED BY <2>1, <2>2, <2>3, <2>4, <2>5, <2>6, <2>7
       DEF TypeOK, LoopTypeOK, ShapeInv, ClientTypes, Outcome
<1>2. ScreenInv => CompletedIsReplayable
  <2> SUFFICES ASSUME ScreenInv, NEW n \in 1..Len(calls),
                      outcome[calls[n].work] = "completed", calls[n].by = "turn"
               PROVE  rows[n] \in {"completed", "failed"}
    BY DEF CompletedIsReplayable, TurnOf
  <2>1. rows[n] \in RowStatus /\ rows[n] # None
    BY DEF ScreenInv, ShapeInv, RowsInv
  <2>2. rows[n] # "pending"
    <3>1. ~(loop["turn"].pc \in InCall /\ loop["turn"].call = n)
      BY LoopAssumption DEF ScreenInv, RowsInv, InCall
    <3> QED BY <3>1 DEF ScreenInv, RowsInv
  <2> QED BY <2>1, <2>2 DEF RowStatus
<1>3. ScreenInv => TuiInv BY <1>1, <1>2 DEF ScreenInv, TuiInv
<1> QED BY <1>3, ScreenHolds, PTL

(***************************************************************************)
(* The transcript tells what happened, turn after turn, and shows a call   *)
(* as finished exactly when its row is, although the entry of a call is    *)
(* found by an id that providers reuse (toolEventMsg, finish).             *)
(***************************************************************************)
THEOREM TranscriptIsTrue == Spec => []TranscriptInTurns
<1>1. ScreenInv => TranscriptInTurns
  <2> SUFFICES ASSUME ScreenInv PROVE TranscriptInTurns OBVIOUS
  <2>1. ShapeInv /\ EntriesInv /\ OrderInv BY DEF ScreenInv, TranscriptInv
  <2>2. \A i \in 1..Len(transcript) : transcript[i].call \in Nat
    <3>1. \A e \in Entry : e.call \in Nat BY LoopAssumption DEF Entry
    <3>2. \A i \in 1..Len(transcript) : transcript[i] \in Entry BY <2>1 DEF ShapeInv
    <3> QED BY <3>1, <3>2
  <2>3. \A i, j \in 1..Len(transcript) : i < j =>
          /\ transcript[i].work <= transcript[j].work
          /\ transcript[j].kind = "user" => transcript[i].work # transcript[j].work
          /\ transcript[i].work = transcript[j].work =>
                /\ transcript[i].kind = "reply" => transcript[j].kind = "interrupted"
                /\ transcript[i].kind # "interrupted"
                /\ transcript[i].call # 0 => transcript[i].call < transcript[j].call
                                              \/ transcript[j].call = 0
    BY <2>1 DEF OrderInv, Ordered
  <2>4. \A i \in 1..Len(transcript) :
          /\ transcript[i].kind = "finished" => rows[transcript[i].call] # "pending"
          /\ transcript[i].kind = "running" => rows[transcript[i].call] = "pending"
    BY <2>1 DEF EntriesInv
  <2> QED BY <2>3, <2>4 DEF TranscriptInTurns
<1> QED BY <1>1, ScreenHolds, PTL

=============================================================================
