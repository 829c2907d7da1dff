----------------------------- MODULE RpcProofs ------------------------------
(***************************************************************************)
(* Proofs about the RPC server: the Chat RPC (ChatStream), the pairing of  *)
(* devices (Pairing), the life of the daemon (Serve), and the three in one *)
(* behaviour (MCRpc).  They hold for any number of calls, slots, requests  *)
(* for tools, events nobody asked for, devices, keys, operators, bots and  *)
(* completions.  They take nothing from fairness, and nothing from a       *)
(* client but that it is one party.                                        *)
(***************************************************************************)
EXTENDS MCRpc, FiniteSetTheorems, TLAPS

-----------------------------------------------------------------------------
(* The chat: types *)

Place == {"off", "starting", "queued", "model", "asking", "stored", "failing", "closed"}
Standing == {"new", "refused", "listening", "working", "gone", "done"}

\* As much of the types as the proofs need: what is indexed by the calls.
ChatTypes ==
    /\ handler \in [Chat -> Place]
    /\ client \in [Chat -> Standing]
    /\ stored \in [Chat -> {"none", "pending", "completed", "failed"}]
    /\ streamDone \in [Chat -> BOOLEAN]
    /\ asked \in [Chat -> Nat]
    /\ answers \in [Chat -> Seq(Nat)]
    /\ toClient \in [Chat -> Seq(ServerEvent)]

-----------------------------------------------------------------------------
(* The steps, by what they change of the variables the invariants are about *)

sent == <<handler, client, stored, streamDone, asked, answers, toClient>>

\* A step of the receiver, or of the client when it writes, changes none.
LEMMA ReceiverIsApart ==
    ASSUME NEW c \in Chat, Receiver(c) \/ ClientSends(c) PROVE UNCHANGED sent
BY DEF Receiver, Receive, Push, ReceiverEnds, ClientSends, sent, serverVars, clientVars, wireVars

\* A request is an event of the server, and not one that ends the stream.
LEMMA AskIsTyped ==
    ASSUME NEW c \in Chat, ChatTypes, AskTool(c)
    PROVE  Ask(asked[c] + 1) \in ServerEvent /\ Ask(asked[c] + 1) \notin Terminal
<1>1. Asks[c] \in Nat /\ asked[c] \in Nat /\ asked[c] < Asks[c]
  BY ChatAssumption DEF ChatTypes, AskTool
<1>2. asked[c] + 1 \in 1 .. Asks[c] BY <1>1
<1>3. asked[c] + 1 \in Id BY <1>2 DEF Id
<1> QED BY <1>3 DEF ServerEvent, Terminal, Ask, Completed, Failed

\* Send keeps the types of the streams.
LEMMA SendIsTyped ==
    ASSUME ChatTypes, NEW c \in Chat, NEW e \in ServerEvent, Send(c, e)
    PROVE  toClient' \in [Chat -> Seq(ServerEvent)]
<1>1. toClient[c] \in Seq(ServerEvent) BY DEF ChatTypes
<1>2. Append(toClient[c], e) \in Seq(ServerEvent) BY <1>1
<1> QED BY <1>1, <1>2 DEF Send, ChatTypes

\* Every step keeps the types.
LEMMA TypesStep == ASSUME ChatTypes, [Next]_vars PROVE ChatTypes'
<1> USE DEF ChatTypes, Place, Standing, Goto
<1>1. ASSUME NEW c \in Chat, Call(c) PROVE ChatTypes' BY <1>1 DEF Call
<1>2. ASSUME NEW c \in Chat, Begin(c) PROVE ChatTypes' BY <1>2 DEF Begin, Close, clientVars
<1>3. ASSUME NEW c \in Chat, Enter(c) PROVE ChatTypes' BY <1>3 DEF Enter, clientVars, wireVars
<1>4. ASSUME NEW c \in Chat, AskTool(c) PROVE ChatTypes'
  <2>1. Ask(asked[c] + 1) \in ServerEvent BY <1>4, AskIsTyped
  <2>2. toClient' \in [Chat -> Seq(ServerEvent)] BY <1>4, <2>1, SendIsTyped DEF AskTool
  <2>3. handler' \in [Chat -> Place] BY <1>4 DEF AskTool
  <2>4. asked' \in [Chat -> Nat] BY <1>4 DEF AskTool
  <2>5. UNCHANGED <<client, stored, streamDone, answers>> BY <1>4 DEF AskTool, clientVars
  <2> QED BY <2>2, <2>3, <2>4, <2>5
<1>5. ASSUME NEW c \in Chat, Take(c) PROVE ChatTypes'
  <2>1. Append(answers[c], asked[c]) \in Seq(Nat) OBVIOUS
  <2>2. answers' \in [Chat -> Seq(Nat)] BY <1>5, <2>1 DEF Take
  <2>3. handler' \in [Chat -> Place] BY <1>5 DEF Take
  <2>4. UNCHANGED <<client, stored, streamDone, asked, toClient>>
    BY <1>5 DEF Take, clientVars, wireVars
  <2> QED BY <2>2, <2>3, <2>4
<1>6. ASSUME NEW c \in Chat, StopAsking(c) PROVE ChatTypes'
  BY <1>6 DEF StopAsking, clientVars, wireVars
<1>7. ASSUME NEW c \in Chat, Finish(c) PROVE ChatTypes' BY <1>7 DEF Finish, clientVars, wireVars
<1>8. ASSUME NEW c \in Chat, Break(c) PROVE ChatTypes' BY <1>8 DEF Break, clientVars, wireVars
<1>9. ASSUME NEW c \in Chat, Report(c) PROVE ChatTypes'
  <2>1. Completed \in ServerEvent /\ Failed \in ServerEvent BY DEF ServerEvent, Terminal
  <2>2. toClient' \in [Chat -> Seq(ServerEvent)] BY <1>9, <2>1, SendIsTyped DEF Report
  <2> QED BY <1>9, <2>2 DEF Report, Close, clientVars
<1>10. ASSUME NEW c \in Chat, Receiver(c) \/ ClientSends(c) PROVE ChatTypes'
  BY <1>10, ReceiverIsApart DEF sent
<1>11. ASSUME NEW c \in Chat, ClientReads(c) PROVE ChatTypes'
  <2>1. Tail(toClient[c]) \in Seq(ServerEvent) BY <1>11 DEF ClientReads
  <2>2. toClient' \in [Chat -> Seq(ServerEvent)] BY <1>11, <2>1 DEF ClientReads
  <2> QED BY <1>11, <2>2 DEF ClientReads, serverVars
<1>12. ASSUME NEW c \in Chat, ClientReplies(c) \/ ClientEnds(c) PROVE ChatTypes'
  BY <1>12 DEF ClientReplies, ClientEnds, serverVars, wireVars
<1>13. ASSUME NEW c \in Chat, Lose(c) PROVE ChatTypes' BY <1>13 DEF Lose
<1>14. CASE UNCHANGED vars BY <1>14 DEF vars, serverVars, clientVars, wireVars
<1> QED
  BY <1>1, <1>2, <1>3, <1>4, <1>5, <1>6, <1>7, <1>8, <1>9, <1>10, <1>11, <1>12, <1>13, <1>14
  DEF Next, Handler, Client

\* Every reachable state has these types.
LEMMA ChatTypesHold == Spec => []ChatTypes
<1>1. Init => ChatTypes BY DEF Init, ChatTypes, Place, Standing
<1>2. ChatTypes /\ [Next]_vars => ChatTypes' BY TypesStep
<1> QED BY <1>1, <1>2, PTL DEF Spec

-----------------------------------------------------------------------------
(* Answers *)

Increasing(s) == \A i, j \in 1 .. Len(s) : i < j => s[i] < s[j]
Within(s, n) == \A i \in 1 .. Len(s) : s[i] \in 1 .. n

\* What makes AnswersInOrder inductive: a turn that waits for an answer has had
\* none to the request it waits for.
AnswersInv ==
    \A c \in Chat :
        /\ Increasing(answers[c]) /\ Within(answers[c], asked[c])
        /\ handler[c] = "asking" => asked[c] > 0 /\ Within(answers[c], asked[c] - 1)

\* A number above all others may be appended.
LEMMA AppendIncreasing ==
    ASSUME NEW s \in Seq(Nat), NEW n \in Nat, n > 0, Increasing(s), Within(s, n - 1)
    PROVE  Increasing(Append(s, n)) /\ Within(Append(s, n), n)
<1>1. /\ Len(Append(s, n)) = Len(s) + 1 /\ Len(s) \in Nat
      /\ \A i \in 1 .. Len(s) : Append(s, n)[i] = s[i]
      /\ Append(s, n)[Len(s) + 1] = n
  OBVIOUS
<1>2. \A i \in 1 .. Len(s) : s[i] \in Nat /\ 1 <= s[i] /\ s[i] < n BY DEF Within
<1>3. \A i \in 1 .. Len(s) + 1 : i \in 1 .. Len(s) \/ i = Len(s) + 1 BY <1>1
<1>4. Within(Append(s, n), n) BY <1>1, <1>2, <1>3 DEF Within
<1>5. ASSUME NEW i \in 1 .. Len(s) + 1, NEW j \in 1 .. Len(s) + 1, i < j
      PROVE  Append(s, n)[i] < Append(s, n)[j]
  <2>1. i \in 1 .. Len(s) BY <1>1, <1>5
  <2>2. CASE j \in 1 .. Len(s) BY <1>1, <1>5, <2>1, <2>2 DEF Increasing
  <2>3. CASE j = Len(s) + 1 BY <1>1, <1>2, <2>1, <2>3
  <2> QED BY <1>3, <2>2, <2>3
<1> QED BY <1>1, <1>4, <1>5 DEF Increasing

\* Every other step leaves the answers, and starts no wait.
LEMMA AnswersElsewhere ==
    ASSUME ChatTypes, AnswersInv, UNCHANGED <<asked, answers>>,
           \A c \in Chat : handler'[c] = "asking" => handler[c] = "asking"
    PROVE  AnswersInv'
BY DEF AnswersInv, Increasing, Within

\* Every step keeps the answers in order; Take adds the one waited for.
LEMMA AnswersStep == ASSUME ChatTypes, AnswersInv, [Next]_vars PROVE AnswersInv'
<1>1. ASSUME NEW c \in Chat, AskTool(c) PROVE AnswersInv'
  <2>1. UNCHANGED answers /\ asked' = [asked EXCEPT ![c] = @ + 1] BY <1>1 DEF AskTool
  <2>2. asked[c] \in Nat BY DEF ChatTypes
  <2>3. Within(answers[c], asked[c] + 1) BY <2>2 DEF AnswersInv, Within
  <2>4. asked'[c] = asked[c] + 1 /\ \A d \in Chat \ {c} : asked'[d] = asked[d]
    BY <2>1 DEF ChatTypes
  <2>5. \A d \in Chat \ {c} : handler'[d] = handler[d] BY <1>1 DEF AskTool, Goto, ChatTypes
  <2>6. asked'[c] - 1 = asked[c] /\ asked'[c] > 0 BY <2>2, <2>4
  <2>7. ASSUME NEW d \in Chat \ {c}
        PROVE  /\ Increasing(answers'[d]) /\ Within(answers'[d], asked'[d])
               /\ handler'[d] = "asking" => asked'[d] > 0 /\ Within(answers'[d], asked'[d] - 1)
    BY <2>1, <2>4, <2>5 DEF AnswersInv
  <2>8. /\ Increasing(answers'[c]) /\ Within(answers'[c], asked'[c])
        /\ asked'[c] > 0 /\ Within(answers'[c], asked'[c] - 1)
    BY <2>1, <2>3, <2>4, <2>6 DEF AnswersInv
  <2> QED BY <2>7, <2>8 DEF AnswersInv, Increasing, Within
<1>2. ASSUME NEW c \in Chat, Take(c) PROVE AnswersInv'
  <2>1. CASE UNCHANGED <<answers, handler>>
    BY <1>2, <2>1, AnswersElsewhere DEF Take
  <2>2. CASE /\ answers' = [answers EXCEPT ![c] = Append(@, asked[c])]
             /\ Goto(c, "model")
    <3>1. /\ answers'[c] = Append(answers[c], asked[c]) /\ handler'[c] = "model"
          /\ \A d \in Chat \ {c} : answers'[d] = answers[d] /\ handler'[d] = handler[d]
          /\ UNCHANGED asked
      BY <1>2, <2>2 DEF Take, Goto, ChatTypes
    <3>2. asked[c] > 0 /\ Increasing(answers[c]) /\ Within(answers[c], asked[c] - 1)
      BY <1>2 DEF Take, AnswersInv
    <3>3. Increasing(answers'[c]) /\ Within(answers'[c], asked[c])
      BY <3>1, <3>2, AppendIncreasing DEF ChatTypes
    <3> QED BY <3>1, <3>3 DEF AnswersInv, Increasing, Within
  <2> QED BY <1>2, <2>1, <2>2 DEF Take
<1>3. ASSUME NEW c \in Chat,
             Begin(c) \/ Enter(c) \/ StopAsking(c) \/ Finish(c) \/ Break(c) \/ Report(c)
             \/ Call(c)
      PROVE  AnswersInv'
  <2>1. UNCHANGED <<asked, answers>>
    BY <1>3 DEF Begin, Enter, StopAsking, Finish, Break, Report, Call
  <2>2. \A d \in Chat : handler'[d] = "asking" => handler[d] = "asking"
    BY <1>3 DEF Begin, Enter, StopAsking, Finish, Break, Report, Call, Close, Goto, ChatTypes
  <2> QED BY <2>1, <2>2, AnswersElsewhere
<1>4. ASSUME NEW c \in Chat, Receiver(c) \/ ClientSends(c) \/ Client(c) \/ Lose(c)
      PROVE  AnswersInv'
  <2>1. UNCHANGED <<asked, answers, handler>>
    BY <1>4, ReceiverIsApart
    DEF sent, Client, ClientReads, ClientReplies, ClientEnds, Lose, serverVars
  <2> QED BY <2>1, AnswersElsewhere
<1>5. CASE UNCHANGED vars BY <1>5, AnswersElsewhere DEF vars, serverVars
<1> QED BY <1>1, <1>2, <1>3, <1>4, <1>5 DEF Next, Handler

\* Every reachable state has its answers in order.
LEMMA AnswersHold == Spec => []AnswersInv
<1>1. Init => AnswersInv BY DEF Init, AnswersInv, Increasing, Within
<1>2. ChatTypes /\ AnswersInv /\ [Next]_vars => AnswersInv' BY AnswersStep
<1> QED BY <1>1, <1>2, ChatTypesHold, PTL DEF Spec

\* No event answers two requests for a tool, nor a request it came before
\* (remoteToolExecute drops what does not carry the id it waits for).
THEOREM EachAnswerOnce == Spec => []AnswersInOrder
<1>1. AnswersInv => AnswersInOrder BY DEF AnswersInv, AnswersInOrder, Increasing, Within
<1> QED BY <1>1, AnswersHold, PTL

-----------------------------------------------------------------------------
(* The terminal event *)

\* What makes TerminalIsLast inductive: only the end of a handler sends a
\* terminal event, a handler that has ended does nothing more, and one that is
\* about to report a turn as stored has stored it.
TerminalInv ==
    /\ TerminalIsLast
    /\ \A c \in Chat :
          /\ client[c] = "new" => handler[c] = "off"
          /\ handler[c] = "stored" => stored[c] = "completed"

\* What TerminalIsLast says of one call.
LastOf(events, ended, completed) ==
    \A i \in 1 .. Len(events) :
        events[i] \in Terminal =>
            i = Len(events) /\ ended /\ (events[i] = Completed => completed)

\* TerminalIsLast, call by call.
LEMMA LastOfEach ==
    TerminalIsLast <=>
        \A c \in Chat : LastOf(toClient[c], handler[c] = "closed", stored[c] = "completed")
BY DEF TerminalIsLast, LastOf

\* A stream that carries no terminal event yet takes any event, and a terminal
\* one when the handler ends with it.
LEMMA AppendLast ==
    ASSUME NEW s \in Seq(ServerEvent), NEW e \in ServerEvent, NEW ended, NEW completed,
           LastOf(s, FALSE, FALSE),
           e \in Terminal => ended /\ (e = Completed => completed)
    PROVE  LastOf(Append(s, e), ended, completed)
<1>1. /\ Len(Append(s, e)) = Len(s) + 1 /\ Len(s) \in Nat
      /\ \A i \in 1 .. Len(s) : Append(s, e)[i] = s[i]
      /\ Append(s, e)[Len(s) + 1] = e
  OBVIOUS
<1>2. \A i \in 1 .. Len(s) : s[i] \notin Terminal BY DEF LastOf
<1>3. \A i \in 1 .. Len(s) + 1 : i \in 1 .. Len(s) \/ i = Len(s) + 1 BY <1>1
<1> QED BY <1>1, <1>2, <1>3 DEF LastOf

\* What the client has read may be taken off.
LEMMA TailLast ==
    ASSUME NEW s \in Seq(ServerEvent), s # <<>>, NEW ended, NEW completed,
           LastOf(s, ended, completed)
    PROVE  LastOf(Tail(s), ended, completed)
<1>1. /\ Len(s) \in Nat /\ Len(s) > 0 /\ Len(Tail(s)) = Len(s) - 1
      /\ \A i \in 1 .. Len(s) - 1 : Tail(s)[i] = s[i + 1]
  OBVIOUS
<1>2. \A i \in 1 .. Len(s) - 1 : i + 1 \in 1 .. Len(s) BY <1>1
<1>3. ASSUME NEW i \in 1 .. Len(s) - 1, s[i + 1] \in Terminal
      PROVE  i = Len(s) - 1 /\ ended /\ (s[i + 1] = Completed => completed)
  <2>1. i + 1 \in 1 .. Len(s) BY <1>2
  <2>2. ended /\ (s[i + 1] = Completed => completed) BY <1>3, <2>1 DEF LastOf
  <2>3. i + 1 = Len(s) BY <1>3, <2>1 DEF LastOf
  <2>4. Len(s) \in Nat /\ i \in Nat BY <1>1
  <2>5. i = Len(s) - 1 BY <2>3, <2>4
  <2> QED BY <2>2, <2>5
<1> QED BY <1>1, <1>3 DEF LastOf

\* Send appends to one stream, or to none; that of a handler which has not
\* ended carries no terminal event.
LEMMA SendLast ==
    ASSUME ChatTypes, TerminalInv, NEW c \in Chat, handler[c] # "closed",
           NEW e \in ServerEvent, Send(c, e), NEW ended, NEW completed,
           e \in Terminal => ended /\ (e = Completed => completed)
    PROVE  /\ LastOf(toClient'[c], ended, completed)
           /\ \A d \in Chat \ {c} : toClient'[d] = toClient[d]
<1>1. LastOf(toClient[c], FALSE, FALSE) BY LastOfEach DEF TerminalInv, LastOf
<1>2. LastOf(toClient[c], ended, completed) BY <1>1 DEF LastOf
<1>3. LastOf(Append(toClient[c], e), ended, completed) BY <1>1, AppendLast DEF ChatTypes
<1>4. toClient'[c] = toClient[c] \/ toClient'[c] = Append(toClient[c], e)
  BY DEF Send, ChatTypes
<1>5. \A d \in Chat \ {c} : toClient'[d] = toClient[d] BY DEF Send, ChatTypes
<1> QED BY <1>2, <1>3, <1>4, <1>5

\* Every step keeps the terminal event last.
LEMMA TerminalStep == ASSUME ChatTypes, TerminalInv, [Next]_vars PROVE TerminalInv'
<1> DEFINE Reported(c) ==
              LastOf(toClient[c], handler[c] = "closed", stored[c] = "completed")
           Ready(c) == /\ client[c] = "new" => handler[c] = "off"
                       /\ handler[c] = "stored" => stored[c] = "completed"
<1>1. \A c \in Chat : Reported(c) /\ Ready(c) BY LastOfEach DEF TerminalInv
<1>2. SUFFICES \A c \in Chat : Reported(c)' /\ Ready(c)'
  <2>1. TerminalIsLast' BY <1>2 DEF TerminalIsLast, LastOf
  <2> QED BY <1>2, <2>1 DEF TerminalInv
<1>3. ASSUME NEW c \in Chat, AskTool(c) PROVE \A d \in Chat : Reported(d)' /\ Ready(d)'
  <2>1. /\ handler[c] = "model" /\ Send(c, Ask(asked[c] + 1))
        /\ handler'[c] \in {"model", "asking"} /\ UNCHANGED <<stored, client>>
        /\ \A d \in Chat \ {c} : handler'[d] = handler[d]
    BY <1>3 DEF AskTool, Goto, ChatTypes, clientVars
  <2>2. Ask(asked[c] + 1) \in ServerEvent /\ Ask(asked[c] + 1) \notin Terminal
    BY <1>3, AskIsTyped
  <2>3. /\ LastOf(toClient'[c], FALSE, stored[c] = "completed")
        /\ \A d \in Chat \ {c} : toClient'[d] = toClient[d]
    BY <2>1, <2>2, SendLast
  <2> QED BY <1>1, <2>1, <2>3
<1>4. ASSUME NEW c \in Chat, Report(c) PROVE \A d \in Chat : Reported(d)' /\ Ready(d)'
  <2>1. /\ handler'[c] = "closed" /\ UNCHANGED <<stored, client>>
        /\ \A d \in Chat \ {c} : handler'[d] = handler[d]
    BY <1>4 DEF Report, Close, Goto, ChatTypes, clientVars
  <2>2. /\ handler[c] \in {"stored", "failing"}
        /\ \E e \in Terminal : Send(c, e) /\ (e = Completed => handler[c] = "stored")
    BY <1>4 DEF Report, Terminal, Completed, Failed
  <2>3. PICK e \in Terminal : Send(c, e) /\ (e = Completed => handler[c] = "stored") BY <2>2
  <2>4. e \in ServerEvent /\ (e = Completed => stored[c] = "completed")
    BY <1>1, <2>3 DEF ServerEvent
  <2>5. /\ LastOf(toClient'[c], TRUE, stored[c] = "completed")
        /\ \A d \in Chat \ {c} : toClient'[d] = toClient[d]
    BY <2>2, <2>3, <2>4, SendLast
  <2>6. client[c] # "new" BY <1>1, <2>2
  <2> QED BY <1>1, <2>1, <2>5, <2>6
<1>5. ASSUME NEW c \in Chat, ClientReads(c) PROVE \A d \in Chat : Reported(d)' /\ Ready(d)'
  <2>1. /\ toClient[c] # <<>> /\ toClient'[c] = Tail(toClient[c])
        /\ \A d \in Chat \ {c} : toClient'[d] = toClient[d]
        /\ UNCHANGED <<handler, stored>>
        /\ \A d \in Chat : client'[d] = "new" => client[d] = "new"
    BY <1>5 DEF ClientReads, ChatTypes, serverVars
  <2>2. LastOf(toClient'[c], handler[c] = "closed", stored[c] = "completed")
    BY <1>1, <2>1, TailLast DEF ChatTypes
  <2> QED BY <1>1, <2>1, <2>2
<1>6. ASSUME NEW c \in Chat, Lose(c) PROVE \A d \in Chat : Reported(d)' /\ Ready(d)'
  <2>1. /\ toClient'[c] = <<>> /\ \A d \in Chat \ {c} : toClient'[d] = toClient[d]
        /\ UNCHANGED <<handler, stored>>
        /\ \A d \in Chat : client'[d] = "new" => client[d] = "new"
    BY <1>6 DEF Lose, ChatTypes
  <2>2. LastOf(toClient'[c], handler[c] = "closed", stored[c] = "completed")
    BY <2>1 DEF LastOf
  <2> QED BY <1>1, <2>1, <2>2
<1>7. ASSUME UNCHANGED toClient,
             \A d \in Chat :
                /\ handler[d] = "closed" => handler'[d] = "closed" /\ stored'[d] = stored[d]
                /\ client'[d] = "new" => client[d] = "new" /\ handler'[d] = handler[d]
                /\ handler'[d] = "stored" => stored'[d] = "completed"
      PROVE  \A d \in Chat : Reported(d)' /\ Ready(d)'
  BY <1>1, <1>7 DEF LastOf
<1>8. ASSUME NEW c \in Chat, Begin(c) \/ Enter(c) \/ Take(c) \/ StopAsking(c) \/ Finish(c)
                             \/ Break(c) \/ Call(c)
      PROVE  \A d \in Chat : Reported(d)' /\ Ready(d)'
  <2>1. UNCHANGED toClient
    BY <1>8 DEF Begin, Enter, Take, StopAsking, Finish, Break, Call, wireVars
  <2>2. ASSUME NEW d \in Chat
        PROVE  /\ handler[d] = "closed" => handler'[d] = "closed" /\ stored'[d] = stored[d]
               /\ client'[d] = "new" => client[d] = "new" /\ handler'[d] = handler[d]
               /\ handler'[d] = "stored" => stored'[d] = "completed"
    <3>1. client[d] = "new" => handler[d] = "off" BY <1>1
    <3>2. handler[d] = "stored" => stored[d] = "completed" BY <1>1
    <3>3. CASE d # c
      BY <1>8, <3>1, <3>2, <3>3
      DEF Begin, Enter, Take, StopAsking, Finish, Break, Call, Close, Goto, ChatTypes,
          clientVars
    <3>4. CASE d = c
      BY <1>8, <3>1, <3>2, <3>4
      DEF Begin, Enter, Take, StopAsking, Finish, Break, Call, Close, Goto, ChatTypes,
          clientVars
    <3> QED BY <3>3, <3>4
  <2> QED BY <1>7, <2>1, <2>2
<1>9. ASSUME NEW c \in Chat, Receiver(c) \/ ClientSends(c) \/ ClientReplies(c) \/ ClientEnds(c)
      PROVE  \A d \in Chat : Reported(d)' /\ Ready(d)'
  <2>1. UNCHANGED <<handler, stored, toClient>>
    BY <1>9, ReceiverIsApart DEF sent, ClientReplies, ClientEnds, serverVars, wireVars
  <2>2. \A d \in Chat : client'[d] = "new" => client[d] = "new"
    BY <1>9, ReceiverIsApart DEF sent, ClientReplies, ClientEnds, ChatTypes
  <2> QED BY <1>1, <1>7, <2>1, <2>2
<1>10. CASE UNCHANGED vars
  BY <1>1, <1>7, <1>10 DEF vars, serverVars, clientVars, wireVars
<1> QED BY <1>3, <1>4, <1>5, <1>6, <1>8, <1>9, <1>10 DEF Next, Handler, Client

\* Every reachable state has it.
LEMMA TerminalHolds == Spec => []TerminalInv
<1>1. Init => TerminalInv BY DEF Init, TerminalInv, TerminalIsLast
<1>2. ChatTypes /\ TerminalInv /\ [Next]_vars => TerminalInv' BY TerminalStep
<1> QED BY <1>1, <1>2, ChatTypesHold, PTL DEF Spec

\* A stream carries one terminal event at most and nothing behind it, and says
\* completed of a turn only that is stored as completed (Chat, sendChatFailure).
THEOREM OneTerminalEvent == Spec => []TerminalIsLast
<1>1. TerminalInv => TerminalIsLast BY DEF TerminalInv
<1> QED BY <1>1, TerminalHolds, PTL

-----------------------------------------------------------------------------
(* Who holds a slot, and who the gate *)

\* A call holds a slot as long as its handler is open, and no other does; one
\* at a time is inside the session, with its turn at work.
HoldInv ==
    /\ slots \subseteq Chat /\ IsFiniteSet(slots) /\ Cardinality(slots) <= Slots
    /\ gate \subseteq Chat /\ \A a, b \in gate : a = b
    /\ HoldersAreOpen
    /\ \A c \in Chat : handler[c] \notin {"off", "closed"} => c \in slots
    /\ \A c \in Chat : client[c] = "new" => handler[c] = "off"

\* A step of an open handler that neither takes nor gives back.
LEMMA HoldElsewhere ==
    ASSUME ChatTypes, HoldInv, UNCHANGED <<slots, gate>>,
           \A d \in Chat :
              /\ handler'[d] = handler[d] \/ (handler[d] \notin {"off", "closed"}
                                             /\ handler'[d] \notin {"off", "closed"}
                                             /\ client[d] # "new")
              /\ handler[d] \in {"model", "asking"} => handler'[d] \in {"model", "asking"}
              /\ client'[d] = "new" => client[d] = "new"
    PROVE  HoldInv'
BY DEF HoldInv, HoldersAreOpen

\* Only a call that holds the gate is at work in the session.
LEMMA OpenIsNotNew ==
    ASSUME HoldInv, NEW c \in Chat, handler[c] # "off" PROVE client[c] # "new"
BY DEF HoldInv

\* The handler leaves: whatever it held is free.
LEMMA HoldCloses ==
    ASSUME ChatTypes, HoldInv, NEW c \in Chat, Close(c), handler[c] # "off", UNCHANGED client
    PROVE  HoldInv'
<1>1. /\ slots' = slots \ {c} /\ gate' = gate \ {c} /\ handler'[c] = "closed"
      /\ \A d \in Chat \ {c} : handler'[d] = handler[d]
  BY DEF Close, Goto, ChatTypes
<1>2. IsFiniteSet(slots') /\ Cardinality(slots') <= Slots
  <2>1. IsFiniteSet(slots) BY DEF HoldInv
  <2>2. /\ IsFiniteSet(slots')
        /\ Cardinality(slots') <= Cardinality(slots)
        /\ Cardinality(slots) \in Nat /\ Cardinality(slots') \in Nat
    BY <1>1, <2>1, FS_RemoveElement, FS_CardinalityType, FS_Subset
  <2> QED BY <2>2, ChatAssumption DEF HoldInv
<1>3. client[c] # "new" BY OpenIsNotNew
<1> QED BY <1>1, <1>2, <1>3 DEF HoldInv, HoldersAreOpen

\* Every step keeps it.
LEMMA HoldStep == ASSUME ChatTypes, HoldInv, [Next]_vars PROVE HoldInv'
<1>1. ASSUME NEW c \in Chat, Call(c) PROVE HoldInv'
  <2>1. client[c] = "new" /\ handler[c] = "off" /\ c \notin gate
    BY <1>1 DEF Call, HoldInv, HoldersAreOpen
  <2>2. CASE Cardinality(slots) < Slots
    <3>1. /\ slots' = slots \cup {c} /\ UNCHANGED gate
          /\ handler'[c] = "starting" /\ client'[c] # "new"
          /\ \A d \in Chat \ {c} : handler'[d] = handler[d] /\ client'[d] = client[d]
      BY <1>1, <2>2 DEF Call, Goto, ChatTypes
    <3>2. IsFiniteSet(slots) /\ Cardinality(slots) \in Nat
      BY FS_CardinalityType DEF HoldInv
    <3>3. /\ IsFiniteSet(slots \cup {c})
          /\ Cardinality(slots \cup {c}) = IF c \in slots THEN Cardinality(slots)
                                           ELSE Cardinality(slots) + 1
      BY <3>2, FS_AddElement
    <3>4. Cardinality(slots') <= Slots BY <2>2, <3>1, <3>2, <3>3, ChatAssumption
    <3> QED BY <2>1, <3>1, <3>3, <3>4 DEF HoldInv, HoldersAreOpen
  <2>3. CASE ~(Cardinality(slots) < Slots)
    <3>1. UNCHANGED <<slots, gate, handler>> BY <1>1, <2>3 DEF Call
    <3>2. \A d \in Chat : client'[d] = "new" => client[d] = "new"
      BY <1>1, <2>3 DEF Call, ChatTypes
    <3> QED BY <3>1, <3>2, HoldElsewhere
  <2> QED BY <2>2, <2>3
<1>2. ASSUME NEW c \in Chat, Begin(c) PROVE HoldInv'
  <2>1. handler[c] = "starting" /\ UNCHANGED client BY <1>2 DEF Begin, clientVars
  <2>2. CASE Close(c) BY <2>1, <2>2, HoldCloses
  <2>3. CASE Goto(c, "queued") /\ UNCHANGED <<slots, gate>>
    <3>1. client[c] # "new" BY <2>1, OpenIsNotNew
    <3> QED BY <2>1, <2>3, <3>1, HoldElsewhere DEF Goto, ChatTypes
  <2> QED BY <1>2, <2>2, <2>3 DEF Begin
<1>3. ASSUME NEW c \in Chat, Enter(c) PROVE HoldInv'
  <2>1. /\ handler[c] = "queued" /\ UNCHANGED <<slots, client>>
        /\ \A d \in Chat \ {c} : handler'[d] = handler[d]
    BY <1>3 DEF Enter, Goto, ChatTypes, clientVars
  <2>2. client[c] # "new" /\ c \in slots BY <2>1, OpenIsNotNew DEF HoldInv
  <2>3. CASE gate = {} /\ gate' = {c} /\ Goto(c, "model")
    <3>1. handler'[c] = "model" BY <2>3 DEF Goto, ChatTypes
    <3> QED BY <2>1, <2>2, <2>3, <3>1 DEF HoldInv, HoldersAreOpen
  <2>4. CASE Goto(c, "failing") /\ UNCHANGED gate
    <3>1. handler'[c] = "failing" BY <2>4 DEF Goto, ChatTypes
    <3> QED BY <2>1, <2>2, <2>4, <3>1, HoldElsewhere
  <2> QED BY <1>3, <2>3, <2>4 DEF Enter
<1>4. ASSUME NEW c \in Chat, AskTool(c) \/ Take(c) \/ StopAsking(c) PROVE HoldInv'
  <2>1. /\ UNCHANGED <<slots, gate, client>> /\ handler[c] \in {"model", "asking"}
        /\ handler'[c] \in {"model", "asking"}
        /\ \A d \in Chat \ {c} : handler'[d] = handler[d]
    BY <1>4 DEF AskTool, Take, StopAsking, Goto, ChatTypes, clientVars
  <2>2. client[c] # "new" BY <2>1, OpenIsNotNew
  <2> QED BY <2>1, <2>2, HoldElsewhere
<1>5. ASSUME NEW c \in Chat, Finish(c) \/ Break(c) PROVE HoldInv'
  <2>1. /\ UNCHANGED <<slots, client>> /\ handler[c] = "model" /\ gate' = gate \ {c}
        /\ handler'[c] \in {"stored", "failing"}
        /\ \A d \in Chat \ {c} : handler'[d] = handler[d]
    BY <1>5 DEF Finish, Break, Goto, ChatTypes, clientVars
  <2>2. client[c] # "new" /\ c \in slots BY <2>1, OpenIsNotNew DEF HoldInv
  <2> QED BY <2>1, <2>2 DEF HoldInv, HoldersAreOpen
<1>6. ASSUME NEW c \in Chat, Report(c) PROVE HoldInv'
  <2>1. handler[c] # "off" /\ UNCHANGED client BY <1>6 DEF Report, clientVars
  <2> QED BY <1>6, <2>1, HoldCloses DEF Report
<1>7. ASSUME NEW c \in Chat, Receiver(c) \/ Client(c) \/ ClientSends(c) \/ Lose(c)
      PROVE  HoldInv'
  <2>1. UNCHANGED <<slots, gate, handler>>
    BY <1>7 DEF Receiver, Receive, Push, ReceiverEnds, Client, ClientReads, ClientReplies,
                ClientEnds, ClientSends, Lose, serverVars
  <2>2. \A d \in Chat : client'[d] = "new" => client[d] = "new"
    BY <1>7 DEF Receiver, Receive, Push, ReceiverEnds, Client, ClientReads, ClientReplies,
                ClientEnds, ClientSends, Lose, ChatTypes, clientVars
  <2> QED BY <2>1, <2>2, HoldElsewhere
<1>8. CASE UNCHANGED vars
  BY <1>8, HoldElsewhere DEF vars, serverVars, clientVars
<1> QED BY <1>1, <1>2, <1>3, <1>4, <1>5, <1>6, <1>7, <1>8 DEF Next, Handler

\* Every reachable state has it.
LEMMA HoldHolds == Spec => []HoldInv
<1>1. Init => HoldInv
  BY FS_EmptySet, ChatAssumption DEF Init, HoldInv, HoldersAreOpen
<1>2. ChatTypes /\ HoldInv /\ [Next]_vars => HoldInv' BY HoldStep
<1> QED BY <1>1, <1>2, ChatTypesHold, PTL DEF Spec

\* A refused, cancelled or lost call leaves neither its slot nor the gate
\* behind (the deferred functions of Chat).
THEOREM NothingHeldBehind == Spec => []HoldersAreOpen
<1>1. HoldInv => HoldersAreOpen BY DEF HoldInv
<1> QED BY <1>1, HoldHolds, PTL

-----------------------------------------------------------------------------
(* The rest of the types of the chat *)

\* No turn asks, is answered or hears more than its bound allows: one that waits
\* has one answer less than it has asked for, at least.
CountInv ==
    \A c \in Chat :
        /\ asked[c] <= Asks[c]
        /\ answers[c] \in Seq(Id)
        /\ Len(answers[c]) <= asked[c]
        /\ handler[c] = "asking" => Len(answers[c]) < asked[c]
        /\ strays[c] \in 0 .. Strays[c]

\* A step that asks nothing and is answered nothing.
LEMMA CountElsewhere ==
    ASSUME CountInv, UNCHANGED <<asked, answers, strays>>,
           \A d \in Chat : handler'[d] = "asking" => handler[d] = "asking"
    PROVE  CountInv'
BY DEF CountInv

\* Every step keeps it.
LEMMA CountStep ==
    ASSUME ChatTypes, CountInv, strays \in [Chat -> Nat], [Next]_vars PROVE CountInv'
<1>1. ASSUME NEW c \in Chat, AskTool(c) PROVE CountInv'
  <2>1. /\ asked[c] < Asks[c] /\ asked[c] \in Nat /\ Asks[c] \in Nat
        /\ asked'[c] = asked[c] + 1 /\ \A d \in Chat \ {c} : asked'[d] = asked[d]
        /\ \A d \in Chat \ {c} : handler'[d] = handler[d]
        /\ UNCHANGED <<answers, strays>>
    BY <1>1, ChatAssumption DEF AskTool, ChatTypes, Goto, clientVars
  <2>2. Len(answers[c]) \in Nat BY DEF ChatTypes
  <2> QED BY <2>1, <2>2 DEF CountInv
<1>2. ASSUME NEW c \in Chat, Take(c) PROVE CountInv'
  <2>1. CASE UNCHANGED <<answers, handler>>
    BY <1>2, <2>1, CountElsewhere DEF Take, clientVars
  <2>2. CASE answers' = [answers EXCEPT ![c] = Append(@, asked[c])] /\ Goto(c, "model")
    <3>1. /\ handler[c] = "asking" /\ handler'[c] = "model"
          /\ answers'[c] = Append(answers[c], asked[c])
          /\ \A d \in Chat \ {c} : answers'[d] = answers[d] /\ handler'[d] = handler[d]
          /\ UNCHANGED <<asked, strays>>
      BY <1>2, <2>2 DEF Take, ChatTypes, Goto, clientVars
    <3>2. /\ asked[c] \in Nat /\ Asks[c] \in Nat /\ asked[c] <= Asks[c]
          /\ answers[c] \in Seq(Id) /\ Len(answers[c]) < asked[c] /\ Len(answers[c]) \in Nat
      BY <3>1, ChatAssumption DEF CountInv, ChatTypes
    <3>3. asked[c] \in 1 .. Asks[c] BY <3>2
    <3>4. asked[c] \in Id BY <3>3 DEF Id
    <3>5. Append(answers[c], asked[c]) \in Seq(Id)
          /\ Len(Append(answers[c], asked[c])) = Len(answers[c]) + 1
      BY <3>2, <3>4
    <3>6. Len(answers[c]) + 1 <= asked[c] BY <3>2
    <3> QED BY <3>1, <3>5, <3>6 DEF CountInv
  <2> QED BY <1>2, <2>1, <2>2 DEF Take
<1>3. ASSUME NEW c \in Chat, ClientSends(c) PROVE CountInv'
  <2>1. /\ strays'[c] = strays[c] + 1 /\ strays[c] < Strays[c]
        /\ \A d \in Chat \ {c} : strays'[d] = strays[d]
        /\ UNCHANGED <<asked, answers, handler>>
    BY <1>3 DEF ClientSends, serverVars
  <2>2. strays'[c] \in 0 .. Strays[c] BY <2>1, ChatAssumption
  <2> QED BY <2>1, <2>2 DEF CountInv
<1>4. ASSUME NEW c \in Chat,
             Call(c) \/ Begin(c) \/ Enter(c) \/ StopAsking(c) \/ Finish(c) \/ Break(c)
                     \/ Report(c) \/ Receiver(c) \/ Client(c) \/ Lose(c)
      PROVE  CountInv'
  <2>1. UNCHANGED <<asked, answers, strays>>
    BY <1>4 DEF Call, Begin, Enter, StopAsking, Finish, Break, Report, Receiver, Receive, Push,
                ReceiverEnds, Client, ClientReads, ClientReplies, ClientEnds, Lose, serverVars,
                clientVars
  <2>2. \A d \in Chat : handler'[d] = "asking" => handler[d] = "asking"
    BY <1>4 DEF Call, Begin, Enter, StopAsking, Finish, Break, Report, Receiver, Receive, Push,
                ReceiverEnds, Client, ClientReads, ClientReplies, ClientEnds, Lose, serverVars,
                Close, Goto, ChatTypes
  <2> QED BY <2>1, <2>2, CountElsewhere
<1>5. CASE UNCHANGED vars BY <1>5, CountElsewhere DEF vars, serverVars, clientVars
<1> QED BY <1>1, <1>2, <1>3, <1>4, <1>5 DEF Next, Handler

\* What is on its way, and where.
WireTypes ==
    /\ receiver \in [Chat -> {"off", "reading", "pushing", "ended"}]
    /\ event \in [Chat -> ClientEvent]
    /\ incoming \in [Chat -> {<<>>} \cup {<<e>> : e \in ClientEvent}]
    /\ chatDone \in [Chat -> BOOLEAN]
    /\ task \in [Chat -> Id]
    /\ toServer \in [Chat -> Seq(ClientEvent)]
    /\ strays \in [Chat -> Nat]

\* Every step keeps them.
LEMMA WireStep ==
    ASSUME ChatTypes, CountInv, WireTypes, [Next]_vars PROVE WireTypes'
<1> USE DEF WireTypes
<1>1. Start \in ClientEvent /\ CancelEvent \in ClientEvent /\ \A n \in Id : Reply(n) \in ClientEvent
  BY DEF ClientEvent
<1>2. ASSUME NEW c \in Chat, Call(c) PROVE WireTypes'
  <2>1. <<Start>> \in Seq(ClientEvent) BY <1>1
  <2> QED BY <1>2, <2>1 DEF Call
<1>3. ASSUME NEW c \in Chat, Begin(c) PROVE WireTypes'
  <2>1. toServer[c] # <<>> => Tail(toServer[c]) \in Seq(ClientEvent) OBVIOUS
  <2> QED BY <1>3, <2>1 DEF Begin, Close, clientVars
<1>4. ASSUME NEW c \in Chat,
             Enter(c) \/ AskTool(c) \/ StopAsking(c) \/ Finish(c) \/ Break(c)
      PROVE  WireTypes'
  BY <1>4 DEF Enter, AskTool, StopAsking, Finish, Break, clientVars, wireVars
<1>5. ASSUME NEW c \in Chat, Take(c) PROVE WireTypes'
  BY <1>5 DEF Take, clientVars, wireVars
<1>6. ASSUME NEW c \in Chat, Report(c) PROVE WireTypes'
  BY <1>6 DEF Report, Close, clientVars
<1>7. ASSUME NEW c \in Chat, Receive(c) PROVE WireTypes'
  <2>1. Tail(toServer[c]) \in Seq(ClientEvent) /\ Head(toServer[c]) \in ClientEvent
    BY <1>7 DEF Receive
  <2> QED BY <1>7, <2>1 DEF Receive, clientVars
<1>8. ASSUME NEW c \in Chat, Push(c) PROVE WireTypes'
  <2>1. <<event[c]>> \in {<<e>> : e \in ClientEvent} OBVIOUS
  <2> QED BY <1>8, <2>1 DEF Push, clientVars, wireVars
<1>9. ASSUME NEW c \in Chat, ReceiverEnds(c) PROVE WireTypes'
  BY <1>9 DEF ReceiverEnds, clientVars, wireVars
<1>10. ASSUME NEW c \in Chat, ClientReads(c) PROVE WireTypes'
  <2>1. Head(toClient[c]) \in ServerEvent BY <1>10 DEF ClientReads, ChatTypes
  <2>2. Head(toClient[c]) \notin Terminal => Head(toClient[c]).id \in Id
    BY <2>1 DEF ServerEvent, Ask
  <2> QED BY <1>10, <2>2 DEF ClientReads, serverVars
<1>11. ASSUME NEW c \in Chat, ClientReplies(c) PROVE WireTypes'
  <2>1. Append(toServer[c], Reply(task[c])) \in Seq(ClientEvent) BY <1>1
  <2>2. toServer' \in [Chat -> Seq(ClientEvent)] BY <1>11, <2>1 DEF ClientReplies
  <2> QED BY <1>11, <2>2 DEF ClientReplies, serverVars
<1>12. ASSUME NEW c \in Chat, ClientEnds(c) PROVE WireTypes'
  BY <1>12 DEF ClientEnds, serverVars, wireVars
<1>13. ASSUME NEW c \in Chat, ClientSends(c) PROVE WireTypes'
  <2>1. asked[c] \in Nat /\ Asks[c] \in Nat /\ asked[c] <= Asks[c]
    BY ChatAssumption DEF ChatTypes, CountInv
  <2>2. \A n \in 0 .. asked[c] : n = 0 \/ n \in 1 .. Asks[c] BY <2>1
  <2>3. \A n \in 0 .. asked[c] : n \in Id BY <2>2 DEF Id
  <2>4. PICK stray \in {CancelEvent} \cup {Reply(n) : n \in 0 .. asked[c]} :
           toServer' = [toServer EXCEPT ![c] = Append(@, stray)]
    BY <1>13 DEF ClientSends
  <2>5. stray \in ClientEvent BY <1>1, <2>3
  <2>6. Append(toServer[c], stray) \in Seq(ClientEvent) BY <2>5
  <2> QED BY <1>13, <2>4, <2>6 DEF ClientSends, serverVars
<1>14. ASSUME NEW c \in Chat, Lose(c) PROVE WireTypes'
  <2>1. <<>> \in Seq(ClientEvent) OBVIOUS
  <2> QED BY <1>14, <2>1 DEF Lose
<1>15. CASE UNCHANGED vars BY <1>15 DEF vars, serverVars, clientVars, wireVars
<1> QED
  BY <1>2, <1>3, <1>4, <1>5, <1>6, <1>7, <1>8, <1>9, <1>10, <1>11, <1>12, <1>13, <1>14, <1>15
  DEF Next, Handler, Receiver, Client

\* Every reachable state has them.
LEMMA WireHolds == Spec => [](CountInv /\ WireTypes)
<1>1. Init => CountInv /\ WireTypes
  <2> SUFFICES ASSUME Init PROVE CountInv /\ WireTypes OBVIOUS
  <2>1. Start \in ClientEvent /\ 0 \in Id BY DEF ClientEvent, Id
  <2>2. \A c \in Chat : toServer[c] = <<>> /\ toServer[c] \in Seq(ClientEvent)
    BY DEF Init
  <2>3. WireTypes BY <2>1, <2>2 DEF Init, WireTypes
  <2>4. \A c \in Chat : Len(answers[c]) = 0 /\ answers[c] \in Seq(Id) BY DEF Init
  <2>5. CountInv BY <2>4, ChatAssumption DEF Init, CountInv
  <2> QED BY <2>3, <2>5
<1>2. ChatTypes /\ CountInv /\ WireTypes /\ [Next]_vars => CountInv' /\ WireTypes'
  <2>1. WireTypes => strays \in [Chat -> Nat] BY DEF WireTypes
  <2> QED BY <2>1, CountStep, WireStep
<1> QED BY <1>1, <1>2, ChatTypesHold, PTL DEF Spec

\* Every reachable state of the chat is well typed: no more calls than there
\* are slots, one inside the session, and no answer nobody asked for.
THEOREM ChatsAreWellTyped == Spec => []TypeOK
<1>1. ChatTypes /\ HoldInv /\ CountInv /\ WireTypes => TypeOK
  <2> SUFFICES ASSUME ChatTypes, HoldInv, CountInv, WireTypes PROVE TypeOK OBVIOUS
  <2>1. Cardinality(gate) <= 1
    <3>1. CASE gate = {} BY <3>1, FS_EmptySet
    <3>2. ASSUME NEW c \in gate PROVE Cardinality(gate) <= 1
      <4>1. gate = {c} BY DEF HoldInv
      <4>2. Cardinality({c}) = 1 BY FS_Singleton
      <4> QED BY <4>1, <4>2
    <3> QED BY <3>1, <3>2
  <2>2. \A c \in Chat : asked[c] \in 0 .. Asks[c]
    BY ChatAssumption DEF CountInv, ChatTypes
  <2>3. \A c \in Chat : toServer[c] \in Seq(ClientEvent) /\ toClient[c] \in Seq(ServerEvent)
    BY DEF WireTypes, ChatTypes
  <2> QED
    BY <2>1, <2>2, <2>3 DEF TypeOK, HoldInv, CountInv, WireTypes, ChatTypes, Place, Standing
<1> QED BY <1>1, ChatTypesHold, HoldHolds, WireHolds, PTL

-----------------------------------------------------------------------------
(* The chat is a remote turn: what its refinement needs to know *)

\* A call that has not begun its turn.
Fresh == {"off", "starting", "queued"}

\* The turn and its context: the one inside the session holds the gate, what is
\* stored as completed has been, and a model that is at work has had the result
\* of what it asked for last, unless nobody waits for the turn.
TurnInv ==
    \A c \in Chat :
        /\ streamDone[c] => chatDone[c]
        /\ handler[c] \in Fresh => asked[c] = 0 /\ answers[c] = <<>> /\ toClient[c] = <<>>
        /\ handler[c] \in {"model", "asking"} => c \in gate
        /\ handler[c] = "model" => GivenTo(c) = asked[c] \/ chatDone[c]
        /\ stored[c] = "completed" => handler[c] \in {"stored", "closed"}

\* What is appended to the answers is the last of them.
LEMMA LastAnswer ==
    ASSUME NEW s \in Seq(Nat), NEW n \in Nat
    PROVE  Append(s, n) # <<>> /\ Append(s, n)[Len(Append(s, n))] = n
OBVIOUS

\* Every step keeps TurnInv.
LEMMA TurnStep ==
    ASSUME ChatTypes, WireTypes, HoldInv, TurnInv, [Next]_vars PROVE TurnInv'
<1> USE DEF ChatTypes, WireTypes, TurnInv, Fresh, Goto, GivenTo
<1>1. ASSUME NEW c \in Chat, Call(c) PROVE TurnInv'
  <2>1. handler[c] = "off" BY <1>1 DEF Call, HoldInv
  <2>2. /\ handler'[c] \in {"off", "starting"} /\ \A d \in Chat \ {c} : handler'[d] = handler[d]
        /\ UNCHANGED <<gate, streamDone, chatDone, asked, answers, stored, toClient>>
    BY <1>1, <2>1 DEF Call
  <2> QED BY <2>1, <2>2
<1>2. ASSUME NEW c \in Chat, Begin(c) PROVE TurnInv'
  <2>1. CASE Close(c) BY <1>2, <2>1 DEF Begin, Close, clientVars
  <2>2. CASE Goto(c, "queued") /\ UNCHANGED <<gate, streamDone, chatDone>>
    BY <1>2, <2>2 DEF Begin, clientVars
  <2> QED BY <1>2, <2>1, <2>2 DEF Begin
<1>3. ASSUME NEW c \in Chat, Enter(c) PROVE TurnInv'
  <2>1. \A d \in Chat : handler[d] \in {"model", "asking"} => d \in gate OBVIOUS
  <2> QED BY <1>3, <2>1 DEF Enter, clientVars, wireVars
<1>4. ASSUME NEW c \in Chat, AskTool(c) PROVE TurnInv'
  <2>1. \A d \in Chat \ {c} : toClient'[d] = toClient[d] BY <1>4 DEF AskTool, Send
  <2> QED BY <1>4, <2>1 DEF AskTool, clientVars
<1>5. ASSUME NEW c \in Chat, Take(c) PROVE TurnInv'
  <2>1. /\ Append(answers[c], asked[c]) # <<>>
        /\ Append(answers[c], asked[c])[Len(Append(answers[c], asked[c]))] = asked[c]
    BY LastAnswer
  <2>2. CASE UNCHANGED <<answers, handler>> BY <1>5, <2>2 DEF Take, clientVars, wireVars
  <2>3. CASE answers' = [answers EXCEPT ![c] = Append(@, asked[c])] /\ Goto(c, "model")
    BY <1>5, <2>1, <2>3 DEF Take, clientVars, wireVars
  <2> QED BY <1>5, <2>2, <2>3 DEF Take
<1>6. ASSUME NEW c \in Chat, StopAsking(c) PROVE TurnInv'
  BY <1>6 DEF StopAsking, clientVars, wireVars
<1>7. ASSUME NEW c \in Chat, Finish(c) PROVE TurnInv'
  BY <1>7 DEF Finish, clientVars, wireVars
<1>8. ASSUME NEW c \in Chat, Break(c) PROVE TurnInv'
  BY <1>8 DEF Break, clientVars, wireVars
<1>9. ASSUME NEW c \in Chat, Report(c) PROVE TurnInv'
  <2>1. \A d \in Chat \ {c} : toClient'[d] = toClient[d] BY <1>9 DEF Report, Send
  <2> QED BY <1>9, <2>1 DEF Report, Close, clientVars
<1>10. ASSUME NEW c \in Chat, Receiver(c) PROVE TurnInv'
  <2>1. \A d \in Chat : chatDone[d] => chatDone'[d]
    BY <1>10 DEF Receiver, Receive, Push, ReceiverEnds
  <2>2. UNCHANGED <<gate, handler, asked, answers, stored, streamDone, toClient>>
    BY <1>10 DEF Receiver, Receive, Push, ReceiverEnds, wireVars
  <2> QED BY <2>1, <2>2
<1>11. ASSUME NEW c \in Chat, ClientReads(c) PROVE TurnInv'
  BY <1>11 DEF ClientReads, serverVars
<1>12. ASSUME NEW c \in Chat, ClientReplies(c) \/ ClientEnds(c) \/ ClientSends(c) PROVE TurnInv'
  BY <1>12 DEF ClientReplies, ClientEnds, ClientSends, serverVars, wireVars
<1>13. ASSUME NEW c \in Chat, Lose(c) PROVE TurnInv'
  BY <1>13 DEF Lose
<1>14. CASE UNCHANGED vars
  BY <1>14 DEF vars, serverVars, clientVars, wireVars
<1> QED
  BY <1>1, <1>2, <1>3, <1>4, <1>5, <1>6, <1>7, <1>8, <1>9, <1>10, <1>11, <1>12, <1>13, <1>14
  DEF Next, Handler, Client

Attached == {"listening", "working"}

\* Of the requests under way the first is the next the client has not seen, the
\* others follow it, and all have been asked for.
InOrder(events, n, of) ==
    \A i \in 1 .. Len(events) :
        events[i] \in Terminal \/ (events[i] = Ask(n + i) /\ n + i <= of)

\* What the client of a call has been asked, and what is on its way to it: none
\* is missing while the stream lives.
Requested(c) ==
    /\ task[c] <= asked[c]
    /\ client[c] \in Attached => InOrder(toClient[c], task[c], asked[c])
    /\ client[c] \in Attached /\ ~streamDone[c] => task[c] + Len(toClient[c]) = asked[c]

RequestInv == \A c \in Chat : Requested(c)

\* The next request may be appended, and the end of the turn.
LEMMA AppendInOrder ==
    ASSUME NEW s \in Seq(ServerEvent), NEW n \in Nat, NEW of \in Nat, InOrder(s, n, of),
           NEW e \in ServerEvent, NEW m \in Nat, m >= of,
           e \in Terminal \/ (e = Ask(n + Len(s) + 1) /\ n + Len(s) + 1 <= m)
    PROVE  InOrder(Append(s, e), n, m)
<1>1. /\ Len(Append(s, e)) = Len(s) + 1 /\ Len(s) \in Nat
      /\ \A i \in 1 .. Len(s) : Append(s, e)[i] = s[i]
      /\ Append(s, e)[Len(s) + 1] = e
  OBVIOUS
<1>2. \A i \in 1 .. Len(s) + 1 : i \in 1 .. Len(s) \/ i = Len(s) + 1 BY <1>1
<1>3. ASSUME NEW i \in 1 .. Len(s)
      PROVE  s[i] \in Terminal \/ (s[i] = Ask(n + i) /\ n + i <= m)
  <2>1. s[i] \in Terminal \/ (s[i] = Ask(n + i) /\ n + i <= of) BY DEF InOrder
  <2>2. i \in Nat BY <1>1
  <2> QED BY <2>1, <2>2
<1>4. n + (Len(s) + 1) = n + Len(s) + 1 BY <1>1
<1> QED BY <1>1, <1>2, <1>3, <1>4 DEF InOrder

\* The request that is read first is the next one, and those behind it follow.
LEMMA TailInOrder ==
    ASSUME NEW s \in Seq(ServerEvent), s # <<>>, NEW n \in Nat, NEW of \in Nat, InOrder(s, n, of),
           Head(s) \notin Terminal
    PROVE  /\ Head(s) = Ask(n + 1) /\ n + 1 <= of
           /\ InOrder(Tail(s), n + 1, of)
           /\ n + 1 + Len(Tail(s)) = n + Len(s)
<1>1. /\ Len(s) \in Nat /\ Len(s) > 0 /\ Len(Tail(s)) = Len(s) - 1 /\ Head(s) = s[1]
      /\ \A i \in 1 .. Len(s) - 1 : Tail(s)[i] = s[i + 1]
  OBVIOUS
<1>2. 1 \in 1 .. Len(s) BY <1>1
<1>3. Head(s) = Ask(n + 1) /\ n + 1 <= of BY <1>1, <1>2 DEF InOrder
<1>4. ASSUME NEW i \in 1 .. Len(s) - 1
      PROVE  s[i + 1] \in Terminal \/ (s[i + 1] = Ask(n + 1 + i) /\ n + 1 + i <= of)
  <2>1. i + 1 \in 1 .. Len(s) /\ n + (i + 1) = n + 1 + i BY <1>1
  <2> QED BY <2>1 DEF InOrder
<1> QED BY <1>1, <1>3, <1>4 DEF InOrder

\* Asking for more, or losing the stream, changes nothing of what is under way.
LEMMA MoreInOrder ==
    ASSUME NEW s \in Seq(ServerEvent), NEW n \in Nat, NEW of \in Nat, NEW m \in Nat, of <= m,
           InOrder(s, n, of)
    PROVE  InOrder(s, n, m)
<1>1. \A i \in 1 .. Len(s) : n + i <= of => n + i <= m OBVIOUS
<1> QED BY <1>1 DEF InOrder

\* A step of the server that asks for nothing, or of the client that reads
\* nothing.
LEMMA RequestElsewhere ==
    ASSUME RequestInv, UNCHANGED <<asked, task, toClient>>,
           \A d \in Chat : /\ streamDone[d] => streamDone'[d]
                           /\ client'[d] \in Attached => client[d] \in Attached
    PROVE  RequestInv'
BY DEF RequestInv, Requested, InOrder

\* A step of one call.
LEMMA RequestOfOne ==
    ASSUME RequestInv, NEW c \in Chat, Requested(c)',
           \A d \in Chat \ {c} :
              /\ asked'[d] = asked[d] /\ task'[d] = task[d] /\ toClient'[d] = toClient[d]
              /\ client'[d] = client[d] /\ streamDone'[d] = streamDone[d]
    PROVE  RequestInv'
<1>1. ASSUME NEW d \in Chat \ {c} PROVE Requested(d)' BY DEF RequestInv, Requested, InOrder
<1> QED BY <1>1 DEF RequestInv

\* Every step keeps it.
LEMMA RequestStep ==
    ASSUME ChatTypes, WireTypes, HoldInv, TurnInv, TerminalInv, RequestInv, [Next]_vars
    PROVE  RequestInv'
<1> USE DEF ChatTypes, WireTypes
<1>0. \A d \in Chat : task[d] \in Nat
  <2>1. \A n \in Id : n \in Nat BY DEF Id
  <2> QED BY <2>1
<1>1. ASSUME NEW c \in Chat, Call(c) PROVE RequestInv'
  <2>1. /\ UNCHANGED <<asked, task, toClient, streamDone>>
        /\ \A d \in Chat \ {c} : client'[d] = client[d]
    BY <1>1 DEF Call
  <2>2. asked[c] = 0 /\ toClient[c] = <<>> BY <1>1 DEF Call, HoldInv, TurnInv, Fresh
  <2>3. task[c] = 0 BY <1>0, <2>2 DEF RequestInv, Requested
  <2>4. Len(toClient[c]) = 0 /\ InOrder(toClient[c], 0, 0) BY <2>2 DEF InOrder
  <2>5. Requested(c)' BY <2>1, <2>2, <2>3, <2>4 DEF Requested, InOrder
  <2> QED BY <2>1, <2>5, RequestOfOne
<1>2. ASSUME NEW c \in Chat, Begin(c) PROVE RequestInv'
  <2>1. UNCHANGED <<asked, task, toClient, client>> BY <1>2 DEF Begin, clientVars
  <2>2. \A d \in Chat : streamDone[d] => streamDone'[d] BY <1>2 DEF Begin, Close
  <2> QED BY <2>1, <2>2, RequestElsewhere
<1>3. ASSUME NEW c \in Chat, Enter(c) \/ Take(c) \/ StopAsking(c) \/ Finish(c) \/ Break(c)
      PROVE  RequestInv'
  <2>1. UNCHANGED <<asked, task, toClient, client, streamDone>>
    BY <1>3 DEF Enter, Take, StopAsking, Finish, Break, clientVars, wireVars
  <2> QED BY <2>1, RequestElsewhere
<1>4. ASSUME NEW c \in Chat, AskTool(c) PROVE RequestInv'
  <2>1. /\ asked'[c] = asked[c] + 1 /\ UNCHANGED <<task, client, streamDone>>
        /\ \A d \in Chat \ {c} : asked'[d] = asked[d] /\ toClient'[d] = toClient[d]
        /\ toClient'[c] = IF streamDone[c] THEN toClient[c]
                          ELSE Append(toClient[c], Ask(asked[c] + 1))
    BY <1>4 DEF AskTool, Send, clientVars
  <2>2. Ask(asked[c] + 1) \in ServerEvent BY <1>4, AskIsTyped
  <2>3. /\ task[c] \in Nat /\ asked[c] \in Nat /\ asked[c] + 1 \in Nat
        /\ toClient[c] \in Seq(ServerEvent) /\ Len(toClient[c]) \in Nat
    BY <1>0
  <2>4. Requested(c) BY DEF RequestInv
  <2>5. task[c] <= asked[c] + 1 BY <2>3, <2>4 DEF Requested
  <2>6. ASSUME client[c] \in Attached, streamDone[c] PROVE InOrder(toClient[c], task[c], asked[c] + 1)
    BY <2>3, <2>4, <2>6, MoreInOrder DEF Requested
  <2>7. ASSUME client[c] \in Attached, ~streamDone[c]
        PROVE  /\ InOrder(Append(toClient[c], Ask(asked[c] + 1)), task[c], asked[c] + 1)
               /\ task[c] + Len(Append(toClient[c], Ask(asked[c] + 1))) = asked[c] + 1
    <3>1. task[c] + Len(toClient[c]) = asked[c] /\ InOrder(toClient[c], task[c], asked[c])
      BY <2>4, <2>7 DEF Requested
    <3>2. Len(Append(toClient[c], Ask(asked[c] + 1))) = Len(toClient[c]) + 1 BY <2>3
    <3> QED BY <2>2, <2>3, <3>1, <3>2, AppendInOrder
  <2>8. Requested(c)' BY <2>1, <2>5, <2>6, <2>7 DEF Requested, InOrder
  <2> QED BY <2>1, <2>8, RequestOfOne
<1>5. ASSUME NEW c \in Chat, Report(c) PROVE RequestInv'
  <2>1. /\ UNCHANGED <<asked, task, client>> /\ streamDone'[c]
        /\ \A d \in Chat \ {c} : streamDone'[d] = streamDone[d] /\ toClient'[d] = toClient[d]
    BY <1>5 DEF Report, Close, Send, clientVars
  <2>2. PICK e \in Terminal : Send(c, e) BY <1>5 DEF Report, Terminal
  <2>3. toClient'[c] = toClient[c] \/ toClient'[c] = Append(toClient[c], e) BY <2>2 DEF Send
  <2>4. /\ task[c] \in Nat /\ asked[c] \in Nat /\ asked[c] >= asked[c]
        /\ toClient[c] \in Seq(ServerEvent)
    BY <1>0
  <2>8. e \in ServerEvent BY DEF ServerEvent
  <2>5. Requested(c) BY DEF RequestInv
  <2>6. client[c] \in Attached => InOrder(toClient'[c], task[c], asked[c])
    BY <2>3, <2>4, <2>5, <2>8, AppendInOrder DEF Requested
  <2>7. Requested(c)' BY <2>1, <2>5, <2>6 DEF Requested, InOrder
  <2> QED BY <2>1, <2>7, RequestOfOne
<1>6. ASSUME NEW c \in Chat, Receiver(c) \/ ClientSends(c) PROVE RequestInv'
  <2>1. UNCHANGED <<asked, toClient, client, streamDone>> BY <1>6, ReceiverIsApart DEF sent
  <2>2. UNCHANGED task
    BY <1>6 DEF Receiver, Receive, Push, ReceiverEnds, ClientSends, clientVars
  <2> QED BY <2>1, <2>2, RequestElsewhere
<1>7. ASSUME NEW c \in Chat, ClientReads(c) PROVE RequestInv'
  <2>1. /\ client[c] = "listening" /\ toClient[c] # <<>> /\ toClient'[c] = Tail(toClient[c])
        /\ UNCHANGED <<asked, streamDone>>
        /\ \A d \in Chat \ {c} : /\ toClient'[d] = toClient[d] /\ client'[d] = client[d]
                                 /\ task'[d] = task[d]
    BY <1>7 DEF ClientReads, serverVars
  <2>2. Requested(c) /\ InOrder(toClient[c], task[c], asked[c])
    BY <2>1 DEF RequestInv, Requested, Attached
  <2>3. Requested(c)'
    <3>1. CASE Head(toClient[c]) \in Terminal
      <4>1. client'[c] = "done" /\ UNCHANGED task BY <1>7, <3>1 DEF ClientReads
      <4> QED BY <2>1, <2>2, <4>1 DEF Requested, Attached
    <3>2. CASE Head(toClient[c]) \notin Terminal
      <4>1. /\ Head(toClient[c]) = Ask(task[c] + 1) /\ task[c] + 1 <= asked[c]
            /\ InOrder(Tail(toClient[c]), task[c] + 1, asked[c])
            /\ task[c] + 1 + Len(Tail(toClient[c])) = task[c] + Len(toClient[c])
        BY <1>0, <2>1, <2>2, <3>2, TailInOrder
      <4>2. task'[c] = task[c] + 1 BY <1>7, <3>2, <4>1 DEF ClientReads, Ask
      <4> QED BY <2>1, <2>2, <4>1, <4>2 DEF Requested, Attached, InOrder
    <3> QED BY <3>1, <3>2
  <2> QED BY <2>1, <2>3, RequestOfOne
<1>8. ASSUME NEW c \in Chat, ClientReplies(c) \/ ClientEnds(c) PROVE RequestInv'
  <2>1. UNCHANGED <<asked, task, toClient, streamDone>>
    BY <1>8 DEF ClientReplies, ClientEnds, serverVars, wireVars
  <2>2. \A d \in Chat : client'[d] \in Attached => client[d] \in Attached
    BY <1>8 DEF ClientReplies, ClientEnds, Attached
  <2> QED BY <2>1, <2>2, RequestElsewhere
<1>9. ASSUME NEW c \in Chat, Lose(c) PROVE RequestInv'
  <2>1. /\ UNCHANGED <<asked, task>> /\ client'[c] = "gone"
        /\ \A d \in Chat \ {c} : /\ toClient'[d] = toClient[d] /\ client'[d] = client[d]
                                 /\ streamDone'[d] = streamDone[d]
    BY <1>9 DEF Lose
  <2>2. Requested(c)' BY <2>1 DEF RequestInv, Requested, Attached
  <2> QED BY <2>1, <2>2, RequestOfOne
<1>10. CASE UNCHANGED vars
  BY <1>10, RequestElsewhere DEF vars, serverVars, clientVars, wireVars
<1> QED
  BY <1>1, <1>2, <1>3, <1>4, <1>5, <1>6, <1>7, <1>8, <1>9, <1>10 DEF Next, Handler, Client

\* An event that makes nothing up, of a client that has been asked for `n`
\* tools: no cancel, and no result of one that has not run.
Honest(e, n, working) ==
    /\ e # CancelEvent
    /\ e.type = "reply" => e.id <= n /\ (e.id = n => ~working)

AllHonest(events, n, working) ==
    \A i \in 1 .. Len(events) : Honest(events[i], n, working)

\* All a client has said is honest until it is outspoken, wherever it is now.
Spoken(c) ==
    strays[c] = 0 =>
        /\ Honest(event[c], task[c], client[c] = "working")
        /\ AllHonest(incoming[c], task[c], client[c] = "working")
        /\ AllHonest(toServer[c], task[c], client[c] = "working")

HonestInv == \A c \in Chat : Spoken(c)

\* What was honest stays so while the client takes requests and runs tools.
LEMMA StillHonest ==
    ASSUME NEW n \in Nat, NEW m \in Nat, NEW before, NEW after,
           n < m \/ (n = m /\ (after => before)),
           NEW e \in ClientEvent, Honest(e, n, before)
    PROVE  Honest(e, m, after)
<1>1. e.type = "reply" => e.id \in Nat
  <2>1. \A k \in Id : k \in Nat BY DEF Id
  <2> QED BY <2>1 DEF ClientEvent, Start, CancelEvent, Reply
<1> QED BY <1>1 DEF Honest

\* The same of all that is under way.
LEMMA StillAllHonest ==
    ASSUME NEW n \in Nat, NEW m \in Nat, NEW before, NEW after,
           n < m \/ (n = m /\ (after => before)),
           NEW s \in Seq(ClientEvent), AllHonest(s, n, before)
    PROVE  AllHonest(s, m, after)
<1>1. ASSUME NEW i \in 1 .. Len(s) PROVE Honest(s[i], m, after)
  <2>1. s[i] \in ClientEvent /\ Honest(s[i], n, before) BY DEF AllHonest
  <2> QED BY <2>1, StillHonest
<1> QED BY <1>1 DEF AllHonest

\* The first event of honest ones is honest, and so are those behind it.
LEMMA TailHonest ==
    ASSUME NEW s \in Seq(ClientEvent), s # <<>>, NEW n, NEW working, AllHonest(s, n, working)
    PROVE  Honest(Head(s), n, working) /\ AllHonest(Tail(s), n, working)
<1>1. /\ Len(s) \in Nat /\ Len(s) > 0 /\ Len(Tail(s)) = Len(s) - 1 /\ Head(s) = s[1]
      /\ \A i \in 1 .. Len(s) - 1 : Tail(s)[i] = s[i + 1]
  OBVIOUS
<1>2. 1 \in 1 .. Len(s) /\ \A i \in 1 .. Len(s) - 1 : i + 1 \in 1 .. Len(s) BY <1>1
<1> QED BY <1>1, <1>2 DEF AllHonest

\* One honest event more.
LEMMA AppendHonest ==
    ASSUME NEW s \in Seq(ClientEvent), NEW e \in ClientEvent, NEW n, NEW working,
           AllHonest(s, n, working), Honest(e, n, working)
    PROVE  AllHonest(Append(s, e), n, working)
<1>1. /\ Len(Append(s, e)) = Len(s) + 1 /\ Len(s) \in Nat
      /\ \A i \in 1 .. Len(s) : Append(s, e)[i] = s[i]
      /\ Append(s, e)[Len(s) + 1] = e
  OBVIOUS
<1>2. \A i \in 1 .. Len(s) + 1 : i \in 1 .. Len(s) \/ i = Len(s) + 1 BY <1>1
<1> QED BY <1>1, <1>2 DEF AllHonest

\* The step of one call.
LEMMA HonestOfOne ==
    ASSUME HonestInv, NEW c \in Chat, Spoken(c)',
           \A d \in Chat \ {c} :
              /\ strays'[d] = strays[d] /\ task'[d] = task[d] /\ client'[d] = client[d]
              /\ event'[d] = event[d] /\ incoming'[d] = incoming[d] /\ toServer'[d] = toServer[d]
    PROVE  HonestInv'
<1>1. ASSUME NEW d \in Chat \ {c} PROVE Spoken(d)' BY DEF HonestInv, Spoken, AllHonest, Honest
<1> QED BY <1>1 DEF HonestInv

\* Every step keeps it.
LEMMA HonestStep ==
    ASSUME ChatTypes, WireTypes, RequestInv, HonestInv, [Next]_vars PROVE HonestInv'
<1> USE DEF ChatTypes, WireTypes
<1>1. \A d \in Chat : task[d] \in Nat
  <2>1. \A n \in Id : n \in Nat BY DEF Id
  <2> QED BY <2>1
<1>2. ASSUME UNCHANGED <<strays, task, client, event, incoming, toServer>> PROVE HonestInv'
  BY <1>2 DEF HonestInv, Spoken, AllHonest, Honest
<1>3. ASSUME NEW c \in Chat, Call(c) PROVE HonestInv'
  <2>1. /\ UNCHANGED <<strays, task, event, incoming>> /\ client[c] = "new"
        /\ client'[c] \in {"listening", "refused"}
        /\ toServer'[c] = <<Start>> \/ toServer'[c] = toServer[c]
        /\ \A d \in Chat \ {c} : toServer'[d] = toServer[d] /\ client'[d] = client[d]
    BY <1>3 DEF Call
  <2>2. Honest(Start, task[c], FALSE) BY DEF Honest, Start, CancelEvent
  <2>5. Len(<<Start>>) = 1 /\ <<Start>>[1] = Start OBVIOUS
  <2>6. \A i \in 1 .. Len(<<Start>>) : <<Start>>[i] = Start BY <2>5
  <2>3. AllHonest(<<Start>>, task[c], FALSE) BY <2>2, <2>6 DEF AllHonest
  <2>4. Spoken(c)' BY <2>1, <2>3 DEF HonestInv, Spoken, AllHonest, Honest
  <2> QED BY <2>1, <2>4, HonestOfOne
<1>4. ASSUME NEW c \in Chat, Begin(c) PROVE HonestInv'
  <2>1. /\ UNCHANGED <<strays, task, client, event, incoming>>
        /\ \A d \in Chat \ {c} : toServer'[d] = toServer[d]
        /\ \/ toServer[c] # <<>> /\ toServer'[c] = Tail(toServer[c])
           \/ toServer'[c] = toServer[c]
    BY <1>4 DEF Begin, clientVars
  <2>2. ASSUME strays[c] = 0 PROVE AllHonest(toServer'[c], task[c], client[c] = "working")
    <3>1. AllHonest(toServer[c], task[c], client[c] = "working")
      BY <2>2 DEF HonestInv, Spoken
    <3>2. CASE toServer'[c] = toServer[c] BY <3>1, <3>2
    <3>3. CASE toServer[c] # <<>> /\ toServer'[c] = Tail(toServer[c])
      BY <3>1, <3>3, TailHonest
    <3> QED BY <2>1, <3>2, <3>3
  <2>3. Spoken(c)' BY <2>1, <2>2 DEF HonestInv, Spoken, AllHonest, Honest
  <2> QED BY <2>1, <2>3, HonestOfOne
<1>5. ASSUME NEW c \in Chat,
             Enter(c) \/ AskTool(c) \/ StopAsking(c) \/ Finish(c) \/ Break(c) \/ Report(c)
             \/ ReceiverEnds(c)
      PROVE  HonestInv'
  <2>1. UNCHANGED <<strays, task, client, event, incoming, toServer>>
    BY <1>5 DEF Enter, AskTool, StopAsking, Finish, Break, Report, ReceiverEnds, clientVars,
                wireVars
  <2> QED BY <1>2, <2>1
<1>6. ASSUME NEW c \in Chat, Take(c) PROVE HonestInv'
  <2>1. /\ UNCHANGED <<strays, task, client, event, toServer>> /\ incoming'[c] = <<>>
        /\ \A d \in Chat \ {c} : incoming'[d] = incoming[d]
    BY <1>6 DEF Take, clientVars, wireVars
  <2>2. Len(incoming'[c]) = 0 BY <2>1
  <2>3. Spoken(c)' BY <2>1, <2>2 DEF HonestInv, Spoken, AllHonest, Honest
  <2> QED BY <2>1, <2>3, HonestOfOne
<1>7. ASSUME NEW c \in Chat, Receive(c) PROVE HonestInv'
  <2>1. /\ UNCHANGED <<strays, task, client, incoming>>
        /\ toServer[c] # <<>> /\ toServer'[c] = Tail(toServer[c])
        /\ event'[c] = event[c] \/ event'[c] = Head(toServer[c])
        /\ \A d \in Chat \ {c} : toServer'[d] = toServer[d] /\ event'[d] = event[d]
    BY <1>7 DEF Receive, clientVars
  <2>2. strays[c] = 0 => /\ AllHonest(toServer'[c], task[c], client[c] = "working")
                         /\ Honest(event'[c], task[c], client[c] = "working")
    BY <2>1, TailHonest DEF HonestInv, Spoken
  <2>3. Spoken(c)' BY <2>1, <2>2 DEF HonestInv, Spoken, AllHonest, Honest
  <2> QED BY <2>1, <2>3, HonestOfOne
<1>8. ASSUME NEW c \in Chat, Push(c) PROVE HonestInv'
  <2>1. /\ UNCHANGED <<strays, task, client, event, toServer>> /\ incoming'[c] = <<event[c]>>
        /\ \A d \in Chat \ {c} : incoming'[d] = incoming[d]
    BY <1>8 DEF Push, clientVars, wireVars
  <2>2. strays[c] = 0 => AllHonest(<<event[c]>>, task[c], client[c] = "working")
    BY DEF HonestInv, Spoken, AllHonest
  <2>3. Spoken(c)' BY <2>1, <2>2 DEF HonestInv, Spoken, AllHonest, Honest
  <2> QED BY <2>1, <2>3, HonestOfOne
<1>9. ASSUME NEW c \in Chat, UNCHANGED <<strays, event, incoming>>,
             task'[c] \in Nat,
             task[c] < task'[c]
                \/ (task[c] = task'[c] /\ (client'[c] = "working" => client[c] = "working")),
             strays[c] = 0 => AllHonest(toServer'[c], task'[c], client'[c] = "working"),
             \A d \in Chat \ {c} :
                task'[d] = task[d] /\ client'[d] = client[d] /\ toServer'[d] = toServer[d]
      PROVE  HonestInv'
  <2>1. ASSUME strays[c] = 0
        PROVE  /\ Honest(event[c], task'[c], client'[c] = "working")
               /\ AllHonest(incoming[c], task'[c], client'[c] = "working")
    <3>1. /\ Honest(event[c], task[c], client[c] = "working")
          /\ AllHonest(incoming[c], task[c], client[c] = "working")
      BY <2>1 DEF HonestInv, Spoken
    <3>2. event[c] \in ClientEvent /\ incoming[c] \in Seq(ClientEvent) /\ task[c] \in Nat
      <4>1. \A e \in ClientEvent : <<e>> \in Seq(ClientEvent) OBVIOUS
      <4>2. <<>> \in Seq(ClientEvent) OBVIOUS
      <4>3. incoming[c] = <<>> \/ \E e \in ClientEvent : incoming[c] = <<e>> OBVIOUS
      <4>4. incoming[c] \in Seq(ClientEvent) BY <4>1, <4>2, <4>3
      <4> QED BY <1>1, <4>4
    <3> QED BY <1>9, <3>1, <3>2, StillHonest, StillAllHonest
  <2>2. Spoken(c)' BY <1>9, <2>1 DEF Spoken, AllHonest, Honest
  <2> QED BY <1>9, <2>2, HonestOfOne
<1>10. ASSUME NEW c \in Chat, ClientReads(c) PROVE HonestInv'
  <2>1. /\ UNCHANGED <<strays, event, incoming, toServer>> /\ client[c] = "listening"
        /\ \A d \in Chat \ {c} : task'[d] = task[d] /\ client'[d] = client[d]
    BY <1>10 DEF ClientReads, serverVars
  <2>2. \/ task'[c] = task[c] /\ client'[c] = "done"
        \/ task'[c] = task[c] + 1
    <3>1. CASE Head(toClient[c]) \in Terminal BY <1>10, <3>1 DEF ClientReads
    <3>2. CASE Head(toClient[c]) \notin Terminal
      <4>1. Head(toClient[c]) = Ask(task[c] + 1)
        BY <1>1, <1>10, <2>1, <3>2, TailInOrder DEF ClientReads, RequestInv, Requested, Attached
      <4> QED BY <1>10, <3>2, <4>1 DEF ClientReads, Ask
    <3> QED BY <3>1, <3>2
  <2>3. /\ task[c] \in Nat /\ task'[c] \in Nat
        /\ task[c] < task'[c]
           \/ (task[c] = task'[c] /\ (client'[c] = "working" => client[c] = "working"))
    BY <1>1, <2>2
  <2>4. strays[c] = 0 => AllHonest(toServer'[c], task'[c], client'[c] = "working")
    BY <2>1, <2>3, StillAllHonest DEF HonestInv, Spoken
  <2> QED BY <1>9, <2>1, <2>3, <2>4
<1>11. ASSUME NEW c \in Chat, ClientReplies(c) PROVE HonestInv'
  <2>1. /\ UNCHANGED <<strays, task, event, incoming>> /\ client'[c] \in {"listening", "gone"}
        /\ toServer'[c] = toServer[c] \/ toServer'[c] = Append(toServer[c], Reply(task[c]))
        /\ \A d \in Chat \ {c} : client'[d] = client[d] /\ toServer'[d] = toServer[d]
    BY <1>11 DEF ClientReplies, serverVars
  <2>2. task[c] \in Nat /\ ~(client'[c] = "working") BY <1>1, <2>1
  <2>3. Honest(Reply(task[c]), task[c], client'[c] = "working") /\ Reply(task[c]) \in ClientEvent
    BY <2>2 DEF Honest, Reply, CancelEvent, ClientEvent
  <2>4. strays[c] = 0 => AllHonest(toServer[c], task[c], client'[c] = "working")
    BY <2>2, StillAllHonest DEF HonestInv, Spoken
  <2>5. strays[c] = 0 => AllHonest(toServer'[c], task'[c], client'[c] = "working")
    <3>1. CASE toServer'[c] = toServer[c] BY <2>1, <2>4, <3>1
    <3>2. CASE toServer'[c] = Append(toServer[c], Reply(task[c]))
      <4>1. strays[c] = 0 =>
               AllHonest(Append(toServer[c], Reply(task[c])), task[c], client'[c] = "working")
        BY <2>3, <2>4, AppendHonest
      <4> QED BY <2>1, <3>2, <4>1
    <3> QED BY <2>1, <3>1, <3>2
  <2> QED BY <1>9, <2>1, <2>2, <2>5
<1>12. ASSUME NEW c \in Chat, ClientEnds(c) PROVE HonestInv'
  <2>1. /\ UNCHANGED <<strays, task, event, incoming, toServer>> /\ client'[c] = "gone"
        /\ \A d \in Chat \ {c} : client'[d] = client[d]
    BY <1>12 DEF ClientEnds, serverVars, wireVars
  <2>2. strays[c] = 0 => AllHonest(toServer[c], task[c], client'[c] = "working")
    BY <1>1, <2>1, StillAllHonest DEF HonestInv, Spoken
  <2> QED BY <1>1, <1>9, <2>1, <2>2
<1>13. ASSUME NEW c \in Chat, ClientSends(c) PROVE HonestInv'
  <2>1. /\ strays'[c] # 0 /\ UNCHANGED <<task, client, event, incoming>>
        /\ \A d \in Chat \ {c} : strays'[d] = strays[d] /\ toServer'[d] = toServer[d]
    BY <1>13 DEF ClientSends, serverVars
  <2>2. Spoken(c)' BY <2>1 DEF Spoken
  <2> QED BY <2>1, <2>2, HonestOfOne
<1>14. ASSUME NEW c \in Chat, Lose(c) PROVE HonestInv'
  <2>1. /\ UNCHANGED <<strays, task, event, incoming>> /\ client'[c] = "gone"
        /\ toServer'[c] = <<>>
        /\ \A d \in Chat \ {c} : client'[d] = client[d] /\ toServer'[d] = toServer[d]
    BY <1>14 DEF Lose
  <2>2. AllHonest(toServer'[c], task'[c], client'[c] = "working") BY <2>1 DEF AllHonest
  <2> QED BY <1>1, <1>9, <2>1, <2>2
<1>15. CASE UNCHANGED vars BY <1>2, <1>15 DEF vars, serverVars, clientVars, wireVars
<1> QED
  BY <1>3, <1>4, <1>5, <1>6, <1>7, <1>8, <1>10, <1>11, <1>12, <1>13, <1>14, <1>15
  DEF Next, Handler, Receiver, Client

\* What a client is promised rests on all three.
RemoteInv == TurnInv /\ RequestInv /\ HonestInv

\* Every reachable state has it.
LEMMA RemoteHolds == Spec => []RemoteInv
<1>1. Init => RemoteInv
  <2> SUFFICES ASSUME Init PROVE RemoteInv OBVIOUS
  <2>1. TurnInv BY DEF Init, TurnInv, Fresh
  <2>2. RequestInv BY DEF Init, RequestInv, Requested, Attached
  <2>3. ASSUME NEW c \in Chat PROVE Spoken(c)
    <3>1. event[c] = Start /\ Len(incoming[c]) = 0 /\ Len(toServer[c]) = 0 BY DEF Init
    <3>2. Honest(Start, task[c], client[c] = "working") BY DEF Honest, Start, CancelEvent
    <3> QED BY <3>1, <3>2 DEF Spoken, AllHonest
  <2> QED BY <2>1, <2>2, <2>3 DEF RemoteInv, HonestInv
<1>2. ChatTypes /\ WireTypes /\ HoldInv /\ TerminalInv /\ RemoteInv /\ [Next]_vars => RemoteInv'
  BY TurnStep, RequestStep, HonestStep DEF RemoteInv
<1> QED BY <1>1, <1>2, ChatTypesHold, WireHolds, HoldHolds, TerminalHolds, PTL DEF Spec

-----------------------------------------------------------------------------
(* The chat is a remote turn: its steps *)

\* The variables of RemoteTurn that are not those of the chat.
Turns == [c \in Chat |-> TurnOf(c)]
Results == [c \in Chat |-> GivenTo(c)]
Clients == [c \in Chat |-> ClientOf(c)]
Busy == [c \in Chat |-> client[c] = "working"]
Outspoken == [c \in Chat |-> strays[c] > 0]

\* What the turn of a call is follows its handler and its row.
LEMMA TurnMoves ==
    ASSUME NEW c \in Chat, NEW to, TurnOf(c)' = to,
           \A d \in Chat \ {c} : handler'[d] = handler[d] /\ stored'[d] = stored[d]
    PROVE  Turns' = [Turns EXCEPT ![c] = to]
<1>1. \A d \in Chat \ {c} : TurnOf(d)' = TurnOf(d) BY DEF TurnOf
<1> QED BY <1>1 DEF Turns

\* And its client, and whether a tool runs there, the client.
LEMMA ClientMoves ==
    ASSUME NEW c \in Chat, NEW to, ClientOf(c)' = to, NEW working,
           (client[c] = "working")' = working,
           \A d \in Chat \ {c} : client'[d] = client[d]
    PROVE  /\ Clients' = [Clients EXCEPT ![c] = to]
           /\ Busy' = [Busy EXCEPT ![c] = working]
<1>1. \A d \in Chat \ {c} : ClientOf(d)' = ClientOf(d) BY DEF ClientOf
<1>2. Clients' = [Clients EXCEPT ![c] = to] BY <1>1 DEF Clients
<1>3. Busy' = [Busy EXCEPT ![c] = working] BY DEF Busy
<1> QED BY <1>2, <1>3

\* Each variable stays with what it is made of.
LEMMA MapStays ==
    /\ UNCHANGED <<handler, stored>> => Turns' = Turns
    /\ UNCHANGED answers => Results' = Results
    /\ UNCHANGED client => Clients' = Clients /\ Busy' = Busy
    /\ UNCHANGED strays => Outspoken' = Outspoken
<1>1. UNCHANGED <<handler, stored>> => Turns' = Turns BY DEF Turns, TurnOf
<1>2. UNCHANGED answers => Results' = Results BY DEF Results, GivenTo
<1>3. UNCHANGED client => Clients' = Clients BY DEF Clients, ClientOf
<1>4. UNCHANGED client => Busy' = Busy BY DEF Busy
<1>5. UNCHANGED strays => Outspoken' = Outspoken BY DEF Outspoken
<1> QED BY <1>1, <1>2, <1>3, <1>4, <1>5

\* A step that changes none of it is none of the turn.
LEMMA RemoteRests ==
    ASSUME UNCHANGED <<slots, asked, chatDone, task>>, Turns' = Turns, Results' = Results,
           Clients' = Clients, Busy' = Busy, Outspoken' = Outspoken
    PROVE  UNCHANGED Remote!vars
BY DEF Remote!vars, Turns, Results, Clients, Busy, Outspoken

\* A call is admitted or refused.
LEMMA CallRefines ==
    ASSUME ChatTypes, HoldInv, NEW c \in Chat, Call(c)
    PROVE  Remote!Admit(c) \/ Remote!Refuse(c)
<1>1. /\ client[c] = "new" /\ UNCHANGED <<asked, chatDone, task, answers, strays, stored>>
      /\ \A d \in Chat \ {c} : client'[d] = client[d] /\ handler'[d] = handler[d]
  BY DEF Call, Goto, ChatTypes
<1>2. Results' = Results /\ Outspoken' = Outspoken BY <1>1, MapStays
<1>3. Clients[c] = "new" /\ Busy[c] = FALSE BY <1>1 DEF Clients, ClientOf, Busy
<1>4. Remote!Cardinality(slots) = Cardinality(slots) BY DEF Remote!Cardinality, Cardinality
<1>5. CASE Cardinality(slots) < Slots
  <2>1. slots' = slots \cup {c} /\ handler'[c] = "starting" /\ client'[c] = "listening"
    BY <1>5 DEF Call, Goto, ChatTypes
  <2>2. TurnOf(c)' = "waiting" BY <2>1 DEF TurnOf
  <2>3. Turns' = [Turns EXCEPT ![c] = "waiting"] BY <1>1, <2>2, TurnMoves
  <2>4. ClientOf(c)' = "attached" /\ (client[c] = "working")' = FALSE BY <2>1 DEF ClientOf
  <2>5. /\ Clients' = [Clients EXCEPT ![c] = "attached"]
        /\ Busy' = [Busy EXCEPT ![c] = FALSE]
    BY <1>1, <2>4, ClientMoves
  <2>6. Busy' = Busy BY <1>3, <2>5 DEF Busy
  <2> QED
    BY <1>1, <1>2, <1>3, <1>4, <1>5, <2>1, <2>3, <2>5, <2>6
    DEF Remote!Admit, Turns, Results, Clients, Busy, Outspoken
<1>6. CASE ~(Cardinality(slots) < Slots)
  <2>1. client'[c] = "refused" /\ UNCHANGED <<slots, handler>> BY <1>6 DEF Call, ChatTypes
  <2>2. Turns' = Turns BY <1>1, <2>1, MapStays
  <2>3. ClientOf(c)' = "refused" /\ (client[c] = "working")' = FALSE BY <2>1 DEF ClientOf
  <2>4. /\ Clients' = [Clients EXCEPT ![c] = "refused"]
        /\ Busy' = [Busy EXCEPT ![c] = FALSE]
    BY <1>1, <2>3, ClientMoves
  <2>5. Busy' = Busy BY <1>3, <2>4 DEF Busy
  <2>6. Cardinality(slots) >= Slots
    <3>1. Cardinality(slots) \in Nat BY FS_CardinalityType DEF HoldInv
    <3> QED BY <1>6, <3>1, ChatAssumption
  <2> QED
    BY <1>1, <1>2, <1>3, <1>4, <2>1, <2>2, <2>4, <2>5, <2>6
    DEF Remote!Refuse, Turns, Results, Clients, Busy, Outspoken
<1> QED BY <1>5, <1>6

\* The handler returns, and what it had is free.
LEMMA CloseRefines ==
    ASSUME ChatTypes, HoldInv, TerminalInv, TurnInv, NEW c \in Chat,
           handler[c] \in {"starting", "stored", "failing"}, Close(c),
           UNCHANGED <<asked, answers, client, task, strays, stored>>
    PROVE  Remote!Close(c)
<1>1. /\ slots' = slots \ {c} /\ c \in slots /\ handler'[c] = "closed"
      /\ \A d \in Chat \ {c} : handler'[d] = handler[d]
      /\ chatDone' = [chatDone EXCEPT ![c] = TRUE]
  BY DEF Close, Goto, ChatTypes, HoldInv
<1>2. Results' = Results /\ Outspoken' = Outspoken /\ Clients' = Clients /\ Busy' = Busy
  BY MapStays
<1>3. TurnOf(c) # "running" BY DEF TurnOf
<1>4. TurnOf(c)' = IF TurnOf(c) = "waiting" THEN "failed" ELSE TurnOf(c)
  BY <1>1 DEF TurnOf, TurnInv, TerminalInv
<1>5. Turns' = [Turns EXCEPT ![c] = TurnOf(c)'] BY <1>1, TurnMoves
<1>6. Turns[c] = TurnOf(c) BY DEF Turns
<1>7. Turns' = [Turns EXCEPT ![c] = IF @ = "waiting" THEN "failed" ELSE @]
  BY <1>4, <1>5, <1>6
<1> QED
  BY <1>1, <1>2, <1>3, <1>6, <1>7 DEF Remote!Close, Turns, Results, Clients, Busy, Outspoken

\* The turn begins once no other runs, or is given up by then.
LEMMA EnterRefines ==
    ASSUME ChatTypes, HoldInv, TurnInv, NEW c \in Chat, Enter(c)
    PROVE  Remote!Begin(c) \/ Remote!Fail(c)
<1>1. /\ handler[c] = "queued" /\ UNCHANGED <<slots, asked, chatDone, client, task, answers, strays>>
      /\ \A d \in Chat \ {c} : handler'[d] = handler[d] /\ stored'[d] = stored[d]
  BY DEF Enter, Goto, ChatTypes, clientVars
<1>2. Results' = Results /\ Outspoken' = Outspoken /\ Clients' = Clients /\ Busy' = Busy
  BY <1>1, MapStays
<1>3. Turns[c] = "waiting" BY <1>1 DEF Turns, TurnOf
<1>4. CASE gate = {} /\ Goto(c, "model")
  <2>1. TurnOf(c)' = "running" BY <1>4 DEF Goto, ChatTypes, TurnOf
  <2>2. Turns' = [Turns EXCEPT ![c] = "running"] BY <1>1, <2>1, TurnMoves
  <2>3. \A d \in Chat : handler[d] \notin {"model", "asking"} BY <1>4 DEF TurnInv
  <2>4. \A d \in Chat : Turns[d] # "running" BY <2>3 DEF Turns, TurnOf, ChatTypes, Place
  <2> QED
    BY <1>1, <1>2, <1>3, <2>2, <2>4
    DEF Remote!Begin, Turns, Results, Clients, Busy, Outspoken
<1>5. CASE chatDone[c] /\ Goto(c, "failing")
  <2>1. TurnOf(c)' = "failed" BY <1>5 DEF Goto, ChatTypes, TurnOf
  <2>2. Turns' = [Turns EXCEPT ![c] = "failed"] BY <1>1, <2>1, TurnMoves
  <2> QED
    BY <1>1, <1>2, <1>3, <1>5, <2>2 DEF Remote!Fail, Turns, Results, Clients, Busy, Outspoken
<1> QED BY <1>4, <1>5 DEF Enter

\* A model at work has had the results it asked for.
LEMMA ModelSettled ==
    ASSUME TurnInv, NEW c \in Chat, handler[c] = "model"
    PROVE  Turns[c] = "running" /\ Remote!Settled(c)
<1>1. Turns[c] = "running" BY DEF Turns, TurnOf
<1>2. GivenTo(c) = asked[c] \/ chatDone[c] BY DEF TurnInv
<1> QED BY <1>1, <1>2 DEF Remote!Settled

\* So it is with the next request.
LEMMA AskRefines ==
    ASSUME ChatTypes, TurnInv, NEW c \in Chat, AskTool(c)
    PROVE  Remote!Ask(c)
<1>1. /\ handler[c] = "model" /\ handler'[c] \in {"model", "asking"}
      /\ asked' = [asked EXCEPT ![c] = @ + 1]
      /\ UNCHANGED <<slots, chatDone, client, task, answers, strays, stored>>
      /\ \A d \in Chat \ {c} : handler'[d] = handler[d]
  BY DEF AskTool, Goto, ChatTypes, clientVars
<1>2. Results' = Results /\ Outspoken' = Outspoken /\ Clients' = Clients /\ Busy' = Busy
  BY <1>1, MapStays
<1>3. TurnOf(c)' = "running" BY <1>1 DEF TurnOf
<1>4. Turns' = [Turns EXCEPT ![c] = "running"] BY <1>1, <1>3, TurnMoves
<1>5. Turns[c] = "running" /\ Remote!Settled(c) BY <1>1, ModelSettled
<1>6. Turns' = Turns BY <1>4, <1>5 DEF Turns
<1> QED
  BY <1>1, <1>2, <1>5, <1>6 DEF Remote!Ask, Turns, Results, Clients, Busy, Outspoken

\* And with the end of the turn, for better or worse.
LEMMA EndRefines ==
    ASSUME ChatTypes, TurnInv, NEW c \in Chat, Finish(c) \/ Break(c)
    PROVE  Remote!Complete(c) \/ Remote!Fail(c)
<1>1. /\ handler[c] = "model"
      /\ UNCHANGED <<slots, asked, chatDone, client, task, answers, strays>>
      /\ \A d \in Chat \ {c} : handler'[d] = handler[d] /\ stored'[d] = stored[d]
  BY DEF Finish, Break, Goto, ChatTypes, clientVars
<1>2. Results' = Results /\ Outspoken' = Outspoken /\ Clients' = Clients /\ Busy' = Busy
  BY <1>1, MapStays
<1>3. Turns[c] = "running" /\ Remote!Settled(c) BY <1>1, ModelSettled
<1>4. CASE Finish(c)
  <2>1. TurnOf(c)' = "completed" BY <1>4 DEF Finish, Goto, ChatTypes, TurnOf
  <2>2. Turns' = [Turns EXCEPT ![c] = "completed"] BY <1>1, <2>1, TurnMoves
  <2> QED
    BY <1>1, <1>2, <1>3, <2>2 DEF Remote!Complete, Turns, Results, Clients, Busy, Outspoken
<1>5. CASE Break(c)
  <2>1. TurnOf(c)' = "failed" BY <1>5 DEF Break, Goto, ChatTypes, TurnOf
  <2>2. Turns' = [Turns EXCEPT ![c] = "failed"] BY <1>1, <2>1, TurnMoves
  <2> QED
    BY <1>1, <1>2, <1>3, <2>2 DEF Remote!Fail, Turns, Results, Clients, Busy, Outspoken
<1> QED BY <1>4, <1>5

\* The result the turn waits for is given to the model; all else is dropped.
\* An honest client has run that very tool, and no other.
LEMMA TakeRefines ==
    ASSUME ChatTypes, WireTypes, AnswersInv, RemoteInv, NEW c \in Chat, Take(c)
    PROVE  Remote!Give(c) \/ UNCHANGED Remote!vars
<1>1. /\ handler[c] = "asking" /\ incoming[c] # <<>>
      /\ UNCHANGED <<slots, asked, chatDone, client, task, strays, stored>>
  BY DEF Take, clientVars
<1>2. Outspoken' = Outspoken /\ Clients' = Clients /\ Busy' = Busy BY <1>1, MapStays
<1>3. CASE UNCHANGED <<answers, handler>>
  <2>1. Turns' = Turns /\ Results' = Results BY <1>1, <1>3, MapStays
  <2> QED BY <1>1, <1>2, <2>1, RemoteRests
<1>4. CASE /\ Head(incoming[c]) = Reply(asked[c])
           /\ answers' = [answers EXCEPT ![c] = Append(@, asked[c])] /\ Goto(c, "model")
  <2>1. \A d \in Chat \ {c} : handler'[d] = handler[d] /\ answers'[d] = answers[d]
    BY <1>4 DEF Goto, ChatTypes
  <2>2. TurnOf(c)' = "running" /\ Turns[c] = "running"
    BY <1>1, <1>4 DEF Goto, ChatTypes, TurnOf, Turns
  <2>3. Turns' = [Turns EXCEPT ![c] = "running"] BY <1>1, <2>1, <2>2, TurnMoves
  <2>4. Turns' = Turns BY <2>2, <2>3 DEF Turns
  <2>5. asked[c] \in Nat /\ answers[c] \in Seq(Nat) BY DEF ChatTypes
  <2>6. GivenTo(c)' = asked[c]
    <3>1. answers'[c] = Append(answers[c], asked[c]) BY <1>4 DEF ChatTypes
    <3> QED BY <2>5, <3>1, LastAnswer DEF GivenTo
  <2>7. Results' = [Results EXCEPT ![c] = asked[c]]
    <3>1. \A d \in Chat \ {c} : GivenTo(d)' = GivenTo(d) BY <2>1 DEF GivenTo
    <3> QED BY <2>6, <3>1 DEF Results
  <2>8. Results[c] < asked[c]
    <3>1. asked[c] > 0 /\ Within(answers[c], asked[c] - 1) BY <1>1 DEF AnswersInv
    <3>2. CASE answers[c] = <<>> BY <3>1, <3>2 DEF Results, GivenTo
    <3>3. CASE answers[c] # <<>>
      <4>1. Len(answers[c]) \in 1 .. Len(answers[c]) BY <2>5, <3>3
      <4>2. answers[c][Len(answers[c])] \in 1 .. asked[c] - 1 BY <3>1, <4>1 DEF Within
      <4>3. answers[c][Len(answers[c])] < asked[c] BY <2>5, <4>2
      <4> QED BY <3>3, <4>3 DEF Results, GivenTo
    <3> QED BY <3>2, <3>3
  <2>9. Outspoken[c] \/ (task[c] = asked[c] /\ ~Busy[c])
    <3>1. SUFFICES ASSUME ~Outspoken[c] PROVE task[c] = asked[c] /\ ~Busy[c] OBVIOUS
    <3>2. strays[c] = 0
      <4>1. ~(strays[c] > 0) BY <3>1 DEF Outspoken
      <4> QED BY <4>1 DEF WireTypes
    <3>3. 1 \in 1 .. Len(incoming[c]) /\ incoming[c][1] = Reply(asked[c])
      <4>1. \E e \in ClientEvent : incoming[c] = <<e>> BY <1>1 DEF WireTypes
      <4>2. PICK e \in ClientEvent : incoming[c] = <<e>> BY <4>1
      <4> QED BY <1>4, <4>2
    <3>4. Honest(Reply(asked[c]), task[c], client[c] = "working")
      BY <3>2, <3>3 DEF RemoteInv, HonestInv, Spoken, AllHonest
    <3>5. asked[c] <= task[c] /\ (asked[c] = task[c] => client[c] # "working")
      BY <3>4 DEF Honest, Reply
    <3>6. task[c] <= asked[c] BY DEF RemoteInv, RequestInv, Requested
    <3>7. task[c] \in Nat
      <4>1. \A n \in Id : n \in Nat BY DEF Id
      <4> QED BY <4>1 DEF WireTypes
    <3>8. task[c] = asked[c] BY <2>5, <3>5, <3>6, <3>7
    <3>9. ~Busy[c] BY <3>5, <3>8 DEF Busy
    <3> QED BY <3>8, <3>9
  <2> QED
    BY <1>1, <1>2, <2>2, <2>4, <2>7, <2>8, <2>9
    DEF Remote!Give, Turns, Results, Clients, Busy, Outspoken
<1> QED BY <1>3, <1>4 DEF Take

\* Giving up the wait changes nothing a client sees.
LEMMA StopRefines ==
    ASSUME ChatTypes, NEW c \in Chat, StopAsking(c)
    PROVE  UNCHANGED Remote!vars
<1>1. /\ handler[c] = "asking" /\ handler'[c] = "model"
      /\ UNCHANGED <<slots, asked, chatDone, client, task, answers, strays, stored>>
      /\ \A d \in Chat \ {c} : handler'[d] = handler[d]
  BY DEF StopAsking, Goto, ChatTypes, clientVars
<1>2. TurnOf(c)' = "running" /\ Turns[c] = "running" BY <1>1 DEF TurnOf, Turns
<1>3. Turns' = [Turns EXCEPT ![c] = "running"] BY <1>1, <1>2, TurnMoves
<1>4. Turns' = Turns BY <1>2, <1>3 DEF Turns
<1> QED BY <1>1, <1>4, MapStays, RemoteRests

\* The first event is read, or the call fails before.
LEMMA BeginRefines ==
    ASSUME ChatTypes, HoldInv, TerminalInv, TurnInv, NEW c \in Chat, Begin(c)
    PROVE  Remote!Close(c) \/ UNCHANGED Remote!vars
<1>1. /\ handler[c] = "starting" /\ UNCHANGED <<asked, answers, client, task, strays, stored>>
  BY DEF Begin, clientVars
<1>2. CASE Close(c) BY <1>1, <1>2, CloseRefines
<1>3. CASE Goto(c, "queued") /\ UNCHANGED <<slots, chatDone>>
  <2>1. \A d \in Chat \ {c} : handler'[d] = handler[d] BY <1>3 DEF Goto, ChatTypes
  <2>2. TurnOf(c)' = "waiting" /\ Turns[c] = "waiting"
    BY <1>1, <1>3 DEF TurnOf, Turns, Goto, ChatTypes
  <2>3. Turns' = [Turns EXCEPT ![c] = "waiting"] BY <1>1, <2>1, <2>2, TurnMoves
  <2>4. Turns' = Turns BY <2>2, <2>3 DEF Turns
  <2> QED BY <1>1, <1>3, <2>4, MapStays, RemoteRests
<1> QED BY <1>2, <1>3 DEF Begin

\* The receiver hears a cancel of a client that has spoken up, or moves what is
\* under way.
LEMMA ReceiverRefines ==
    ASSUME ChatTypes, WireTypes, RemoteInv, NEW c \in Chat, Receiver(c)
    PROVE  Remote!Cancel(c) \/ UNCHANGED Remote!vars
<1>1. UNCHANGED <<slots, handler, asked, client, task, answers, strays, stored>>
  BY DEF Receiver, Receive, Push, ReceiverEnds, clientVars
<1>2. /\ Turns' = Turns /\ Results' = Results /\ Clients' = Clients /\ Busy' = Busy
      /\ Outspoken' = Outspoken
  BY <1>1, MapStays
<1>3. CASE UNCHANGED chatDone BY <1>1, <1>2, <1>3, RemoteRests
<1>4. CASE /\ toServer[c] # <<>> /\ Head(toServer[c]) = CancelEvent
           /\ chatDone' = [chatDone EXCEPT ![c] = TRUE]
  <2>1. strays[c] # 0
    <3>1. SUFFICES ASSUME strays[c] = 0 PROVE FALSE OBVIOUS
    <3>2. AllHonest(toServer[c], task[c], client[c] = "working")
      BY <3>1 DEF RemoteInv, HonestInv, Spoken
    <3>3. toServer[c] \in Seq(ClientEvent) BY DEF WireTypes
    <3>4. Honest(CancelEvent, task[c], client[c] = "working") BY <1>4, <3>2, <3>3, TailHonest
    <3> QED BY <3>4 DEF Honest
  <2>2. Outspoken[c]
    <3>1. strays[c] > 0 BY <2>1 DEF WireTypes
    <3> QED BY <3>1 DEF Outspoken
  <2> QED
    BY <1>1, <1>2, <1>4, <2>2 DEF Remote!Cancel, Turns, Results, Clients, Busy, Outspoken
<1> QED BY <1>3, <1>4 DEF Receiver, Receive, Push, ReceiverEnds

\* The client takes the next request, or is told of the end, when nothing of
\* the turn is left.
LEMMA ReadsRefines ==
    ASSUME ChatTypes, WireTypes, HoldInv, TerminalInv, RemoteInv, NEW c \in Chat, ClientReads(c)
    PROVE  Remote!Run(c) \/ Remote!Tell(c)
<1>1. /\ client[c] = "listening" /\ toClient[c] # <<>> /\ toClient[c] \in Seq(ServerEvent)
      /\ UNCHANGED <<slots, handler, asked, chatDone, answers, strays, stored>>
      /\ \A d \in Chat \ {c} : client'[d] = client[d]
  BY DEF ClientReads, ChatTypes, serverVars
<1>2. Turns' = Turns /\ Results' = Results /\ Outspoken' = Outspoken BY <1>1, MapStays
<1>3. Clients[c] = "attached" /\ Busy[c] = FALSE BY <1>1 DEF Clients, ClientOf, Busy
<1>4. CASE Head(toClient[c]) \in Terminal
  <2>1. client'[c] = "done" /\ UNCHANGED task BY <1>4 DEF ClientReads, ChatTypes
  <2>2. ClientOf(c)' = "told" /\ (client[c] = "working")' = FALSE BY <2>1 DEF ClientOf
  <2>3. Clients' = [Clients EXCEPT ![c] = "told"] /\ Busy' = [Busy EXCEPT ![c] = FALSE]
    BY <1>1, <2>2, ClientMoves
  <2>4. Busy' = Busy BY <1>3, <2>3 DEF Busy
  <2>5. c \notin slots
    <3>1. 1 \in 1 .. Len(toClient[c]) /\ Head(toClient[c]) = toClient[c][1] BY <1>1
    <3>2. handler[c] = "closed" BY <1>4, <3>1 DEF TerminalInv, TerminalIsLast
    <3> QED BY <3>2 DEF HoldInv, HoldersAreOpen
  <2> QED
    BY <1>1, <1>2, <1>3, <2>1, <2>3, <2>4, <2>5
    DEF Remote!Tell, Turns, Results, Clients, Busy, Outspoken
<1>5. CASE Head(toClient[c]) \notin Terminal
  <2>1. task[c] \in Nat /\ asked[c] \in Nat
    <3>1. \A n \in Id : n \in Nat BY DEF Id
    <3> QED BY <3>1 DEF WireTypes, ChatTypes
  <2>2. InOrder(toClient[c], task[c], asked[c])
    BY <1>1 DEF RemoteInv, RequestInv, Requested, Attached
  <2>3. Head(toClient[c]) = Ask(task[c] + 1) /\ task[c] + 1 <= asked[c]
    BY <1>1, <1>5, <2>1, <2>2, TailInOrder
  <2>4. client'[c] = "working" /\ task' = [task EXCEPT ![c] = task[c] + 1]
    BY <1>5, <2>3 DEF ClientReads, Ask, ChatTypes
  <2>5. ClientOf(c)' = "attached" /\ (client[c] = "working")' = TRUE BY <2>4 DEF ClientOf
  <2>6. Clients' = [Clients EXCEPT ![c] = "attached"] /\ Busy' = [Busy EXCEPT ![c] = TRUE]
    BY <1>1, <2>5, ClientMoves
  <2>7. Clients' = Clients BY <1>3, <2>6 DEF Clients
  <2>8. task[c] < asked[c] BY <2>1, <2>3
  <2> QED
    BY <1>1, <1>2, <1>3, <2>4, <2>6, <2>7, <2>8
    DEF Remote!Run, Turns, Results, Clients, Busy, Outspoken
<1> QED BY <1>4, <1>5

\* The tool has run, and its result is under way, or lost with the stream.
LEMMA RepliesRefines ==
    ASSUME ChatTypes, WireTypes, TurnInv, NEW c \in Chat, ClientReplies(c)
    PROVE  Remote!Return(c) \/ Remote!Leave(c)
<1>1. /\ client[c] = "working"
      /\ UNCHANGED <<slots, handler, asked, chatDone, task, answers, strays, stored>>
      /\ client'[c] = IF streamDone[c] THEN "gone" ELSE "listening"
      /\ \A d \in Chat \ {c} : client'[d] = client[d]
  BY DEF ClientReplies, ChatTypes, serverVars
<1>2. Turns' = Turns /\ Results' = Results /\ Outspoken' = Outspoken BY <1>1, MapStays
<1>3. Clients[c] = "attached" /\ Busy[c] BY <1>1 DEF Clients, ClientOf, Busy
<1>4. CASE streamDone[c]
  <2>1. ClientOf(c)' = "gone" /\ (client[c] = "working")' = FALSE BY <1>1, <1>4 DEF ClientOf
  <2>2. Clients' = [Clients EXCEPT ![c] = "gone"] /\ Busy' = [Busy EXCEPT ![c] = FALSE]
    BY <1>1, <2>1, ClientMoves
  <2>3. chatDone' = [chatDone EXCEPT ![c] = TRUE] BY <1>1, <1>4 DEF TurnInv, WireTypes
  <2> QED
    BY <1>1, <1>2, <1>3, <2>2, <2>3 DEF Remote!Leave, Turns, Results, Clients, Busy, Outspoken
<1>5. CASE ~streamDone[c]
  <2>1. ClientOf(c)' = "attached" /\ (client[c] = "working")' = FALSE BY <1>1, <1>5 DEF ClientOf
  <2>2. Clients' = [Clients EXCEPT ![c] = "attached"] /\ Busy' = [Busy EXCEPT ![c] = FALSE]
    BY <1>1, <2>1, ClientMoves
  <2>3. Clients' = Clients BY <1>3, <2>2 DEF Clients
  <2> QED
    BY <1>1, <1>2, <1>3, <2>2, <2>3 DEF Remote!Return, Turns, Results, Clients, Busy, Outspoken
<1> QED BY <1>4, <1>5

\* The client is gone; nobody waits for the turn.
LEMMA LeavesRefines ==
    ASSUME ChatTypes, WireTypes, TurnInv, NEW c \in Chat, ClientEnds(c) \/ Lose(c)
    PROVE  Remote!Leave(c)
<1>1. /\ client[c] \in Attached /\ client'[c] = "gone"
      /\ UNCHANGED <<slots, handler, asked, task, answers, strays, stored>>
      /\ \A d \in Chat \ {c} : client'[d] = client[d]
  BY DEF ClientEnds, Lose, Attached, ChatTypes, serverVars
<1>2. Turns' = Turns /\ Results' = Results /\ Outspoken' = Outspoken BY <1>1, MapStays
<1>3. Clients[c] = "attached" BY <1>1 DEF Clients, ClientOf, Attached
<1>4. ClientOf(c)' = "gone" /\ (client[c] = "working")' = FALSE BY <1>1 DEF ClientOf
<1>5. Clients' = [Clients EXCEPT ![c] = "gone"] /\ Busy' = [Busy EXCEPT ![c] = FALSE]
  BY <1>1, <1>4, ClientMoves
<1>6. chatDone' = [chatDone EXCEPT ![c] = TRUE]
  <2>1. CASE ClientEnds(c)
    <3>1. chatDone[c] /\ UNCHANGED chatDone BY <2>1 DEF ClientEnds, TurnInv, serverVars
    <3> QED BY <3>1 DEF WireTypes
  <2>2. CASE Lose(c) BY <2>2 DEF Lose
  <2> QED BY <2>1, <2>2
<1> QED
  BY <1>1, <1>2, <1>3, <1>5, <1>6 DEF Remote!Leave, Turns, Results, Clients, Busy, Outspoken

\* The client says what nobody asked for.
LEMMA SpeaksRefines ==
    ASSUME WireTypes, NEW c \in Chat, ClientSends(c)
    PROVE  Remote!SpeakUp(c)
<1>1. /\ client[c] \in Attached /\ strays' = [strays EXCEPT ![c] = @ + 1]
      /\ UNCHANGED <<slots, handler, asked, chatDone, client, task, answers, stored>>
  BY DEF ClientSends, Attached, serverVars
<1>2. Turns' = Turns /\ Results' = Results /\ Clients' = Clients /\ Busy' = Busy
  BY <1>1, MapStays
<1>3. Clients[c] = "attached" BY <1>1 DEF Clients, ClientOf, Attached
<1>4. /\ strays'[c] > 0 /\ \A d \in Chat \ {c} : strays'[d] = strays[d]
  BY <1>1 DEF WireTypes
<1>5. Outspoken' = [Outspoken EXCEPT ![c] = TRUE] BY <1>4 DEF Outspoken
<1> QED
  BY <1>1, <1>2, <1>3, <1>5 DEF Remote!SpeakUp, Turns, Results, Clients, Busy, Outspoken

\* The first state is one of remote turns.
LEMMA RemoteStarts == ASSUME Init PROVE Remote!Init
<1>1. Turns = [c \in Chat |-> "none"] /\ Results = [c \in Chat |-> 0]
  BY DEF Init, Turns, TurnOf, Results, GivenTo
<1>2. Clients = [c \in Chat |-> "new"] /\ Busy = [c \in Chat |-> FALSE]
  BY DEF Init, Clients, ClientOf, Busy
<1>3. Outspoken = [c \in Chat |-> FALSE]
  <2>1. \A c \in Chat : (strays[c] > 0) = FALSE BY DEF Init
  <2> QED BY <2>1 DEF Outspoken
<1> QED
  BY <1>1, <1>2, <1>3
  DEF Init, Remote!Init, Turns, Results, Clients, Busy, Outspoken

\* Every step is one of them or none.
LEMMA RemoteStep ==
    ASSUME ChatTypes, WireTypes, HoldInv, AnswersInv, TerminalInv, RemoteInv, [Next]_vars
    PROVE  [Remote!Next]_(Remote!vars)
<1> DEFINE Good == [Remote!Next]_(Remote!vars)
<1>0. TurnInv BY DEF RemoteInv
<1>1. ASSUME NEW c \in Chat, Call(c) PROVE Good BY <1>1, CallRefines DEF Remote!Next
<1>2. ASSUME NEW c \in Chat, Begin(c) PROVE Good BY <1>0, <1>2, BeginRefines DEF Remote!Next
<1>3. ASSUME NEW c \in Chat, Enter(c) PROVE Good BY <1>0, <1>3, EnterRefines DEF Remote!Next
<1>4. ASSUME NEW c \in Chat, AskTool(c) PROVE Good BY <1>0, <1>4, AskRefines DEF Remote!Next
<1>5. ASSUME NEW c \in Chat, Take(c) PROVE Good BY <1>5, TakeRefines DEF Remote!Next
<1>6. ASSUME NEW c \in Chat, StopAsking(c) PROVE Good BY <1>6, StopRefines
<1>7. ASSUME NEW c \in Chat, Finish(c) \/ Break(c) PROVE Good
  BY <1>0, <1>7, EndRefines DEF Remote!Next
<1>8. ASSUME NEW c \in Chat, Report(c) PROVE Good
  <2>1. /\ handler[c] \in {"starting", "stored", "failing"} /\ Close(c)
        /\ UNCHANGED <<asked, answers, client, task, strays, stored>>
    BY <1>8 DEF Report, clientVars
  <2> QED BY <1>0, <2>1, CloseRefines DEF Remote!Next
<1>9. ASSUME NEW c \in Chat, Receiver(c) PROVE Good BY <1>9, ReceiverRefines DEF Remote!Next
<1>10. ASSUME NEW c \in Chat, ClientReads(c) PROVE Good BY <1>10, ReadsRefines DEF Remote!Next
<1>11. ASSUME NEW c \in Chat, ClientReplies(c) PROVE Good
  BY <1>0, <1>11, RepliesRefines DEF Remote!Next
<1>12. ASSUME NEW c \in Chat, ClientEnds(c) \/ Lose(c) PROVE Good
  BY <1>0, <1>12, LeavesRefines DEF Remote!Next
<1>13. ASSUME NEW c \in Chat, ClientSends(c) PROVE Good BY <1>13, SpeaksRefines DEF Remote!Next
<1>14. CASE UNCHANGED vars
  <2>1. /\ UNCHANGED <<slots, asked, chatDone, task, handler, stored>>
        /\ UNCHANGED <<answers, client, strays>>
    BY <1>14 DEF vars, serverVars, clientVars
  <2> QED BY <2>1, MapStays, RemoteRests
<1> QED
  BY <1>1, <1>2, <1>3, <1>4, <1>5, <1>6, <1>7, <1>8, <1>9, <1>10, <1>11, <1>12, <1>13, <1>14
  DEF Next, Handler, Client

\* To its client a call is a remote turn, for any number of calls, slots and
\* requests: a tool runs at most once for each request and in order, and the
\* model goes on with the result of that very run, or is cancelled
\* (remoteToolExecute, receiveChat, runRemoteTool).
THEOREM TurnsRunRemotely == Spec => ImplementsRemoteTurn
<1>1. Init => Remote!Init BY RemoteStarts
<1>2. ChatTypes /\ WireTypes /\ HoldInv /\ AnswersInv /\ TerminalInv /\ RemoteInv /\ [Next]_vars
         => [Remote!Next]_(Remote!vars)
  BY RemoteStep
<1> QED
  BY <1>1, <1>2, ChatTypesHold, WireHolds, HoldHolds, AnswersHold, TerminalHolds, RemoteHolds, PTL
  DEF Spec, ImplementsRemoteTurn, Remote!Spec

-----------------------------------------------------------------------------
(* Pairing: types *)

\* Every step keeps the types.
LEMMA PairingTypesStep == ASSUME P!TypeOK, [P!Next]_(P!vars) PROVE P!TypeOK'
<1> USE DEF P!TypeOK, P!Status, P!None, P!rowVars
<1>1. ASSUME NEW r \in Request, P!BeginSweep(r) PROVE P!TypeOK'
  BY <1>1 DEF P!BeginSweep, P!ExpireDue
<1>2. ASSUME NEW r \in Request, P!BeginPurge(r) PROVE P!TypeOK'
  <2>1. status' \in [Request -> P!Status] BY <1>2 DEF P!BeginPurge
  <2>2. certificate' \in [Request -> P!Serial \cup {P!None}] BY <1>2 DEF P!BeginPurge
  <2>3. place' \in [Request -> {"new", "swept", "purged", "counted", "begun", "refused"}]
    BY <1>2 DEF P!BeginPurge
  <2> QED BY <1>2, <2>1, <2>2, <2>3 DEF P!BeginPurge
<1>3. ASSUME NEW r \in Request, P!BeginCount(r) PROVE P!TypeOK' BY <1>3 DEF P!BeginCount
<1>4. ASSUME NEW r \in Request, P!BeginInsert(r) PROVE P!TypeOK' BY <1>4 DEF P!BeginInsert
<1>5. ASSUME NEW r \in Request, P!Deny(r) PROVE P!TypeOK' BY <1>5 DEF P!Deny
<1>6. ASSUME NEW r \in Request, P!WatchPoll(r) PROVE P!TypeOK' BY <1>6 DEF P!WatchPoll
<1>7. ASSUME NEW r \in Request, P!WatchMark(r) \/ P!WatchLost(r) PROVE P!TypeOK'
  BY <1>7 DEF P!WatchMark, P!WatchLost, P!ExpireOne
<1>8. ASSUME NEW r \in Request, P!Tick(r) PROVE P!TypeOK' BY <1>8 DEF P!Tick
<1>9. ASSUME P!List PROVE P!TypeOK' BY <1>9 DEF P!List, P!ExpireDue
<1>10. ASSUME NEW o \in Operator, NEW r \in Request, P!ApproveRead(o, r) PROVE P!TypeOK'
  <2>1. serials + 1 \in P!Serial /\ serials + 1 \in 0 .. MaxSerial
    BY <1>10, RpcAssumption DEF P!ApproveRead, P!Serial
  <2>2. job' \in [Operator -> {P!Idle} \cup [request : Request, serial : P!Serial]]
    BY <1>10, <2>1 DEF P!ApproveRead
  <2> QED BY <1>10, <2>1, <2>2 DEF P!ApproveRead
<1>11. ASSUME NEW o \in Operator, NEW r \in Request, P!ApproveLate(o, r) PROVE P!TypeOK'
  BY <1>11 DEF P!ApproveLate, P!ExpireOne
<1>12. ASSUME NEW o \in Operator, P!ApproveCommit(o) PROVE P!TypeOK'
  <2>1. job[o] \in [request : Request, serial : P!Serial] BY <1>12 DEF P!ApproveCommit
  <2>2. job[o].request \in Request /\ job[o].serial \in P!Serial BY <2>1
  <2>3. [serial |-> job[o].serial, revoked |-> FALSE] \in [serial : P!Serial, revoked : BOOLEAN]
    BY <2>2
  <2>4. clients' \in [Key -> {P!NoClient} \cup [serial : P!Serial, revoked : BOOLEAN]]
    BY <1>12, <2>3 DEF P!ApproveCommit
  <2>5. status' \in [Request -> P!Status] /\ certificate' \in [Request -> P!Serial \cup {P!None}]
    BY <1>12, <2>2 DEF P!ApproveCommit
  <2>6. job' \in [Operator -> {P!Idle} \cup [request : Request, serial : P!Serial]]
    BY <1>12 DEF P!ApproveCommit
  <2> QED BY <1>12, <2>4, <2>5, <2>6 DEF P!ApproveCommit
<1>13. ASSUME NEW o \in Operator, P!ApproveFails(o) PROVE P!TypeOK' BY <1>13 DEF P!ApproveFails
<1>14. ASSUME NEW k \in Key, P!Revoke(k) PROVE P!TypeOK'
  <2>1. clients[k] \in [serial : P!Serial, revoked : BOOLEAN] BY <1>14 DEF P!Revoke
  <2>2. [clients[k] EXCEPT !.revoked = TRUE] \in [serial : P!Serial, revoked : BOOLEAN] BY <2>1
  <2>3. clients' = [clients EXCEPT ![k] = [clients[k] EXCEPT !.revoked = TRUE]]
    BY <1>14 DEF P!Revoke
  <2> QED BY <1>14, <2>2, <2>3 DEF P!Revoke
<1>15. CASE UNCHANGED P!vars BY <1>15 DEF P!vars
<1> QED
  BY <1>1, <1>2, <1>3, <1>4, <1>5, <1>6, <1>7, <1>8, <1>9, <1>10, <1>11, <1>12, <1>13, <1>14, <1>15
  DEF P!Next, P!Begin, P!Watch

\* Every reachable state of a pairing is well typed.
LEMMA PairingWellTyped == P!Spec => []P!TypeOK
<1>1. P!Init => P!TypeOK
  BY RpcAssumption DEF P!Init, P!TypeOK, P!None, P!Status
<1>2. P!TypeOK /\ [P!Next]_(P!vars) => P!TypeOK' BY PairingTypesStep
<1> QED BY <1>1, <1>2, PTL DEF P!Spec

-----------------------------------------------------------------------------
(* Settled requests, and certificates *)

\* A request has no row before its handler has written one; a device collects
\* a certificate as its stream ends; and one that is signed and not yet written
\* down is nobody else's.
PairInv ==
    /\ \A r \in Request : place[r] # "begun" => status[r] = "none" /\ watch[r] = "off"
    /\ \A r \in Request : held[r] # P!None => watch[r] = "ended"
    /\ \A r \in Request : certificate[r] <= serials /\ held[r] <= serials
    /\ \A o \in Operator :
          /\ job[o].serial <= serials
          /\ job[o] # P!Idle =>
                /\ \A p \in Operator \ {o} : job[p].serial # job[o].serial
                /\ \A r \in Request :
                      certificate[r] # job[o].serial /\ held[r] # job[o].serial

\* A step that signs nothing, and writes down nothing that was not.
LEMMA PairElsewhere ==
    ASSUME P!TypeOK, PairInv, UNCHANGED serials,
           \A o \in Operator : job'[o] = job[o] \/ job'[o] = P!Idle,
           \A r \in Request :
              /\ certificate'[r] \in {certificate[r], P!None}
              /\ held'[r] = held[r] \/ (held'[r] = certificate[r] /\ watch'[r] = "ended")
              /\ watch[r] = "ended" => watch'[r] = "ended"
              /\ place'[r] # "begun" =>
                    place[r] # "begun" /\ status'[r] = status[r] /\ watch'[r] = watch[r]
    PROVE  PairInv'
<1>1. \A o \in Operator : job[o].serial \in 0 .. MaxSerial
  BY RpcAssumption DEF P!TypeOK, P!Serial, P!Idle, P!None
<1>2. \A o \in Operator : job[o] # P!Idle => job[o].serial > 0
  BY RpcAssumption DEF P!TypeOK, P!Serial
<1>3. serials \in Nat BY DEF P!TypeOK
<1>4. P!Idle.serial = 0 /\ P!None = 0 BY DEF P!Idle, P!None
<1>5. \A r \in Request : certificate'[r] <= serials /\ held'[r] <= serials
  BY <1>3, <1>4 DEF PairInv
<1>6. \A r \in Request : held'[r] # P!None => watch'[r] = "ended" BY DEF PairInv
<1>7. \A r \in Request : place'[r] # "begun" => status'[r] = "none" /\ watch'[r] = "off"
  BY DEF PairInv
<1>8. ASSUME NEW o \in Operator
      PROVE  /\ job'[o].serial <= serials
             /\ job'[o] # P!Idle =>
                   /\ \A p \in Operator \ {o} : job'[p].serial # job'[o].serial
                   /\ \A r \in Request :
                         certificate'[r] # job'[o].serial /\ held'[r] # job'[o].serial
  <2>1. job'[o].serial <= serials BY <1>3, <1>4 DEF PairInv
  <2>2. ASSUME job'[o] # P!Idle
        PROVE  /\ \A p \in Operator \ {o} : job'[p].serial # job'[o].serial
               /\ \A r \in Request :
                     certificate'[r] # job'[o].serial /\ held'[r] # job'[o].serial
    <3>1. job'[o] = job[o] /\ job[o] # P!Idle /\ job[o].serial # 0 BY <1>1, <1>2, <2>2
    <3> QED BY <1>4, <3>1 DEF PairInv
  <2> QED BY <2>1, <2>2
<1> QED BY <1>5, <1>6, <1>7, <1>8 DEF PairInv

\* Every step keeps it.
LEMMA PairStep == ASSUME P!TypeOK, PairInv, [P!Next]_(P!vars) PROVE PairInv'
<1> USE DEF P!TypeOK, P!rowVars
<1>1. ASSUME NEW r \in Request, P!BeginSweep(r) PROVE PairInv'
  <2>1. \A q \in Request : status[q] = "none" => status'[q] = "none"
    BY <1>1 DEF P!BeginSweep, P!ExpireDue, P!Waiting
  <2>2. \A q \in Request : place[q] = "begun" <=> place'[q] = "begun" BY <1>1 DEF P!BeginSweep
  <2> QED BY <1>1, <2>1, <2>2, PairElsewhere DEF P!BeginSweep, PairInv
<1>2. ASSUME NEW r \in Request, P!BeginPurge(r) PROVE PairInv'
  <2>1. \A q \in Request : status[q] = "none" => status'[q] = "none"
    BY <1>2 DEF P!BeginPurge
  <2>2. \A q \in Request : place[q] = "begun" <=> place'[q] = "begun" BY <1>2 DEF P!BeginPurge
  <2>3. \A q \in Request : certificate'[q] \in {certificate[q], P!None}
    BY <1>2 DEF P!BeginPurge
  <2>4. UNCHANGED <<serials, job, watch, held>> BY <1>2 DEF P!BeginPurge
  <2> QED BY <2>1, <2>2, <2>3, <2>4, PairElsewhere DEF PairInv
<1>3. ASSUME NEW r \in Request, P!BeginCount(r) PROVE PairInv'
  <2>1. \A q \in Request : place[q] = "begun" <=> place'[q] = "begun" BY <1>3 DEF P!BeginCount
  <2> QED BY <1>3, <2>1, PairElsewhere DEF P!BeginCount
<1>4. ASSUME NEW r \in Request, P!BeginInsert(r) PROVE PairInv'
  <2>1. watch[r] = "off" BY <1>4 DEF P!BeginInsert, PairInv
  <2> QED BY <1>4, <2>1, PairElsewhere DEF P!BeginInsert
<1>5. ASSUME NEW r \in Request, P!Deny(r) \/ P!WatchMark(r) \/ P!WatchLost(r) PROVE PairInv'
  <2>1. place[r] = "begun"
    BY <1>5 DEF P!Deny, P!WatchMark, P!WatchLost, P!Waiting, PairInv
  <2> QED
    BY <1>5, <2>1, PairElsewhere DEF P!Deny, P!WatchMark, P!WatchLost, P!ExpireOne
<1>6. ASSUME NEW r \in Request, P!WatchPoll(r) PROVE PairInv'
  <2>1. place[r] = "begun" BY <1>6 DEF P!WatchPoll, PairInv
  <2>2. status[r] = "approved" => watch'[r] = "ended" BY <1>6 DEF P!WatchPoll, P!Waiting
  <2> QED BY <1>6, <2>1, <2>2, PairElsewhere DEF P!WatchPoll
<1>7. ASSUME NEW r \in Request, P!Tick(r) PROVE PairInv' BY <1>7, PairElsewhere DEF P!Tick
<1>8. ASSUME P!List PROVE PairInv'
  <2>1. \A q \in Request : status[q] = "none" => status'[q] = "none"
    BY <1>8 DEF P!List, P!ExpireDue, P!Waiting
  <2> QED BY <1>8, <2>1, PairElsewhere DEF P!List, PairInv
<1>9. ASSUME NEW o \in Operator, NEW r \in Request, P!ApproveLate(o, r) PROVE PairInv'
  <2>1. place[r] = "begun" BY <1>9 DEF P!ApproveLate, P!Waiting, PairInv
  <2> QED BY <1>9, <2>1, PairElsewhere DEF P!ApproveLate, P!ExpireOne
<1>10. ASSUME NEW o \in Operator, P!ApproveFails(o) PROVE PairInv'
  BY <1>10, PairElsewhere DEF P!ApproveFails
<1>11. ASSUME NEW k \in Key, P!Revoke(k) PROVE PairInv' BY <1>11, PairElsewhere DEF P!Revoke
<1>12. ASSUME NEW o \in Operator, NEW r \in Request, P!ApproveRead(o, r) PROVE PairInv'
  <2>1. /\ serials' = serials + 1 /\ serials \in Nat
        /\ job'[o].serial = serials + 1 /\ \A p \in Operator \ {o} : job'[p] = job[p]
        /\ UNCHANGED <<place, status, certificate, watch, held>>
    BY <1>12 DEF P!ApproveRead
  <2>2. \A p \in Operator : job[p].serial \in Nat /\ job[p].serial <= serials
    BY DEF PairInv, P!Serial, P!Idle, P!None
  <2>3. \A q \in Request : /\ certificate[q] \in Nat /\ certificate[q] <= serials
                           /\ held[q] \in Nat /\ held[q] <= serials
    BY DEF PairInv, P!Serial, P!None
  <2>4. \A p \in Operator :
           /\ job'[p].serial <= serials'
           /\ job'[p] # P!Idle =>
                 /\ \A q \in Operator \ {p} : job'[q].serial # job'[p].serial
                 /\ \A q \in Request :
                       certificate'[q] # job'[p].serial /\ held'[q] # job'[p].serial
    BY <2>1, <2>2, <2>3 DEF PairInv
  <2> QED BY <2>1, <2>3, <2>4 DEF PairInv
<1>13. ASSUME NEW o \in Operator, P!ApproveCommit(o) PROVE PairInv'
  <2> DEFINE r == job[o].request n == job[o].serial
  <2>1. /\ job[o] # P!Idle /\ n \in 1 .. MaxSerial /\ r \in Request
        /\ job'[o] = P!Idle /\ \A p \in Operator \ {o} : job'[p] = job[p]
        /\ UNCHANGED <<place, serials, watch, held>>
    BY <1>13 DEF P!ApproveCommit, P!Serial
  <2>2. \A q \in Request : certificate'[q] = certificate[q] \/ certificate'[q] = n
    BY <1>13, <2>1 DEF P!ApproveCommit
  <2>3. \A q \in Request : status[q] = "none" => status'[q] = "none"
    BY <1>13, <2>1 DEF P!ApproveCommit, P!Waiting
  <2>4. n <= serials /\ \A p \in Operator \ {o} : job[p].serial # n BY <2>1 DEF PairInv
  <2>5. P!Idle.serial = 0 /\ serials \in Nat BY DEF P!Idle, P!None
  <2> HIDE DEF r, n
  <2>6. \A p \in Operator :
           /\ job'[p].serial <= serials'
           /\ job'[p] # P!Idle =>
                 /\ \A q \in Operator \ {p} : job'[q].serial # job'[p].serial
                 /\ \A q \in Request :
                       certificate'[q] # job'[p].serial /\ held'[q] # job'[p].serial
    <3> SUFFICES ASSUME NEW p \in Operator
                 PROVE  /\ job'[p].serial <= serials'
                        /\ job'[p] # P!Idle =>
                              /\ \A q \in Operator \ {p} : job'[q].serial # job'[p].serial
                              /\ \A q \in Request :
                                    certificate'[q] # job'[p].serial /\ held'[q] # job'[p].serial
      OBVIOUS
    <3>1. CASE p = o BY <2>1, <2>5, <3>1
    <3>2. CASE p # o
      <4>1. job'[p] = job[p] /\ job[p].serial # n BY <2>1, <2>4, <3>2
      <4>2. job[p] # P!Idle => job[p].serial # 0 BY DEF P!Serial
      <4>3. job'[o].serial = 0 BY <2>1, <2>5
      <4> QED BY <2>1, <2>2, <4>1, <4>2, <4>3 DEF PairInv
    <3> QED BY <3>1, <3>2
  <2> QED BY <2>1, <2>2, <2>3, <2>4, <2>6 DEF PairInv
<1>14. CASE UNCHANGED P!vars BY <1>14 DEF P!vars, PairInv
<1> QED
  BY <1>1, <1>2, <1>3, <1>4, <1>5, <1>6, <1>7, <1>8, <1>9, <1>10, <1>11, <1>12, <1>13, <1>14
  DEF P!Next, P!Begin, P!Watch

\* Every reachable state has it.
LEMMA PairHolds == P!Spec => []PairInv
<1>1. P!Init => PairInv
  BY DEF P!Init, PairInv, P!None, P!Idle
<1>2. P!TypeOK /\ PairInv /\ [P!Next]_(P!vars) => PairInv' BY PairStep
<1> QED BY <1>1, <1>2, PairingWellTyped, PTL DEF P!Spec

\* A settled request stays settled: no approval, denial or sweep turns one
\* outcome into another (PairingApprove, PairingDeny, pairingScan).
THEOREM SettledRequestsStay == P!Spec => P!SettledForGood
<1> DEFINE Settled(r) == status[r] \in {"approved", "denied", "expired"}
           Stays(r) == status'[r] \in {status[r], "purged"}
<1>1. ASSUME P!TypeOK, PairInv, [P!Next]_(P!vars), NEW r \in Request, Settled(r)
      PROVE  Stays(r)
  <2> USE <1>1 DEF P!TypeOK, P!rowVars
  <2>1. status[r] # "none" /\ status[r] # "waiting" /\ place[r] = "begun" BY DEF PairInv
  <2>2. ASSUME NEW q \in Request, P!BeginInsert(q) PROVE Stays(r)
    BY <2>1, <2>2 DEF P!BeginInsert
  <2>3. ASSUME NEW q \in Request, P!BeginPurge(q) PROVE Stays(r) BY <2>3 DEF P!BeginPurge
  <2>4. CASE P!ExpireDue BY <2>1, <2>4 DEF P!ExpireDue, P!Waiting
  <2>5. ASSUME NEW q \in Request, P!ExpireOne(q) PROVE Stays(r)
    BY <2>1, <2>5 DEF P!ExpireOne
  <2>6. ASSUME NEW q \in Request, P!Deny(q) PROVE Stays(r)
    BY <2>1, <2>6 DEF P!Deny, P!Waiting
  <2>7. ASSUME NEW o \in Operator, P!ApproveCommit(o) PROVE Stays(r)
    BY <2>1, <2>7 DEF P!ApproveCommit, P!Waiting
  <2>8. CASE UNCHANGED status BY <2>8
  <2> QED
    BY <2>2, <2>3, <2>4, <2>5, <2>6, <2>7, <2>8
    DEF P!Next, P!Begin, P!Watch, P!vars, P!BeginSweep, P!BeginCount, P!WatchPoll, P!WatchMark,
        P!WatchLost, P!Tick, P!List, P!ApproveRead, P!ApproveLate, P!ApproveFails, P!Revoke
<1>2. P!TypeOK /\ PairInv /\ [P!Next]_(P!vars)
         => [\A r \in Request : Settled(r) => Stays(r)]_(P!vars)
  BY <1>1
<1> QED BY <1>2, PairingWellTyped, PairHolds, PTL DEF P!Spec, P!SettledForGood

\* A certificate that stopped being admitted is never admitted again: what is
\* registered for a key is only ever replaced by one that no device holds yet
\* (PairingApprove, ClientRevoke, ClientAuthenticate).
THEOREM CertificatesStayRefused == P!Spec => P!NoReturn
<1>1. ASSUME P!TypeOK, PairInv, [P!Next]_(P!vars), NEW r \in Request,
             held[r] # P!None, ~P!Admits(key[r], held[r])
      PROVE  ~P!Admits(key[r], held[r])'
  <2> USE <1>1 DEF P!TypeOK, P!rowVars
  <2>1. held'[r] = held[r] /\ key'[r] = key[r] /\ key[r] \in Key
    <3>1. watch[r] = "ended" BY DEF PairInv
    <3> QED
      BY <3>1
      DEF P!Next, P!Begin, P!Watch, P!vars, P!BeginSweep, P!BeginPurge, P!BeginCount,
          P!BeginInsert, P!Deny, P!WatchPoll, P!WatchMark, P!WatchLost, P!Tick, P!List,
          P!ApproveRead, P!ApproveLate, P!ApproveFails, P!ApproveCommit, P!Revoke
  <2>2. CASE UNCHANGED clients BY <2>1, <2>2 DEF P!Admits
  <2>3. ASSUME NEW k \in Key, P!Revoke(k) PROVE ~P!Admits(key[r], held[r])'
    <3>1. clients[k] \in [serial : P!Serial, revoked : BOOLEAN] BY <2>3 DEF P!Revoke
    <3>2. /\ clients'[k].serial = clients[k].serial /\ clients'[k].revoked
          /\ \A j \in Key \ {k} : clients'[j] = clients[j]
      BY <2>3, <3>1 DEF P!Revoke
    <3> QED BY <2>1, <3>2 DEF P!Admits
  <2>4. ASSUME NEW o \in Operator, P!ApproveCommit(o) PROVE ~P!Admits(key[r], held[r])'
    <3>1. job[o] # P!Idle /\ job[o].request \in Request BY <2>4 DEF P!ApproveCommit
    <3>2. held[r] # job[o].serial BY <3>1 DEF PairInv
    <3>3. /\ clients'[key[job[o].request]].serial = job[o].serial
          /\ \A j \in Key \ {key[job[o].request]} : clients'[j] = clients[j]
      BY <2>4, <3>1 DEF P!ApproveCommit
    <3> QED BY <2>1, <3>2, <3>3 DEF P!Admits
  <2> QED
    BY <2>2, <2>3, <2>4
    DEF P!Next, P!Begin, P!Watch, P!vars, P!BeginSweep, P!BeginPurge, P!BeginCount,
        P!BeginInsert, P!Deny, P!WatchPoll, P!WatchMark, P!WatchLost, P!Tick, P!List,
        P!ApproveRead, P!ApproveLate, P!ApproveFails
<1>2. P!TypeOK /\ PairInv /\ [P!Next]_(P!vars)
         => [\A r \in Request : held[r] # P!None /\ ~P!Admits(key[r], held[r])
                                   => ~P!Admits(key[r], held[r])']_(P!vars)
  BY <1>1
<1> QED BY <1>2, PairingWellTyped, PairHolds, PTL DEF P!Spec, P!NoReturn


-----------------------------------------------------------------------------
(* The daemon: types *)

\* As much of the types as the proofs need.
ServeTypes ==
    /\ main \in {"starting", "serving", "waiting", "closing", "exited"}
    /\ grpcOnly \in BOOLEAN /\ stop \in BOOLEAN /\ running \in BOOLEAN
    /\ server \in [D!Server -> D!Place]
    /\ results \in Seq(D!Result)
    /\ outcome \in D!Result \cup {"none"}
    /\ bots \subseteq tried /\ tried \subseteq Bot
    /\ chat \in [Chat -> {"none", "running", "answered", "cut", "lost"}]
    /\ completion \in [Completion -> {"none", "running", "answered", "shed", "lost"}]

\* Every step keeps them.
LEMMA ServeTypesStep == ASSUME ServeTypes, [D!Next]_(D!vars) PROVE ServeTypes'
<1> USE DEF ServeTypes, D!Result, D!Place
<1>1. \A e \in D!Result : Append(results, e) \in Seq(D!Result) OBVIOUS
<1>2. results # <<>> => Head(results) \in D!Result /\ Tail(results) \in Seq(D!Result) OBVIOUS
<1>3. CASE D!Signal BY <1>3 DEF D!Signal, D!serverVars, D!callVars
<1>4. CASE D!StartServers BY <1>4 DEF D!StartServers, D!Server, D!callVars
<1>5. CASE D!FirstResult BY <1>2, <1>5 DEF D!FirstResult, D!callVars
<1>6. CASE D!SecondResult BY <1>2, <1>6 DEF D!SecondResult, D!callVars
<1>7. CASE D!Exit BY <1>7 DEF D!Exit, D!Drop, D!serverVars
<1>8. ASSUME NEW b \in Bot, D!StartBot(b) \/ D!StopBot(b) PROVE ServeTypes'
  BY <1>8 DEF D!StartBot, D!StopBot, D!serverVars, D!callVars
<1>9. ASSUME NEW s \in D!Server, D!Goroutine(s) PROVE ServeTypes'
  BY <1>1, <1>9 DEF D!Goroutine, D!Listen, D!AcceptFails, D!Drain, D!Drained, D!Returns,
                    D!mainVars, D!callVars
<1>10. CASE D!Timers
  BY <1>1, <1>10 DEF D!Timers, D!ForceStop, D!ShutdownExpires, D!Returns, D!Drop, D!mainVars,
                     D!callVars
<1>11. CASE D!Calls
  BY <1>11 DEF D!Calls, D!ChatBegins, D!ChatEnds, D!CompletionBegins, D!CompletionEnds,
               D!mainVars, D!serverVars
<1>12. CASE UNCHANGED D!vars BY <1>12 DEF D!vars, D!mainVars, D!serverVars, D!callVars
<1> QED BY <1>3, <1>4, <1>5, <1>6, <1>7, <1>8, <1>9, <1>10, <1>11, <1>12 DEF D!Next, D!Main

\* Every reachable state has these types.
LEMMA ServeTypesHold == D!Spec => []ServeTypes
<1>1. D!Init => ServeTypes
  <2> SUFFICES ASSUME D!Init PROVE ServeTypes OBVIOUS
  <2>1. results \in Seq(D!Result) BY DEF D!Init
  <2> QED BY <2>1 DEF D!Init, ServeTypes, D!Place
<1>2. ServeTypes /\ [D!Next]_(D!vars) => ServeTypes' BY ServeTypesStep
<1> QED BY <1>1, <1>2, PTL DEF D!Spec

-----------------------------------------------------------------------------
(* main and its two servers *)

\* One for a server whose goroutine has returned.
Returned(s) == IF server[s] \in {"ended", "expired", "broken"} THEN 1 ELSE 0

\* Each server puts one result into the channel, of which main takes as many as
\* it has servers; and as long as nothing was told to stop no server drains, so
\* that none has ended well.
ServeLife ==
    /\ Len(results) <= Returned("grpc") + Returned("http")
    /\ main \in {"starting", "serving"} =>
          running /\ Len(results) = Returned("grpc") + Returned("http")
    /\ main = "waiting" =>
          /\ ~grpcOnly /\ outcome # "none"
          /\ Len(results) = Returned("grpc") + Returned("http") - 1
    /\ main = "starting" => \A s \in D!Server : server[s] = "off"
    /\ main # "starting" /\ grpcOnly => server["http"] = "off"
    /\ main \in {"closing", "exited"} =>
          \A s \in D!Server : server[s] \notin {"listening", "serving", "draining"}
    /\ ~stop => outcome # "ok"
    /\ ~stop /\ running =>
          /\ \A i \in 1 .. Len(results) : results[i] = "error"
          /\ \A s \in D!Server : server[s] # "draining"

\* A step that leaves both alone.
LEMMA LifeElsewhere ==
    ASSUME ServeTypes, ServeLife, UNCHANGED <<main, grpcOnly, running, server, results, outcome>>,
           stop => stop'
    PROVE  ServeLife'
BY DEF ServeTypes, ServeLife, Returned

\* A server returns: with a result, and with an error unless it drained.
LEMMA LifeReturns ==
    ASSUME ServeTypes, ServeLife, UNCHANGED D!mainVars,
           NEW s \in D!Server, server[s] \in {"listening", "serving", "draining"},
           main # "exited",
           NEW to \in {"ended", "expired", "broken"}, NEW result \in D!Result,
           D!Returns(s, to, result), result = "ok" => server[s] = "draining"
    PROVE  ServeLife'
<1> USE DEF ServeTypes, D!Server
<1>1. /\ Len(results) \in Nat /\ Len(results') = Len(results) + 1
      /\ \A i \in 1 .. Len(results) : results'[i] = results[i]
      /\ results'[Len(results) + 1] = result
      /\ \A i \in 1 .. Len(results') : i \in 1 .. Len(results) \/ i = Len(results) + 1
  BY DEF D!Returns
<1>2. /\ server'[s] = to /\ \A t \in D!Server \ {s} : server'[t] = server[t]
      /\ UNCHANGED <<main, grpcOnly, stop, running, outcome>>
  BY DEF D!Returns, D!mainVars
<1>3. Returned("grpc")' + Returned("http")' = Returned("grpc") + Returned("http") + 1
  BY <1>2 DEF Returned
<1>4. Returned("grpc") \in 0 .. 1 /\ Returned("http") \in 0 .. 1
      /\ Returned("grpc")' \in 0 .. 1 /\ Returned("http")' \in 0 .. 1
  BY DEF Returned
<1>5. /\ Len(results') <= Returned("grpc")' + Returned("http")'
      /\ main' \in {"starting", "serving"} =>
            running' /\ Len(results') = Returned("grpc")' + Returned("http")'
      /\ main' = "waiting" =>
            /\ ~grpcOnly' /\ outcome' # "none"
            /\ Len(results') = Returned("grpc")' + Returned("http")' - 1
  BY <1>1, <1>2, <1>3, <1>4 DEF ServeLife
<1>6. main \in {"serving", "waiting"} BY DEF ServeLife
<1>7. main' # "starting" /\ grpcOnly' => server'["http"] = "off"
  BY <1>2, <1>6 DEF ServeLife
<1>8. ~stop' /\ running' =>
         /\ \A i \in 1 .. Len(results') : results'[i] = "error"
         /\ \A t \in D!Server : server'[t] # "draining"
  BY <1>1, <1>2 DEF ServeLife, D!Result
<1>9. ~stop' => outcome' # "ok" BY <1>2 DEF ServeLife
<1> QED BY <1>2, <1>5, <1>6, <1>7, <1>8, <1>9 DEF ServeLife

\* Every step keeps it.
LEMMA LifeStep == ASSUME ServeTypes, ServeLife, [D!Next]_(D!vars) PROVE ServeLife'
<1>1. CASE D!Signal BY <1>1, LifeElsewhere DEF D!Signal, D!serverVars
<1>2. ASSUME NEW b \in Bot, D!StartBot(b) PROVE ServeLife'
  <2>1. CASE UNCHANGED <<main, outcome>>
    BY <1>2, <2>1, LifeElsewhere DEF D!StartBot, D!serverVars
  <2>2. CASE main' = "closing" /\ outcome' = "error"
    <3>1. /\ main = "starting" /\ running /\ \A s \in D!Server : server[s] = "off"
          /\ UNCHANGED <<grpcOnly, stop, running, server, results>>
      BY <1>2 DEF D!StartBot, D!serverVars, ServeLife
    <3>2. server["http"] = "off" BY <3>1 DEF D!Server
    <3>3. /\ Returned("grpc")' = Returned("grpc") /\ Returned("http")' = Returned("http")
          /\ \A s \in D!Server : server'[s] = "off"
      BY <3>1 DEF Returned
    <3> QED BY <2>2, <3>1, <3>2, <3>3 DEF ServeLife
  <2> QED BY <1>2, <2>1, <2>2 DEF D!StartBot
<1>3. CASE D!StartServers
  <2>1. /\ main = "starting" /\ main' = "serving"
        /\ UNCHANGED <<grpcOnly, stop, running, outcome, results>>
        /\ server' = [s \in D!Server |-> IF s = "http" /\ grpcOnly THEN "off" ELSE "listening"]
    BY <1>3 DEF D!StartServers
  <2>2. \A s \in D!Server : server[s] = "off" /\ server'[s] \in {"off", "listening"}
    BY <2>1 DEF ServeLife
  <2>3. Returned("grpc") = 0 /\ Returned("http") = 0 /\ Returned("grpc")' = 0 /\ Returned("http")' = 0
    BY <2>2 DEF Returned, D!Server
  <2>4. grpcOnly => server'["http"] = "off" BY <2>1 DEF D!Server
  <2> QED BY <2>1, <2>2, <2>3, <2>4 DEF ServeLife
<1>4. ASSUME D!FirstResult \/ D!SecondResult PROVE ServeLife'
  <2>1. /\ main \in {"serving", "waiting"} /\ results # <<>>
        /\ results' = Tail(results) /\ UNCHANGED <<grpcOnly, stop, server>>
    BY <1>4 DEF D!FirstResult, D!SecondResult
  <2>2. /\ Len(results) \in Nat /\ Len(results) > 0 /\ Len(results') = Len(results) - 1
        /\ \A i \in 1 .. Len(results') : results'[i] = results[i + 1] /\ i + 1 \in 1 .. Len(results)
        /\ Head(results) = results[1] /\ 1 \in 1 .. Len(results)
        /\ Head(results) \in D!Result
    BY <2>1 DEF ServeTypes
  <2>3. /\ Returned("grpc") \in 0 .. 1 /\ Returned("http") \in 0 .. 1
        /\ Returned("grpc")' = Returned("grpc") /\ Returned("http")' = Returned("http")
    BY <2>1 DEF Returned
  <2>4. Len(results') <= Returned("grpc")' + Returned("http")'
    BY <2>2, <2>3 DEF ServeLife
  <2>5. running' => running
    BY <1>4 DEF D!FirstResult, D!SecondResult
  <2>6. ~stop /\ running => \A i \in 1 .. Len(results') : results'[i] = "error"
    BY <2>2 DEF ServeLife
  <2>7. outcome' # "none" /\ (~stop => outcome' # "ok")
    <3>1. CASE D!FirstResult
      <4>1. main = "serving" /\ outcome' = Head(results) BY <3>1 DEF D!FirstResult
      <4> QED BY <2>2, <4>1 DEF ServeLife, D!Result
    <3>2. CASE D!SecondResult
      <4>1. main = "waiting" /\ outcome' = IF outcome = "error" THEN outcome ELSE Head(results)
        BY <3>2 DEF D!SecondResult
      <4>2. ~stop => outcome = "error" BY <4>1 DEF ServeLife, ServeTypes, D!Result
      <4> QED BY <2>2, <4>1, <4>2 DEF D!Result
    <3> QED BY <1>4, <3>1, <3>2
  <2>8. CASE main' = "waiting"
    <3>1. main = "serving" /\ ~grpcOnly BY <1>4, <2>8 DEF D!FirstResult, D!SecondResult
    <3>2. Len(results') = Returned("grpc")' + Returned("http")' - 1
      BY <2>2, <2>3, <3>1 DEF ServeLife
    <3> QED BY <2>1, <2>4, <2>5, <2>6, <2>7, <2>8, <3>1, <3>2 DEF ServeLife
  <2>9. CASE main' = "closing"
    <3>1. CASE main = "serving"
      <4>1. grpcOnly BY <1>4, <2>9, <3>1 DEF D!FirstResult, D!SecondResult
      <4>2. server["http"] = "off" /\ Returned("http") = 0
        BY <3>1, <4>1 DEF ServeLife, Returned
      <4>3. Returned("grpc") = 1 BY <2>2, <2>3, <4>2 DEF ServeLife
      <4> QED
        BY <2>1, <2>4, <2>5, <2>6, <2>7, <2>9, <3>1, <4>2, <4>3
        DEF ServeLife, Returned, D!Server
    <3>2. CASE main = "waiting"
      <4>1. Returned("grpc") = 1 /\ Returned("http") = 1
        BY <2>2, <2>3, <3>2 DEF ServeLife
      <4> QED
        BY <2>1, <2>4, <2>5, <2>6, <2>7, <2>9, <3>2, <4>1
        DEF ServeLife, Returned, D!Server
    <3> QED BY <2>1, <3>1, <3>2
  <2> QED BY <1>4, <2>8, <2>9 DEF D!FirstResult, D!SecondResult
<1>5. CASE D!Exit
  BY <1>5 DEF D!Exit, D!serverVars, ServeLife, Returned
<1>6. ASSUME NEW b \in Bot, D!StopBot(b) PROVE ServeLife'
  BY <1>6, LifeElsewhere DEF D!StopBot, D!serverVars
<1>7. ASSUME NEW s \in D!Server, D!Listen(s) PROVE ServeLife'
  <2>1. CASE server' = [server EXCEPT ![s] = "serving"] /\ UNCHANGED results
    <3>1. /\ server[s] = "listening" /\ main # "exited" /\ UNCHANGED D!mainVars
      BY <1>7 DEF D!Listen, D!Alive
    <3>2. main \in {"serving", "waiting"} BY <3>1 DEF ServeLife, ServeTypes
    <3>3. Returned("grpc")' = Returned("grpc") /\ Returned("http")' = Returned("http")
      BY <2>1, <3>1 DEF Returned, ServeTypes, D!Server
    <3>4. \A t \in D!Server : server'[t] = server[t] \/ (t = s /\ server'[t] = "serving")
      BY <2>1 DEF ServeTypes
    <3>5. grpcOnly => server'["http"] = "off"
      BY <3>1, <3>2, <3>4 DEF ServeLife, D!Server
    <3> QED BY <2>1, <3>1, <3>2, <3>3, <3>4, <3>5 DEF ServeLife, D!mainVars
  <2>2. CASE D!Returns(s, "ended", "error")
    BY <1>7, <2>2, LifeReturns DEF D!Listen, D!Alive, D!Result
  <2> QED BY <1>7, <2>1, <2>2 DEF D!Listen
<1>8. ASSUME NEW s \in D!Server, D!AcceptFails(s) PROVE ServeLife'
  BY <1>8, LifeReturns DEF D!AcceptFails, D!Alive, D!Result
<1>9. ASSUME NEW s \in D!Server, D!Drain(s) PROVE ServeLife'
  <2>1. /\ server[s] = "serving" /\ main # "exited" /\ UNCHANGED <<D!mainVars, results>>
        /\ server' = [server EXCEPT ![s] = "draining"] /\ (stop \/ ~running)
    BY <1>9 DEF D!Drain, D!Alive, D!Stopping
  <2>2. main \in {"serving", "waiting"} BY <2>1 DEF ServeLife, ServeTypes
  <2>3. Returned("grpc")' = Returned("grpc") /\ Returned("http")' = Returned("http")
    BY <2>1 DEF Returned, ServeTypes, D!Server
  <2>4. \A t \in D!Server : server'[t] = server[t] \/ (t = s /\ server'[t] = "draining")
    BY <2>1 DEF ServeTypes
  <2>5. grpcOnly => server'["http"] = "off"
    BY <2>1, <2>2, <2>4 DEF ServeLife, D!Server
  <2> QED BY <2>1, <2>2, <2>3, <2>4, <2>5 DEF ServeLife, D!mainVars
<1>10. ASSUME NEW s \in D!Server, D!Drained(s) PROVE ServeLife'
  BY <1>10, LifeReturns DEF D!Drained, D!Alive, D!Result
<1>11. CASE D!Timers
  <2>1. CASE D!ForceStop
    BY <2>1, LifeReturns DEF D!ForceStop, D!Alive, D!Result, D!Server
  <2>2. CASE D!ShutdownExpires
    BY <2>2, LifeReturns DEF D!ShutdownExpires, D!Alive, D!Result, D!Server
  <2> QED BY <1>11, <2>1, <2>2 DEF D!Timers
<1>12. CASE D!Calls
  BY <1>12, LifeElsewhere
  DEF D!Calls, D!ChatBegins, D!ChatEnds, D!CompletionBegins, D!CompletionEnds, D!mainVars,
      D!serverVars
<1>13. CASE UNCHANGED D!vars
  BY <1>13, LifeElsewhere DEF D!vars, D!mainVars, D!serverVars
<1> QED
  BY <1>1, <1>2, <1>3, <1>4, <1>5, <1>6, <1>7, <1>8, <1>9, <1>10, <1>11, <1>12, <1>13
  DEF D!Next, D!Main, D!Goroutine

-----------------------------------------------------------------------------
(* The calls, and the slots of the completions *)

\* A call runs only under a server that has served; it is cut or lost only when
\* that server's time was over or the server had failed.
CallsInv ==
    /\ \A c \in Chat :
          /\ chat[c] = "running" => server["grpc"] \in {"serving", "draining", "expired", "broken"}
          /\ chat[c] \in {"cut", "lost"} => server["grpc"] \in {"expired", "broken"}
    /\ \A k \in Completion :
          /\ completion[k] = "running" =>
                server["http"] \in {"serving", "draining", "expired", "broken"}
          /\ completion[k] = "lost" => server["http"] \in {"expired", "broken"}

\* Every step keeps it.
LEMMA CallsStep ==
    ASSUME ServeTypes, ServeLife, CallsInv, [D!Next]_(D!vars) PROVE CallsInv'
<1> USE DEF ServeTypes
<1>1. ASSUME UNCHANGED <<server, chat, completion>> PROVE CallsInv' BY <1>1 DEF CallsInv
<1>2. CASE D!StartServers
  <2>1. \A s \in D!Server : server[s] = "off" BY <1>2 DEF D!StartServers, ServeLife
  <2>2. UNCHANGED <<chat, completion>> BY <1>2 DEF D!StartServers, D!callVars
  <2> QED BY <2>1, <2>2 DEF CallsInv, D!Server
<1>3. CASE D!Exit
  <2>1. \A s \in D!Server : server[s] \notin {"listening", "serving", "draining"}
    BY <1>3 DEF D!Exit, ServeLife
  <2>2. UNCHANGED server BY <1>3 DEF D!Exit, D!serverVars
  <2>3. \A c \in Chat : chat'[c] = IF chat[c] = "running" THEN "lost" ELSE chat[c]
    BY <1>3 DEF D!Exit, D!Drop
  <2>4. \A k \in Completion :
           completion'[k] = IF completion[k] = "running" THEN "lost" ELSE completion[k]
    BY <1>3 DEF D!Exit, D!Drop
  <2> QED BY <2>1, <2>2, <2>3, <2>4 DEF CallsInv, D!Server
<1>4. ASSUME NEW s \in D!Server, NEW to \in {"serving", "ended"},
             server[s] = "listening", server' = [server EXCEPT ![s] = to],
             UNCHANGED <<chat, completion>>
      PROVE  CallsInv'
  BY <1>4 DEF CallsInv, D!Server
<1>5. ASSUME NEW s \in D!Server, NEW to \in {"draining", "broken", "expired"},
             server[s] \in {"serving", "draining"}, server' = [server EXCEPT ![s] = to],
             UNCHANGED <<chat, completion>>
      PROVE  CallsInv'
  BY <1>5 DEF CallsInv, D!Server
<1>6. ASSUME NEW s \in D!Server, D!Listen(s) PROVE CallsInv'
  BY <1>4, <1>6 DEF D!Listen, D!Alive, D!Returns, D!callVars
<1>7. ASSUME NEW s \in D!Server, D!AcceptFails(s) \/ D!Drain(s) PROVE CallsInv'
  BY <1>5, <1>7 DEF D!AcceptFails, D!Drain, D!Alive, D!Returns, D!callVars
<1>8. ASSUME NEW s \in D!Server, D!Drained(s) PROVE CallsInv'
  <2>1. /\ server[s] = "draining" /\ server' = [server EXCEPT ![s] = "ended"]
        /\ UNCHANGED <<chat, completion>>
    BY <1>8 DEF D!Drained, D!Alive, D!Returns, D!callVars
  <2>2. s = "grpc" => \A c \in Chat : chat[c] # "running" BY <1>8 DEF D!Drained, D!Running
  <2>3. s # "grpc" => \A k \in Completion : completion[k] # "running"
    BY <1>8 DEF D!Drained, D!Running
  <2> QED BY <2>1, <2>2, <2>3 DEF CallsInv, D!Server
<1>9. CASE D!ForceStop
  <2>1. /\ server["grpc"] = "draining" /\ server' = [server EXCEPT !["grpc"] = "expired"]
        /\ UNCHANGED completion
    BY <1>9 DEF D!ForceStop, D!Alive, D!Returns
  <2> QED BY <2>1 DEF CallsInv, D!Server
<1>10. CASE D!ShutdownExpires
  BY <1>5, <1>10 DEF D!ShutdownExpires, D!Alive, D!Returns, D!callVars, D!Server
<1>11. CASE D!Calls
  BY <1>11
  DEF CallsInv, D!Calls, D!ChatBegins, D!ChatEnds, D!CompletionBegins, D!CompletionEnds,
      D!Takes, D!serverVars
<1>12. CASE UNCHANGED D!vars BY <1>1, <1>12 DEF D!vars, D!serverVars, D!callVars
<1> QED
  BY <1>1, <1>2, <1>3, <1>6, <1>7, <1>8, <1>9, <1>10, <1>11, <1>12
  DEF D!Next, D!Main, D!Goroutine, D!Timers, D!Signal, D!FirstResult, D!SecondResult, D!StartBot,
      D!StopBot, D!serverVars, D!callVars

\* The slots that are taken are those of the handlers that run, until the
\* process is over, which is with no bot connected.
SlotsInv ==
    /\ taken \in 0 .. Slots
    /\ main # "exited" => /\ IsFiniteSet(D!Running(completion))
                          /\ taken = Cardinality(D!Running(completion))
    /\ main = "exited" => bots = {}

\* Every step keeps it.
LEMMA SlotsStep == ASSUME ServeTypes, SlotsInv, [D!Next]_(D!vars) PROVE SlotsInv'
<1> USE DEF ServeTypes
<1>1. ASSUME UNCHANGED <<taken, completion>>, main' = "exited" <=> main = "exited",
             bots' \subseteq bots \/ main # "exited"
      PROVE  SlotsInv'
  BY <1>1 DEF SlotsInv, D!Running
<1>2. CASE D!Exit BY <1>2 DEF D!Exit, SlotsInv
<1>3. ASSUME NEW k \in Completion, D!CompletionBegins(k) PROVE SlotsInv'
  <2>1. main # "exited" /\ completion[k] = "none" /\ UNCHANGED <<main, bots>>
    BY <1>3 DEF D!CompletionBegins, D!Takes, D!mainVars
  <2>2. CASE taken < Slots
    <3>1. taken' = taken + 1 /\ completion' = [completion EXCEPT ![k] = "running"]
      BY <1>3, <2>2 DEF D!CompletionBegins
    <3>2. D!Running(completion)' = D!Running(completion) \cup {k} /\ k \notin D!Running(completion)
      BY <2>1, <3>1 DEF D!Running
    <3>3. /\ IsFiniteSet(D!Running(completion) \cup {k})
          /\ Cardinality(D!Running(completion) \cup {k}) = Cardinality(D!Running(completion)) + 1
      BY <2>1, <3>2, FS_AddElement DEF SlotsInv
    <3>4. taken' \in 0 .. Slots BY <2>2, <3>1, ChatAssumption DEF SlotsInv
    <3> QED BY <2>1, <3>1, <3>2, <3>3, <3>4 DEF SlotsInv
  <2>3. CASE ~(taken < Slots)
    <3>1. UNCHANGED taken /\ completion' = [completion EXCEPT ![k] = "shed"]
      BY <1>3, <2>3 DEF D!CompletionBegins
    <3>2. D!Running(completion)' = D!Running(completion) BY <2>1, <3>1 DEF D!Running
    <3> QED BY <2>1, <3>1, <3>2 DEF SlotsInv
  <2> QED BY <2>2, <2>3
<1>4. ASSUME NEW k \in Completion, D!CompletionEnds(k) PROVE SlotsInv'
  <2>1. /\ main # "exited" /\ completion[k] = "running" /\ UNCHANGED <<main, bots>>
        /\ taken' = taken - 1 /\ completion' = [completion EXCEPT ![k] = "answered"]
    BY <1>4 DEF D!CompletionEnds, D!mainVars
  <2>2. D!Running(completion)' = D!Running(completion) \ {k} /\ k \in D!Running(completion)
    BY <2>1 DEF D!Running
  <2>3. /\ IsFiniteSet(D!Running(completion) \ {k})
        /\ Cardinality(D!Running(completion) \ {k}) = Cardinality(D!Running(completion)) - 1
    BY <2>1, <2>2, FS_RemoveElement DEF SlotsInv
  <2>4. Cardinality(D!Running(completion) \ {k}) \in Nat BY <2>3, FS_CardinalityType
  <2>5. taken' = Cardinality(D!Running(completion) \ {k}) BY <2>1, <2>3 DEF SlotsInv
  <2>6. taken' \in 0 .. Slots BY <2>1, <2>4, <2>5, ChatAssumption DEF SlotsInv
  <2> QED BY <2>1, <2>2, <2>3, <2>5, <2>6 DEF SlotsInv
<1>5. ASSUME NEW c \in Chat, D!ChatBegins(c) \/ D!ChatEnds(c) PROVE SlotsInv'
  BY <1>1, <1>5 DEF D!ChatBegins, D!ChatEnds, D!mainVars
<1>6. ASSUME NEW s \in D!Server, D!Goroutine(s) PROVE SlotsInv'
  BY <1>1, <1>6 DEF D!Goroutine, D!Listen, D!AcceptFails, D!Drain, D!Drained, D!mainVars,
                    D!callVars
<1>7. CASE D!Timers
  BY <1>1, <1>7 DEF D!Timers, D!ForceStop, D!ShutdownExpires, D!mainVars, D!callVars
<1>8. ASSUME D!Signal \/ D!StartServers \/ D!FirstResult \/ D!SecondResult PROVE SlotsInv'
  BY <1>1, <1>8 DEF D!Signal, D!StartServers, D!FirstResult, D!SecondResult, D!callVars
<1>9. ASSUME NEW b \in Bot, D!StartBot(b) \/ D!StopBot(b) PROVE SlotsInv'
  BY <1>1, <1>9 DEF D!StartBot, D!StopBot, D!callVars
<1>10. CASE UNCHANGED D!vars BY <1>1, <1>10 DEF D!vars, D!mainVars, D!callVars
<1> QED
  BY <1>2, <1>3, <1>4, <1>5, <1>6, <1>7, <1>8, <1>9, <1>10 DEF D!Next, D!Main, D!Calls

\* The daemon ends well only if it was told to stop, a call that was accepted
\* is cut short only when its own server's time was over or that server had
\* failed, and nothing stays taken or connected behind what has ended
\* (serveExecute, serveAll, limitConcurrent).
THEOREM DaemonServes == D!Spec => []D!ServeInv
<1>1. D!Init => ServeLife /\ CallsInv /\ SlotsInv
  <2> SUFFICES ASSUME D!Init PROVE ServeLife /\ CallsInv /\ SlotsInv OBVIOUS
  <2>1. Len(results) = 0 BY DEF D!Init
  <2>2. ServeLife BY <2>1 DEF D!Init, ServeLife, Returned, D!Server
  <2>3. CallsInv BY DEF D!Init, CallsInv
  <2>4. D!Running(completion) = {} BY DEF D!Init, D!Running
  <2>5. /\ IsFiniteSet(D!Running(completion)) /\ Cardinality(D!Running(completion)) = 0
        /\ 0 \in 0 .. Slots
    BY <2>4, FS_EmptySet, ChatAssumption
  <2>6. SlotsInv BY <2>5 DEF D!Init, SlotsInv
  <2> QED BY <2>2, <2>3, <2>6
<1>2. ServeTypes /\ ServeLife /\ CallsInv /\ SlotsInv /\ [D!Next]_(D!vars)
         => ServeLife' /\ CallsInv' /\ SlotsInv'
  BY LifeStep, CallsStep, SlotsStep
<1>3. ServeTypes /\ ServeLife /\ CallsInv /\ SlotsInv => D!ServeInv
  <2> SUFFICES ASSUME ServeTypes, ServeLife, CallsInv, SlotsInv PROVE D!ServeInv OBVIOUS
  <2>1. Len(results) <= 2
    <3>1. Len(results) \in Nat BY DEF ServeTypes
    <3>2. Returned("grpc") \in 0 .. 1 /\ Returned("http") \in 0 .. 1 BY DEF Returned
    <3> QED BY <3>1, <3>2 DEF ServeLife
  <2>2. D!TypeOK BY <2>1 DEF ServeTypes, SlotsInv, D!TypeOK
  <2>3. D!NothingKept
    <3>1. D!Cardinality(D!Running(completion)) = Cardinality(D!Running(completion))
      BY DEF D!Cardinality, Cardinality
    <3> QED BY <3>1 DEF SlotsInv, D!NothingKept
  <2>4. D!CleanExitMeansStopped BY DEF ServeLife, D!CleanExitMeansStopped
  <2>5. D!CutOnlyLate BY DEF CallsInv, D!CutOnlyLate
  <2> QED BY <2>2, <2>3, <2>4, <2>5 DEF D!ServeInv
<1> QED BY <1>1, <1>2, <1>3, ServeTypesHold, PTL DEF D!Spec


-----------------------------------------------------------------------------
(* The server *)

\* A behaviour of the server is one of each of its parts.
LEMMA ServicesBehave == RpcSpec => Spec /\ P!Spec /\ D!Spec
<1>1. RpcInit => Init /\ P!Init /\ D!Init BY DEF RpcInit
<1>2. [RpcNext]_<<service, vars, pairingVars, daemonVars>>
         => [Next]_vars /\ [P!Next]_(P!vars) /\ [D!Next]_(D!vars)
  BY DEF RpcNext, pairingVars, daemonVars, P!vars, P!rowVars, D!vars, D!mainVars, D!serverVars,
         D!callVars
<1> QED BY <1>1, <1>2, PTL DEF RpcSpec, Spec, P!Spec, D!Spec

\* The state of the services is well formed: slots and the gate belong to open
\* calls, no event answers two requests for a tool, and the daemon keeps what
\* it says (Chat, remoteToolExecute, serveExecute).
THEOREM ServerIsWellFormed == RpcSpec => []RpcInv
<1>1. TypeOK /\ HoldersAreOpen /\ AnswersInOrder /\ P!TypeOK /\ D!ServeInv => RpcInv
  BY DEF RpcInv
<1> QED
  BY <1>1, ServicesBehave, ChatsAreWellTyped, NothingHeldBehind, EachAnswerOnce,
     PairingWellTyped, DaemonServes, PTL

\* To its client a call is a remote turn, whatever else the server does.
THEOREM ServerRunsRemotely == RpcSpec => ImplementsRemoteTurn
BY ServicesBehave, TurnsRunRemotely, PTL

\* A stream carries one terminal event at most and nothing behind it.
THEOREM ServerEndsOnce == RpcSpec => []TerminalIsLast
BY ServicesBehave, OneTerminalEvent, PTL

\* A settled request stays settled (PairingApprove, PairingDeny, pairingScan).
THEOREM ServerSettlesForGood == RpcSpec => SettledForGood
BY ServicesBehave, SettledRequestsStay DEF SettledForGood

\* A certificate that stopped being admitted is never admitted again
\* (ClientRevoke, ClientAuthenticate).
THEOREM ServerRefusesForGood == RpcSpec => NoReturn
BY ServicesBehave, CertificatesStayRefused DEF NoReturn


=============================================================================
