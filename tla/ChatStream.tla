----------------------------- MODULE ChatStream -----------------------------
(***************************************************************************)
(* The bidirectional Chat RPC: mininaruService.Chat, receiveChat,          *)
(* remoteToolExecute and chatApprover (rpc/service.go), with the client of *)
(* cli/remote.go at the other end.                                         *)
(*                                                                         *)
(* Each call has three parties: the handler, which becomes the goroutine   *)
(* of the turn; the receiver, a goroutine that reads the stream into a     *)
(* channel of capacity one; and the client.  Tools run on the client: the  *)
(* turn sends a request with an id and waits for the event that carries    *)
(* the same id.                                                            *)
(*                                                                         *)
(* Deltas and tool progress are left out: a failed Send of one only means  *)
(* that the stream has ended.  The steps inside a turn are those of        *)
(* SessionTurns; here it waits for its gate, asks, and ends.               *)
(***************************************************************************)
EXTENDS Naturals, Sequences, FiniteSets

CONSTANTS
    Chat,           \* calls of Chat
    Slots,          \* maxConcurrentChats
    Asks,           \* bound: tool requests of the turn of each call
    Strays          \* bound: events of its client that answer nothing

ASSUME ChatAssumption ==
    /\ Slots \in Nat \ {0}
    /\ Asks \in [Chat -> Nat] /\ Strays \in [Chat -> Nat]

VARIABLES
    slots,          \* calls holding a slot
    gate,           \* calls inside the one session they all name
    handler,        \* where the handler and its turn are
    receiver,       \* where the receiver goroutine is
    event,          \* what it has read last
    incoming,       \* the channel between them
    streamDone,     \* the stream's context has ended
    chatDone,       \* the context of the turn has ended
    asked,          \* tool requests sent
    answers,        \* ids of the events taken as results, in order
    stored,         \* status of the user row of the turn
    client,         \* where the client is
    task,           \* the request its tool runs for
    toServer,       \* events under way
    toClient,
    strays

serverVars == <<slots, gate, handler, receiver, event, incoming, chatDone,
                asked, answers, stored>>
clientVars == <<client, task, strays>>
wireVars == <<streamDone, toServer, toClient>>
vars == <<serverVars, clientVars, wireVars>>

Id == {0} \cup UNION {1 .. Asks[c] : c \in Chat}   \* 0 is an id nobody was asked for
Start == [type |-> "start", id |-> 0]
CancelEvent == [type |-> "cancel", id |-> 0]
Reply(n) == [type |-> "reply", id |-> n]
Ask(n) == [type |-> "ask", id |-> n]
Completed == [type |-> "completed", id |-> 0]
Failed == [type |-> "failed", id |-> 0]

Terminal == {Completed, Failed}
ClientEvent == {Start, CancelEvent} \cup {Reply(n) : n \in Id}
ServerEvent == Terminal \cup {Ask(n) : n \in Id}

TypeOK ==
    /\ slots \subseteq Chat /\ Cardinality(slots) <= Slots
    /\ gate \subseteq Chat /\ Cardinality(gate) <= 1
    /\ handler \in [Chat -> {"off", "starting", "queued", "model", "asking",
                             "stored", "failing", "closed"}]
    /\ receiver \in [Chat -> {"off", "reading", "pushing", "ended"}]
    /\ event \in [Chat -> ClientEvent]
    /\ incoming \in [Chat -> {<<>>} \cup {<<e>> : e \in ClientEvent}]
    /\ streamDone \in [Chat -> BOOLEAN]
    /\ chatDone \in [Chat -> BOOLEAN]
    /\ \A c \in Chat : asked[c] \in 0 .. Asks[c]
    /\ \A c \in Chat : answers[c] \in Seq(Id) /\ Len(answers[c]) <= asked[c]
    /\ stored \in [Chat -> {"none", "pending", "completed", "failed"}]
    /\ client \in [Chat -> {"new", "refused", "listening", "working", "gone", "done"}]
    /\ task \in [Chat -> Id]
    /\ \A c \in Chat : toServer[c] \in Seq(ClientEvent) /\ toClient[c] \in Seq(ServerEvent)
    /\ \A c \in Chat : strays[c] \in 0 .. Strays[c]

Init ==
    /\ slots = {}
    /\ gate = {}
    /\ handler = [c \in Chat |-> "off"]
    /\ receiver = [c \in Chat |-> "off"]
    /\ event = [c \in Chat |-> Start]
    /\ incoming = [c \in Chat |-> <<>>]
    /\ streamDone = [c \in Chat |-> FALSE]
    /\ chatDone = [c \in Chat |-> FALSE]
    /\ asked = [c \in Chat |-> 0]
    /\ answers = [c \in Chat |-> <<>>]
    /\ stored = [c \in Chat |-> "none"]
    /\ client = [c \in Chat |-> "new"]
    /\ task = [c \in Chat |-> 0]
    /\ toServer = [c \in Chat |-> <<>>]
    /\ toClient = [c \in Chat |-> <<>>]
    /\ strays = [c \in Chat |-> 0]

Goto(c, to) == handler' = [handler EXCEPT ![c] = to]

\* Send succeeds while the stream lives; whether the client still reads is
\* its own affair.
Send(c, sent) ==
    toClient' = [toClient EXCEPT ![c] = IF streamDone[c] THEN @ ELSE Append(@, sent)]

-----------------------------------------------------------------------------
(* The handler *)

\* Chat is called: a slot is free, or the call is refused at once.
Call(c) ==
    /\ client[c] = "new"
    /\ IF Cardinality(slots) < Slots
       THEN /\ slots' = slots \cup {c}
            /\ Goto(c, "starting")
            /\ client' = [client EXCEPT ![c] = "listening"]
            /\ toServer' = [toServer EXCEPT ![c] = <<Start>>]
       ELSE /\ client' = [client EXCEPT ![c] = "refused"]
            /\ UNCHANGED <<slots, handler, toServer>>
    /\ UNCHANGED <<gate, receiver, event, incoming, streamDone, chatDone, asked,
                   answers, stored, toClient, task, strays>>

\* Broken: the slot is given back on the way of a stream that still lives.
CloseKeepsSlot(c) ==
    /\ Goto(c, "closed")
    /\ streamDone' = [streamDone EXCEPT ![c] = TRUE]
    /\ chatDone' = [chatDone EXCEPT ![c] = TRUE]
    /\ gate' = gate \ {c}
    /\ slots' = IF streamDone[c] THEN slots ELSE slots \ {c}

\* The handler returns: its slot is free again, and grpc ends the stream.
Close(c) ==
    /\ Goto(c, "closed")
    /\ streamDone' = [streamDone EXCEPT ![c] = TRUE]
    /\ chatDone' = [chatDone EXCEPT ![c] = TRUE]
    /\ gate' = gate \ {c}
    /\ slots' = slots \ {c}

\* The first event starts the receiver; without one, or with one that names no
\* session, the handler returns an error and no event.  So it does when Started
\* cannot be sent or remoteToolDefs refuses a tool, with the receiver reading.
\* A client that closes its side is not there: remoteChat never does.
Begin(c) ==
    /\ handler[c] = "starting"
    /\ \/ /\ toServer[c] # <<>>
          /\ toServer' = [toServer EXCEPT ![c] = Tail(@)]
          /\ receiver' = [receiver EXCEPT ![c] = "reading"]
          /\ \/ Goto(c, "queued") /\ UNCHANGED <<slots, gate, streamDone, chatDone>>
             \/ Close(c)
       \/ Close(c) /\ UNCHANGED <<receiver, toServer>>
    /\ UNCHANGED <<event, incoming, asked, answers, stored, clientVars, toClient>>

\* acquire, and the user row.
Enter(c) ==
    /\ handler[c] = "queued"
    /\ \/ /\ gate = {}
          /\ gate' = {c}
          /\ stored' = [stored EXCEPT ![c] = "pending"]
          /\ Goto(c, "model")
       \/ /\ chatDone[c]
          /\ Goto(c, "failing")
          /\ UNCHANGED <<gate, stored>>
    /\ UNCHANGED <<slots, receiver, event, incoming, chatDone, asked, answers,
                   clientVars, wireVars>>

\* The model wants a tool: remoteToolExecute sends the request.
AskTool(c) ==
    /\ handler[c] = "model"
    /\ asked[c] < Asks[c]
    /\ asked' = [asked EXCEPT ![c] = @ + 1]
    /\ Send(c, Ask(asked[c] + 1))
    /\ Goto(c, IF streamDone[c] THEN "model" ELSE "asking")
    /\ UNCHANGED <<slots, gate, receiver, event, incoming, chatDone, answers, stored,
                   clientVars, streamDone, toServer>>

\* Broken: the id of the event is not compared.
TakeAny(c) ==
    /\ handler[c] = "asking"
    /\ incoming[c] # <<>>
    /\ incoming' = [incoming EXCEPT ![c] = <<>>]
    /\ answers' = [answers EXCEPT ![c] = Append(@, Head(incoming[c]).id)]
    /\ Goto(c, "model")
    /\ UNCHANGED <<slots, gate, receiver, event, chatDone, asked, stored, clientVars, wireVars>>

\* The turn takes an event off the channel; one that answers something else
\* is dropped.
Take(c) ==
    /\ handler[c] = "asking"
    /\ incoming[c] # <<>>
    /\ incoming' = [incoming EXCEPT ![c] = <<>>]
    /\ IF Head(incoming[c]) = Reply(asked[c])
       THEN /\ answers' = [answers EXCEPT ![c] = Append(@, asked[c])]
            /\ Goto(c, "model")
       ELSE UNCHANGED <<answers, handler>>
    /\ UNCHANGED <<slots, gate, receiver, event, chatDone, asked, stored, clientVars, wireVars>>

\* Broken: the wait watches the channel alone.
StopAskingNever(c) ==
    /\ handler[c] = "asking"
    /\ chatDone[c]
    /\ incoming[c] # <<>>
    /\ Goto(c, "model")
    /\ UNCHANGED <<slots, gate, receiver, event, incoming, chatDone, asked, answers,
                   stored, clientVars, wireVars>>

\* Broken: the wait gives up on a tool that takes its time.
StopAskingEarly(c) ==
    /\ handler[c] = "asking"
    /\ Goto(c, "model")
    /\ UNCHANGED <<slots, gate, receiver, event, incoming, chatDone, asked, answers,
                   stored, clientVars, wireVars>>

\* The wait ends with the context; the call fails and the turn goes on to the
\* model, which fails too.
StopAsking(c) ==
    /\ handler[c] = "asking"
    /\ chatDone[c]
    /\ Goto(c, "model")
    /\ UNCHANGED <<slots, gate, receiver, event, incoming, chatDone, asked, answers,
                   stored, clientVars, wireVars>>

\* Broken: a turn whose rows could not be written is reported all the same.
FinishUnstored(c) ==
    /\ handler[c] = "model"
    /\ gate' = gate \ {c}
    /\ Goto(c, "stored")
    /\ UNCHANGED <<slots, receiver, event, incoming, chatDone, asked, answers, stored,
                   clientVars, wireVars>>

\* The model answers and the turn is completed.
Finish(c) ==
    /\ handler[c] = "model"
    /\ stored' = [stored EXCEPT ![c] = "completed"]
    /\ gate' = gate \ {c}
    /\ Goto(c, "stored")
    /\ UNCHANGED <<slots, receiver, event, incoming, chatDone, asked, answers,
                   clientVars, wireVars>>

\* The model call fails, at the latest when the context ends, or the answer
\* cannot be stored.
Break(c) ==
    /\ handler[c] = "model"
    /\ \E status \in {"failed", "pending"} : stored' = [stored EXCEPT ![c] = status]
    /\ gate' = gate \ {c}
    /\ Goto(c, "failing")
    /\ UNCHANGED <<slots, receiver, event, incoming, chatDone, asked, answers,
                   clientVars, wireVars>>

\* The terminal event, which is sent to a stream that still lives.  A stored
\* turn is reported as failed when its usage cannot be read.
Report(c) ==
    /\ \/ handler[c] = "stored" /\ (Send(c, Completed) \/ Send(c, Failed))
       \/ handler[c] = "failing" /\ Send(c, Failed)
    /\ Close(c)
    /\ UNCHANGED <<receiver, event, incoming, asked, answers, stored, clientVars, toServer>>

-----------------------------------------------------------------------------
(* The receiver *)

\* Recv, and for a cancel the end of the goroutine.
Receive(c) ==
    /\ receiver[c] = "reading"
    /\ toServer[c] # <<>>
    /\ toServer' = [toServer EXCEPT ![c] = Tail(@)]
    /\ IF Head(toServer[c]) = CancelEvent
       THEN /\ chatDone' = [chatDone EXCEPT ![c] = TRUE]
            /\ receiver' = [receiver EXCEPT ![c] = "ended"]
            /\ UNCHANGED event
       ELSE /\ event' = [event EXCEPT ![c] = Head(toServer[c])]
            /\ receiver' = [receiver EXCEPT ![c] = "pushing"]
            /\ UNCHANGED chatDone
    /\ UNCHANGED <<slots, gate, handler, incoming, asked, answers, stored,
                   clientVars, streamDone, toClient>>

\* Broken: the receiver waits for the turn to take each event.
PushWhenAsked(c) ==
    /\ receiver[c] = "pushing"
    /\ incoming[c] = <<>>
    /\ handler[c] = "asking"
    /\ incoming' = [incoming EXCEPT ![c] = <<event[c]>>]
    /\ receiver' = [receiver EXCEPT ![c] = "reading"]
    /\ UNCHANGED <<slots, gate, handler, event, chatDone, asked, answers, stored,
                   clientVars, wireVars>>

\* The channel has room for one event.
Push(c) ==
    /\ receiver[c] = "pushing"
    /\ incoming[c] = <<>>
    /\ incoming' = [incoming EXCEPT ![c] = <<event[c]>>]
    /\ receiver' = [receiver EXCEPT ![c] = "reading"]
    /\ UNCHANGED <<slots, gate, handler, event, chatDone, asked, answers, stored,
                   clientVars, wireVars>>

\* Recv fails, or the blocked send sees the stream's context end.
ReceiverEnds(c) ==
    /\ receiver[c] \in {"reading", "pushing"}
    /\ streamDone[c]
    /\ receiver' = [receiver EXCEPT ![c] = "ended"]
    /\ UNCHANGED <<slots, gate, handler, event, incoming, chatDone, asked,
                   answers, stored, clientVars, wireVars>>

-----------------------------------------------------------------------------
(* The client *)

\* The next event: a tool request starts the tool, a terminal one ends the
\* call.
ClientReads(c) ==
    /\ client[c] = "listening"
    /\ toClient[c] # <<>>
    /\ toClient' = [toClient EXCEPT ![c] = Tail(@)]
    /\ IF Head(toClient[c]) \in Terminal
       THEN /\ client' = [client EXCEPT ![c] = "done"]
            /\ UNCHANGED task
       ELSE /\ client' = [client EXCEPT ![c] = "working"]
            /\ task' = [task EXCEPT ![c] = Head(toClient[c]).id]
    /\ UNCHANGED <<serverVars, streamDone, toServer, strays>>

\* The tool has run, failed or been refused by the user.
ClientReplies(c) ==
    /\ client[c] = "working"
    /\ toServer' = [toServer EXCEPT ![c] =
                      IF streamDone[c] THEN @ ELSE Append(@, Reply(task[c]))]
    /\ client' = [client EXCEPT ![c] = IF streamDone[c] THEN "gone" ELSE "listening"]
    /\ UNCHANGED <<serverVars, streamDone, toClient, task, strays>>

\* Recv fails once the stream has ended and all events were read.
ClientEnds(c) ==
    /\ client[c] = "listening"
    /\ toClient[c] = <<>>
    /\ streamDone[c]
    /\ client' = [client EXCEPT ![c] = "gone"]
    /\ UNCHANGED <<serverVars, wireVars, task, strays>>

\* Another client of the protocol cancels, or sends what nobody asked for.
ClientSends(c) ==
    /\ client[c] \in {"listening", "working"}
    /\ ~streamDone[c]
    /\ strays[c] < Strays[c]
    /\ strays' = [strays EXCEPT ![c] = @ + 1]
    /\ \E stray \in {CancelEvent} \cup {Reply(n) : n \in 0 .. asked[c]} :
          toServer' = [toServer EXCEPT ![c] = Append(@, stray)]
    /\ UNCHANGED <<serverVars, streamDone, toClient, client, task>>

\* The user interrupts, or the connection is lost: what is under way is lost
\* with it, and the turn's context ends with the stream's.
Lose(c) ==
    /\ client[c] \in {"listening", "working"}
    /\ ~streamDone[c]
    /\ client' = [client EXCEPT ![c] = "gone"]
    /\ streamDone' = [streamDone EXCEPT ![c] = TRUE]
    /\ chatDone' = [chatDone EXCEPT ![c] = TRUE]
    /\ toServer' = [toServer EXCEPT ![c] = <<>>]
    /\ toClient' = [toClient EXCEPT ![c] = <<>>]
    /\ UNCHANGED <<slots, gate, handler, receiver, event, incoming, asked,
                   answers, stored, task, strays>>

-----------------------------------------------------------------------------

Handler(c) ==
    Begin(c) \/ Enter(c) \/ AskTool(c) \/ Take(c) \/ StopAsking(c) \/ Finish(c)
    \/ Break(c) \/ Report(c)

Receiver(c) == Receive(c) \/ Push(c) \/ ReceiverEnds(c)

Client(c) == ClientReads(c) \/ ClientReplies(c) \/ ClientEnds(c)

Next ==
    \E c \in Chat : Call(c) \/ Handler(c) \/ Receiver(c) \/ Client(c)
                    \/ ClientSends(c) \/ Lose(c)

Spec == Init /\ [][Next]_vars

\* The steps a goroutine takes without a model, a tool or a client.
Prompt(c) ==
    \/ Begin(c) \/ Enter(c) \/ Take(c) \/ StopAsking(c) \/ Report(c)
    \/ chatDone[c] /\ Break(c)

\* A model call ends when its context does; nothing is known of how long it
\* may otherwise take, nor of the client.
Fairness == \A c \in Chat : WF_vars(Prompt(c)) /\ WF_vars(Receiver(c))

FairSpec == Spec /\ Fairness

-----------------------------------------------------------------------------
(* Properties *)

(***************************************************************************)
(* No event answers two tool requests, and none answers a request it came  *)
(* before: late answers, answers sent twice and answers to nothing go      *)
(* through the same channel as the one that is waited for.                 *)
(***************************************************************************)
AnswersInOrder ==
    \A c \in Chat :
        /\ \A i, j \in 1 .. Len(answers[c]) : i < j => answers[c][i] < answers[c][j]
        /\ \A i \in 1 .. Len(answers[c]) : answers[c][i] \in 1 .. asked[c]

(***************************************************************************)
(* A stream ends with at most one terminal event and nothing after it, and *)
(* a completion is only reported of a turn that is stored as completed.    *)
(***************************************************************************)
TerminalIsLast ==
    \A c \in Chat : \A i \in 1 .. Len(toClient[c]) :
        toClient[c][i] \in Terminal =>
            /\ i = Len(toClient[c])
            /\ handler[c] = "closed"
            /\ toClient[c][i] = Completed => stored[c] = "completed"

(***************************************************************************)
(* To its client a call is a remote turn: a tool runs at most once for     *)
(* each request and in order, and the model goes on with the result of     *)
(* that very run, whatever is lost, late, sent twice or made up            *)
(* (RemoteTurn).                                                           *)
(***************************************************************************)
TurnOf(c) ==
    CASE handler[c] = "off" -> "none"
      [] handler[c] \in {"starting", "queued"} -> "waiting"
      [] handler[c] \in {"model", "asking"} -> "running"
      [] handler[c] = "stored" -> "completed"
      [] handler[c] = "failing" -> "failed"
      [] handler[c] = "closed" -> IF stored[c] = "completed" THEN "completed" ELSE "failed"

ClientOf(c) ==
    CASE client[c] \in {"listening", "working"} -> "attached"
      [] client[c] = "done" -> "told"
      [] OTHER -> client[c]

GivenTo(c) == IF answers[c] = <<>> THEN 0 ELSE answers[c][Len(answers[c])]

Remote ==
    INSTANCE RemoteTurn WITH
        turn      <- [c \in Chat |-> TurnOf(c)],
        given     <- [c \in Chat |-> GivenTo(c)],
        over      <- chatDone,
        client    <- [c \in Chat |-> ClientOf(c)],
        busy      <- [c \in Chat |-> client[c] = "working"],
        outspoken <- [c \in Chat |-> strays[c] > 0]

ImplementsRemoteTurn == Remote!Spec

(***************************************************************************)
(* A slot, and the session's gate, are held only by handlers that have not *)
(* returned: a refused, cancelled or lost call leaves nothing behind.      *)
(***************************************************************************)
HoldersAreOpen ==
    /\ \A c \in slots : handler[c] \notin {"off", "closed"}
    /\ \A c \in gate : handler[c] \in {"model", "asking"} /\ c \in slots

(***************************************************************************)
(* Losing the stream ends the handler: a client that is gone cannot leave  *)
(* a turn running, wherever the three parties were.                        *)
(***************************************************************************)
LossEndsTurn ==
    \A c \in Chat : handler[c] # "off" /\ streamDone[c] ~> handler[c] = "closed"

\* A cancel at place i of what the client has sent, and what the receiver has
\* still to put into the channel, or the turn to take out of it, before that.
CancelAt(c, i) == i \in DOMAIN toServer[c] /\ toServer[c][i] = CancelEvent

Ahead(c, i) ==
    i - 1 + Len(incoming[c]) + IF receiver[c] = "pushing" THEN 1 ELSE 0

(***************************************************************************)
(* A cancel the client has sent ends the handler, even while the model     *)
(* does not answer and with an unwanted event before it: the channel has   *)
(* room for one (receiveChat).                                             *)
(***************************************************************************)
CancelHeard ==
    \A c \in Chat :
        (\E i \in 1 .. Len(toServer[c]) : CancelAt(c, i) /\ Ahead(c, i) <= 1)
            ~> handler[c] = "closed"

(***************************************************************************)
(* Both: whatever the receiver is doing when the stream is lost or a       *)
(* cancel comes, blocked on its channel or reading, the turn hears of it   *)
(* (receiveChat, the watcher of Chat).                                     *)
(***************************************************************************)
ReceiverHears == LossEndsTurn /\ CancelHeard

(***************************************************************************)
(* docs/ARCHITECTURE.md, on Chat: later events of the client "return a     *)
(* tool result or cancel the turn", whatever else was sent before.         *)
(***************************************************************************)
CancelCancels ==
    \A c \in Chat : (\E i \in 1 .. Len(toServer[c]) : CancelAt(c, i)) ~> handler[c] = "closed"

=============================================================================
