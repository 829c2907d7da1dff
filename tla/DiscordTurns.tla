---------------------------- MODULE DiscordTurns ----------------------------
(***************************************************************************)
(* A Discord bot answering its channels: onMessage, rememberMessage,       *)
(* queueTurn and answerFor (bot/discord/handlers/message.go), the commands *)
(* that give a channel another conversation (interaction.go), and          *)
(* Instance.Bind with SessionAttach (core), which tie the two.             *)
(*                                                                         *)
(* The gateway runs a handler goroutine for each event it delivers, so     *)
(* handlers of two messages interleave, and it may deliver a message       *)
(* again.  A handler that takes its message puts a turn in the channel's   *)
(* chain: the turn's goroutine waits for the goroutine before it to close  *)
(* its channel of Go, named by its delivery here.                          *)
(*                                                                         *)
(* What the turn does inside the session is SessionTurns; here it takes a  *)
(* conversation, answers, and ends, by its ten minute timeout at the       *)
(* latest.                                                                 *)
(***************************************************************************)
EXTENDS Naturals, Sequences

CONSTANTS
    Delivery,   \* events the gateway delivers, numbered as they are taken up
    Message,    \* ids of Discord messages
    Stranger,   \* those written by a user without a role
    Channel,
    Agent,
    Configured, \* the agent of configuredInstance
    Command,    \* slash commands given
    SeenLimit,  \* seenMessageLimit
    None

ASSUME DiscordAssumption ==
    /\ Delivery \subseteq Nat
    /\ Stranger \subseteq Message
    /\ Configured \in Agent
    /\ SeenLimit \in Nat \ {0}
    /\ None \notin Delivery \cup Channel \cup Agent

VARIABLES
    pc,         \* where the goroutine of a delivery is
    of,         \* the message it brings
    accepted,   \* deliveries rememberMessage said yes to, in order
    seen,       \* seenOrder, with d.seen its set
    at,         \* the channel a delivery's turn belongs to
    turns,      \* the end of each channel's chain
    previous,   \* the delivery a turn waits for
    queued,     \* deliveries put in each channel's chain, in order
    closed,     \* deliveries whose `current` is closed
    stopped,    \* Stop has cancelled the bot's lifetime
    rows,       \* conversations of origin discord, as they were inserted
    target,     \* the agent a turn or a command goes to
    session,    \* the conversation a turn answers in: a position of rows
    command     \* where a slash command is

gatewayVars == <<of, accepted, seen>>
chainVars == <<at, turns, previous, queued, closed, stopped>>
boundVars == <<rows, session>>
vars == <<pc, gatewayVars, chainVars, boundVars, target, command>>

\* Between run() being called and its return.
Running == {"looking", "binding", "attaching", "answering"}

TypeOK ==
    /\ pc \in [Delivery -> {"new", "refused", "duplicate", "placing", "waiting",
                            "closing", "forgetting", "gone"} \cup Running]
    /\ of \in [Delivery -> Message \cup {None}]
    /\ accepted \in Seq(Delivery)
    /\ seen \in Seq(Message) /\ Len(seen) <= SeenLimit
    /\ at \in [Delivery -> Channel \cup {None}]
    /\ turns \in [Channel -> Delivery \cup {None}]
    /\ previous \in [Delivery -> Delivery \cup {None}]
    /\ \A c \in Channel : queued[c] \in Seq(Delivery)
    /\ closed \subseteq Delivery
    /\ stopped \in BOOLEAN
    /\ rows \in Seq([agent : Agent, external : Channel \cup {None}])
    /\ target \in [Delivery \cup Command -> Agent]
    /\ session \in [Delivery -> 0 .. Len(rows)]
    /\ command \in [Command -> Channel \cup {"given", "done"}]

Init ==
    /\ pc = [d \in Delivery |-> "new"]
    /\ of = [d \in Delivery |-> None]
    /\ accepted = <<>>
    /\ seen = <<>>
    /\ at = [d \in Delivery |-> None]
    /\ turns = [c \in Channel |-> None]
    /\ previous = [d \in Delivery |-> None]
    /\ queued = [c \in Channel |-> <<>>]
    /\ closed = {}
    /\ stopped = FALSE
    /\ rows = <<>>
    /\ target = [x \in Delivery \cup Command |-> Configured]
    /\ session = [d \in Delivery |-> 0]
    /\ command = [k \in Command |-> "given"]

Goto(d, to) == pc' = [pc EXCEPT ![d] = to]

-----------------------------------------------------------------------------
(* Conversations of a channel *)

\* SessionByExternal: the conversations a channel is bound to; the unique
\* index leaves at most one.
Bound(c) == {i \in DOMAIN rows : rows[i].external = c}

\* Discord.instance: the bound agent, or the configured one, which also answers
\* when the registry has no instance of the bound agent, as after a reload that
\* could not load it.
InstanceOf(c, a) ==
    a = Configured \/ \E i \in Bound(c) : a = rows[i].agent

\* SessionAttach: one transaction, which lets go of the old row first.
SessionAttach(c, a) ==
    rows' = Append([i \in DOMAIN rows |->
                      IF rows[i].external = c
                      THEN [rows[i] EXCEPT !.external = None] ELSE rows[i]],
                   [agent |-> a, external |-> c])

-----------------------------------------------------------------------------
(* onMessage *)

SeenIds == {seen[i] : i \in 1 .. Len(seen)}

\* rememberMessage with a new id: the oldest makes room for it.
Remember(m) ==
    seen' = Append(IF Len(seen) = SeenLimit THEN Tail(seen) ELSE seen, m)

\* A user without a role is refused in the channel; a message that
\* rememberMessage knows goes no further.
Hear(d, m) ==
    /\ pc[d] = "new" /\ \A e \in Delivery : e < d => pc[e] # "new"
    /\ of' = [of EXCEPT ![d] = m]
    /\ IF m \in Stranger \cup SeenIds
       THEN /\ Goto(d, IF m \in Stranger THEN "refused" ELSE "duplicate")
            /\ UNCHANGED <<accepted, seen>>
       ELSE /\ Remember(m)
            /\ accepted' = Append(accepted, d)
            /\ Goto(d, "placing")
    /\ UNCHANGED <<chainVars, boundVars, target, command>>

\* conversationChannel has named a channel, a new thread when one could be
\* started, and queueTurn links the turn to the end of its chain.
QueueTurn(d, c) ==
    /\ pc[d] = "placing"
    /\ at' = [at EXCEPT ![d] = c]
    /\ previous' = [previous EXCEPT ![d] = turns[c]]
    /\ turns' = [turns EXCEPT ![c] = d]
    /\ queued' = [queued EXCEPT ![c] = Append(@, d)]
    /\ Goto(d, "waiting")
    /\ UNCHANGED <<gatewayVars, closed, stopped, boundVars, target, command>>

-----------------------------------------------------------------------------
(* The goroutine of queueTurn *)

\* Broken: the turn before closes its channel when it starts.
ReadyOnceStarted(d) == previous[d] # None => pc[previous[d]] # "waiting"

\* The turn before has closed its channel, or there was none.
Ready(d) == previous[d] # None => previous[d] \in closed

\* Broken: lifetime.Err is not looked at again after the wait.
StartUnchecked(d) ==
    /\ pc[d] = "waiting" /\ Ready(d)
    /\ Goto(d, "looking")
    /\ UNCHANGED <<gatewayVars, chainVars, boundVars, target, command>>

Start(d) ==
    /\ pc[d] = "waiting" /\ Ready(d)
    /\ ~stopped
    /\ Goto(d, "looking")
    /\ UNCHANGED <<gatewayVars, chainVars, boundVars, target, command>>

\* The wait, or the look at lifetime.Err after it, ends by the shutdown.
GiveUp(d) ==
    /\ pc[d] = "waiting" /\ stopped
    /\ Goto(d, "closing")
    /\ UNCHANGED <<gatewayVars, chainVars, boundVars, target, command>>

\* The deferred function, first half.
CloseCurrent(d) ==
    /\ pc[d] = "closing"
    /\ closed' = closed \cup {d}
    /\ Goto(d, "forgetting")
    /\ UNCHANGED <<gatewayVars, at, turns, previous, queued, stopped,
                   boundVars, target, command>>

\* Broken: the entry goes whoever is at the end of the chain by now.
ForgetAlways(d) ==
    /\ pc[d] = "forgetting"
    /\ turns' = [turns EXCEPT ![at[d]] = None]
    /\ Goto(d, "gone")
    /\ UNCHANGED <<gatewayVars, at, previous, queued, closed, stopped,
                   boundVars, target, command>>

\* The second half: under the mutex, and only if it is still the last turn.
Forget(d) ==
    /\ pc[d] = "forgetting"
    /\ turns' = [turns EXCEPT ![at[d]] = IF @ = d THEN None ELSE @]
    /\ Goto(d, "gone")
    /\ UNCHANGED <<gatewayVars, at, previous, queued, closed, stopped,
                   boundVars, target, command>>

Stop ==
    /\ ~stopped
    /\ stopped' = TRUE
    /\ UNCHANGED <<pc, gatewayVars, at, turns, previous, queued, closed,
                   boundVars, target, command>>

-----------------------------------------------------------------------------
(* answerFor *)

LookUp(d) ==
    /\ pc[d] = "looking"
    /\ \E a \in Agent :
          InstanceOf(at[d], a) /\ target' = [target EXCEPT ![d] = a]
    /\ Goto(d, "binding")
    /\ UNCHANGED <<gatewayVars, chainVars, boundVars, command>>

\* Instance.Bind reads again: a conversation of this agent is used, any other
\* one is to be replaced.
Bind(d) ==
    /\ pc[d] = "binding"
    /\ \/ \E i \in Bound(at[d]) :
             /\ rows[i].agent = target[d]
             /\ session' = [session EXCEPT ![d] = i]
             /\ Goto(d, "answering")
       \/ /\ \A i \in Bound(at[d]) : rows[i].agent # target[d]
          /\ Goto(d, "attaching")
          /\ UNCHANGED session
    /\ UNCHANGED <<gatewayVars, chainVars, rows, target, command>>

Attach(d) ==
    /\ pc[d] = "attaching"
    /\ SessionAttach(at[d], target[d])
    /\ session' = [session EXCEPT ![d] = Len(rows) + 1]
    /\ Goto(d, "answering")
    /\ UNCHANGED <<gatewayVars, chainVars, target, command>>

\* Broken: a turn that fails returns without the deferred close.
ReturnSilently(d) ==
    /\ pc[d] \in Running
    /\ Goto(d, IF pc[d] = "answering" THEN "closing" ELSE "gone")
    /\ UNCHANGED <<gatewayVars, chainVars, boundVars, target, command>>

\* The reply is sent; or a step failed, or was cancelled, and a failure is.
Return(d) ==
    /\ pc[d] \in Running
    /\ Goto(d, "closing")
    /\ UNCHANGED <<gatewayVars, chainVars, boundVars, target, command>>

-----------------------------------------------------------------------------
(* Commands.  discordgo runs them in goroutines of their own, and neither  *)
(* takes a place in the channel's chain.                                   *)

\* resetInteraction: a fresh conversation with the agent of the channel.
ResetLooksUp(k, c) ==
    /\ command[k] = "given"
    /\ \E a \in Agent :
          InstanceOf(c, a) /\ target' = [target EXCEPT ![k] = a]
    /\ command' = [command EXCEPT ![k] = c]
    /\ UNCHANGED <<pc, gatewayVars, chainVars, boundVars>>

ResetAttaches(k) ==
    /\ command[k] \in Channel
    /\ SessionAttach(command[k], target[k])
    /\ command' = [command EXCEPT ![k] = "done"]
    /\ UNCHANGED <<pc, gatewayVars, chainVars, session, target>>

\* agentCommand with a name: the reply says which agent the channel talks to.
SwitchAgent(k, c, a) ==
    /\ command[k] = "given"
    /\ SessionAttach(c, a)
    /\ command' = [command EXCEPT ![k] = "done"]
    /\ UNCHANGED <<pc, gatewayVars, chainVars, session, target>>

-----------------------------------------------------------------------------

Step(d) ==
    \/ \E c \in Channel : QueueTurn(d, c)
    \/ Start(d) \/ GiveUp(d) \/ CloseCurrent(d) \/ Forget(d)
    \/ LookUp(d) \/ Bind(d) \/ Attach(d) \/ Return(d)

Obey(k) ==
    \/ \E c \in Channel : ResetLooksUp(k, c)
    \/ ResetAttaches(k)
    \/ \E c \in Channel, a \in Agent : SwitchAgent(k, c, a)

Next ==
    \/ Stop
    \/ \E d \in Delivery : Step(d) \/ \E m \in Message : Hear(d, m)
    \/ \E k \in Command : Obey(k)

Spec == Init /\ [][Next]_vars

\* A goroutine that can run does; run() is under turnContext's timeout, so a
\* turn ends whatever the model and its tools do.
FairSpec == Spec /\ \A d \in Delivery : WF_vars(Step(d))

-----------------------------------------------------------------------------
(* Properties *)

\* A message delivered twice is answered once, unless SeenLimit others were
\* taken in between (rememberMessage's set and its order, whatever the order
\* in which handlers get to it).
DuplicatesDropped ==
    \A i, j \in 1 .. Len(accepted) :
        (i < j /\ of[accepted[i]] = of[accepted[j]]) => j - i > SeenLimit

\* While the bot lives, an empty entry of the map means that the channel is
\* idle: every turn ever queued in it has ended, so that the next one is right
\* not to wait.  An entry never outlives its turn (queueTurn's deferred delete).
EmptyMeansIdle ==
    \A c \in Channel :
        /\ (turns[c] = None /\ ~stopped) =>
              \A i \in 1 .. Len(queued[c]) : queued[c][i] \in closed
        /\ turns[c] # None => pc[turns[c]] # "gone"

\* The conversations of a channel only advance: a turn queued behind another
\* never answers in an older conversation than it, whatever resets and
\* switches came between their lookups (queueTurn around answerFor).
ConversationsAdvance ==
    \A c \in Channel : \A i, j \in 1 .. Len(queued[c]) :
        (i < j /\ session[queued[c][j]] # 0)
            => session[queued[c][i]] <= session[queued[c][j]]

\* The turns of a channel are those of a queue: one at a time, in the order
\* they were queued, none begun after the bot stopped (queueTurn).
InLine(c) == {d \in Delivery : at[d] = c /\ pc[d] = "waiting"}
Answering(c) == {d \in Delivery : at[d] = c /\ pc[d] \in Running}
Any(set) == CHOOSE d \in set : TRUE

Queue ==
    INSTANCE TurnQueue WITH
        Job    <- Delivery,
        joined <- queued,
        line   <- [c \in Channel |-> InLine(c)],
        busy   <- [c \in Channel |-> IF Answering(c) = {} THEN None ELSE Any(Answering(c))],
        down   <- stopped

ImplementsTurnQueue == Queue!Spec

\* Every turn in a chain comes to its end: by running, or by the shutdown.
TurnsEnd == \A d \in Delivery : pc[d] = "waiting" ~> pc[d] = "gone"

=============================================================================
