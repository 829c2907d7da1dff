-------------------------------- MODULE Serve --------------------------------
(***************************************************************************)
(* The life of `mininaru serve`: serveExecute and serveAll (cli/serve.go),  *)
(* the two servers (Serve of rpc/server.go and of server/server.go), and    *)
(* the slots of the completion API (limitConcurrent).                      *)
(*                                                                         *)
(* main starts the bots one by one and then a goroutine for each server.    *)
(* A server ends by itself when it cannot listen or accept, and is told to  *)
(* end by its context: SIGTERM cancels the one of main, serveAll the one    *)
(* of both as soon as either of them has ended.  What main waits for is the *)
(* channel `results`.  It does not wait for handlers or for turns.          *)
(***************************************************************************)
EXTENDS Naturals, FiniteSets, Sequences

CONSTANTS
    Bot,            \* the enabled bots
    Chat,           \* calls of the gRPC server
    Completion,     \* requests to the completion API
    Slots           \* maxConcurrentCompletions

VARIABLES
    main,           \* where main is
    grpcOnly,       \* --grpc-only
    stop,           \* a signal has cancelled the context of main
    running,        \* the context of serveAll has not been cancelled
    server,         \* where the goroutine of each server is
    results,        \* the channel of serveAll, capacity 2
    outcome,        \* what serveExecute will return
    tried,          \* bots that startBots has come to
    bots,           \* bots that are connected
    chat,           \* the chats, as their clients see them
    completion,     \* the completions, likewise
    slots           \* the slots of limitConcurrent that are taken

mainVars == <<main, grpcOnly, stop, running, outcome, tried, bots>>
serverVars == <<server, results>>
callVars == <<chat, completion, slots>>
vars == <<mainVars, serverVars, callVars>>

Server == {"grpc", "http"}
Result == {"ok", "error"}

\* "broken": it could not accept, and serves the connections it has;
\* "expired": its five seconds were over before its calls.
Place == {"off", "listening", "serving", "draining", "ended", "expired", "broken"}

TypeOK ==
    /\ main \in {"starting", "serving", "waiting", "closing", "exited"}
    /\ grpcOnly \in BOOLEAN /\ stop \in BOOLEAN /\ running \in BOOLEAN
    /\ server \in [Server -> Place]
    /\ results \in Seq(Result) /\ Len(results) <= 2
    /\ outcome \in Result \cup {"none"}
    /\ bots \subseteq tried /\ tried \subseteq Bot
    /\ chat \in [Chat -> {"none", "running", "answered", "cut", "lost"}]
    /\ completion \in [Completion -> {"none", "running", "answered", "shed", "lost"}]
    /\ slots \in 0 .. Slots

\* The agents are loaded, and watchReload runs.
Init ==
    /\ main = "starting" /\ grpcOnly \in BOOLEAN
    /\ stop = FALSE /\ running = TRUE
    /\ server = [s \in Server |-> "off"]
    /\ results = <<>> /\ outcome = "none"
    /\ tried = {} /\ bots = {}
    /\ chat = [c \in Chat |-> "none"]
    /\ completion = [k \in Completion |-> "none"]
    /\ slots = 0

Running(calls) == {c \in DOMAIN calls : calls[c] = "running"}

\* Calls in progress end as `to`.
Drop(calls, to) == [c \in DOMAIN calls |-> IF calls[c] = "running" THEN to ELSE calls[c]]

-----------------------------------------------------------------------------
(* main *)

\* SIGTERM or an interrupt; main looks at it when a server does.
Signal ==
    /\ main # "exited" /\ ~stop
    /\ stop' = TRUE
    /\ UNCHANGED <<main, grpcOnly, running, outcome, tried, bots, serverVars, callVars>>

\* startBot; the first that fails ends serve.
StartBot(b) ==
    /\ main = "starting" /\ b \notin tried
    /\ tried' = tried \cup {b}
    /\ \/ bots' = bots \cup {b} /\ UNCHANGED <<main, outcome>>
       \/ main' = "closing" /\ outcome' = "error" /\ UNCHANGED bots
    /\ UNCHANGED <<grpcOnly, stop, running, serverVars, callVars>>

StartServers ==
    /\ main = "starting" /\ tried = Bot
    /\ main' = "serving"
    /\ server' = [s \in Server |-> IF s = "http" /\ grpcOnly THEN "off" ELSE "listening"]
    /\ UNCHANGED <<grpcOnly, stop, running, outcome, tried, bots, results, callVars>>

\* Broken: the first result is the result.
FirstResultEnds ==
    /\ main = "serving" /\ results # <<>>
    /\ outcome' = Head(results)
    /\ results' = Tail(results)
    /\ main' = "closing" /\ running' = FALSE
    /\ UNCHANGED <<grpcOnly, stop, tried, bots, server, callVars>>

\* With --grpc-only serveExecute returns what the one server does; serveAll
\* tells the other to end.
FirstResult ==
    /\ main = "serving" /\ results # <<>>
    /\ outcome' = Head(results)
    /\ results' = Tail(results)
    /\ IF grpcOnly
       THEN main' = "closing" /\ UNCHANGED running
       ELSE main' = "waiting" /\ running' = FALSE
    /\ UNCHANGED <<grpcOnly, stop, tried, bots, server, callVars>>

\* An error of the first server counts before what the second says.
SecondResult ==
    /\ main = "waiting" /\ results # <<>>
    /\ outcome' = IF outcome = "error" THEN outcome ELSE Head(results)
    /\ results' = Tail(results)
    /\ main' = "closing"
    /\ UNCHANGED <<grpcOnly, stop, running, tried, bots, server, callVars>>

\* stopBots, deferred or after a bot that did not start.
StopBot(b) ==
    /\ main = "closing" /\ b \in bots
    /\ bots' = bots \ {b}
    /\ UNCHANGED <<main, grpcOnly, stop, running, outcome, tried, serverVars, callVars>>

\* The process is over, and whatever still ran in it.
Exit ==
    /\ main = "closing" /\ bots = {}
    /\ main' = "exited"
    /\ chat' = Drop(chat, "lost")
    /\ completion' = Drop(completion, "lost")
    /\ UNCHANGED <<grpcOnly, stop, running, outcome, tried, bots, serverVars, slots>>

Main ==
    \/ StartServers \/ FirstResult \/ SecondResult \/ Exit
    \/ \E b \in Bot : StartBot(b) \/ StopBot(b)

-----------------------------------------------------------------------------
(* The servers *)

\* The context that Serve was given is cancelled.
Stopping == stop \/ ~running

\* Serve returns.
Returns(s, place, result) ==
    /\ server' = [server EXCEPT ![s] = place]
    /\ results' = Append(results, result)

Alive(s, place) == main # "exited" /\ server[s] = place

\* The port is taken, or the identity of the gRPC server cannot be read.
Listen(s) ==
    /\ Alive(s, "listening")
    /\ \/ server' = [server EXCEPT ![s] = "serving"] /\ UNCHANGED results
       \/ Returns(s, "ended", "error")
    /\ UNCHANGED <<mainVars, callVars>>

AcceptFails(s) ==
    /\ Alive(s, "serving")
    /\ Returns(s, "broken", "error")
    /\ UNCHANGED <<mainVars, callVars>>

\* GracefulStop, Shutdown: no new calls.
Drain(s) ==
    /\ Alive(s, "serving") /\ Stopping
    /\ server' = [server EXCEPT ![s] = "draining"]
    /\ UNCHANGED <<mainVars, results, callVars>>

Drained(s) ==
    /\ Alive(s, "draining")
    /\ Running(IF s = "grpc" THEN chat ELSE completion) = {}
    /\ Returns(s, "ended", "ok")
    /\ UNCHANGED <<mainVars, callVars>>

\* Broken: gracefulStop without its timer.
GracefulOnly ==
    /\ Alive("grpc", "draining") /\ Running(chat) = {}
    /\ Returns("grpc", "expired", "ok")
    /\ UNCHANGED <<mainVars, callVars>>

\* gracefulTimeout: Stop closes the connections, which cancels the calls.
ForceStop ==
    /\ Alive("grpc", "draining")
    /\ Returns("grpc", "expired", "ok")
    /\ chat' = Drop(chat, "cut")
    /\ UNCHANGED <<mainVars, completion, slots>>

\* shutdownTimeout: an error, and the handlers go on.
ShutdownExpires ==
    /\ Alive("http", "draining")
    /\ Returns("http", "expired", "error")
    /\ UNCHANGED <<mainVars, callVars>>

Goroutine(s) == Listen(s) \/ AcceptFails(s) \/ Drain(s) \/ Drained(s)
Timers == ForceStop \/ ShutdownExpires

-----------------------------------------------------------------------------
(* Calls *)

\* On a new connection, or on one that a broken server still has.
Takes(s) == main # "exited" /\ server[s] \in {"serving", "broken"}

ChatBegins(c) ==
    /\ Takes("grpc") /\ chat[c] = "none"
    /\ chat' = [chat EXCEPT ![c] = "running"]
    /\ UNCHANGED <<mainVars, serverVars, completion, slots>>

ChatEnds(c) ==
    /\ main # "exited" /\ chat[c] = "running"
    /\ chat' = [chat EXCEPT ![c] = "answered"]
    /\ UNCHANGED <<mainVars, serverVars, completion, slots>>

\* limitConcurrent: a request that finds no slot is answered 429 at once.
CompletionBegins(k) ==
    /\ Takes("http") /\ completion[k] = "none"
    /\ IF slots < Slots
       THEN /\ completion' = [completion EXCEPT ![k] = "running"]
            /\ slots' = slots + 1
       ELSE /\ completion' = [completion EXCEPT ![k] = "shed"]
            /\ UNCHANGED slots
    /\ UNCHANGED <<mainVars, serverVars, chat>>

\* The handler returns: with an answer, with the error of the model, or
\* because the client has left.
CompletionEnds(k) ==
    /\ main # "exited" /\ completion[k] = "running"
    /\ completion' = [completion EXCEPT ![k] = "answered"]
    /\ slots' = slots - 1
    /\ UNCHANGED <<mainVars, serverVars, chat>>

Calls ==
    \/ \E c \in Chat : ChatBegins(c) \/ ChatEnds(c)
    \/ \E k \in Completion : CompletionBegins(k) \/ CompletionEnds(k)

Next == Signal \/ Main \/ (\E s \in Server : Goroutine(s)) \/ Timers \/ Calls

Spec == Init /\ [][Next]_vars

\* The goroutines of main and of the servers, and their timers.  A bot gets
\* connected or fails.  Nothing is assumed of calls: a model may hang.
FairSpec ==
    Spec /\ WF_vars(Main) /\ WF_vars(Timers)
         /\ \A s \in Server : WF_vars(Listen(s) \/ Drain(s))

-----------------------------------------------------------------------------
(* Properties *)

\* When no handler runs, all slots are free: no way out of a completion keeps
\* one.  No bot stays connected behind a process that ends.
NothingKept ==
    /\ main # "exited" => slots = Cardinality(Running(completion))
    /\ main = "exited" => bots = {}

\* The exit status is what systemd goes by (Restart=on-failure in daemonUnit):
\* a daemon that was not told to stop does not end well, whichever server
\* failed and whatever the other one says when it is told to end.
CleanExitMeansStopped ==
    main = "exited" /\ outcome = "ok" => stop

\* A call that was accepted gets its answer, unless the five seconds of its own
\* server ran out or that server had failed: that the other one failed or was
\* done first cuts nothing short.
CutOnlyLate ==
    /\ (\E c \in Chat : chat[c] \in {"cut", "lost"}) => server["grpc"] \in {"expired", "broken"}
    /\ (\E k \in Completion : completion[k] = "lost") => server["http"] \in {"expired", "broken"}

\* All of them: what holds in every state.
ServeInv == TypeOK /\ NothingKept /\ CleanExitMeansStopped /\ CutOnlyLate

\* A signal ends the daemon, and so does a server that failed, although calls
\* may hang for ever.
DaemonEnds ==
    (stop \/ main \in {"waiting", "closing"}) ~> main = "exited"

=============================================================================
