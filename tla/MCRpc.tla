------------------------------- MODULE MCRpc --------------------------------
(***************************************************************************)
(* The two services of the RPC server, and the life of the daemon it       *)
(* belongs to, in one run.  The services share no state, and to a call the *)
(* end of the daemon is the loss of its stream, so a behaviour of all is a *)
(* behaviour of each of them interleaved, and what is true of one is found *)
(* by letting one of them move at a time: `service` says which.            *)
(***************************************************************************)
EXTENDS ChatStream, TLC

CONSTANTS c1, c2, Request, Key, Operator, MaxPending, MaxSerial, Bot, Completion

\* The bound on serials is a number.
ASSUME RpcAssumption == MaxSerial \in Nat

VARIABLES
    service,
    place, key, status, certificate, clock, clients, serials, job, watch, held,
    main, grpcOnly, stop, running, server, results, outcome, tried, bots,
    chat, completion, taken

pairingVars == <<place, key, status, certificate, clock, clients, serials, job, watch, held>>

daemonVars ==
    <<main, grpcOnly, stop, running, server, results, outcome, tried, bots,
      chat, completion, taken>>

P == INSTANCE Pairing

\* The completions have as many slots as the chats.
D == INSTANCE Serve WITH slots <- taken

\* The turn of c1 runs tools, and its client sends events nobody asked for;
\* c2 is a call that competes for the slot, no more.
AsksOfFirst == (c1 :> 2) @@ (c2 :> 0)
StraysOfFirst == (c1 :> 2) @@ (c2 :> 0)

\* A turn without tools, whose client sends two events nobody takes and then
\* cancels.
NoAsks == (c1 :> 0) @@ (c2 :> 0)
ThreeStrays == (c1 :> 3) @@ (c2 :> 0)

RpcInit ==
    /\ service \in {"chat", "pairing", "daemon"}
    /\ Init
    /\ P!Init
    /\ D!Init
    /\ service # "daemon" => ~grpcOnly
    /\ service # "pairing" => key = [r \in Request |-> CHOOSE k \in Key : TRUE]

RpcNext ==
    \/ service = "chat" /\ Next /\ UNCHANGED <<service, pairingVars, daemonVars>>
    \/ service = "pairing" /\ P!Next /\ UNCHANGED <<service, vars, daemonVars>>
    \/ service = "daemon" /\ D!Next /\ UNCHANGED <<service, vars, pairingVars>>

\* The fairness of each, for the service that moves.
RpcSpec ==
    /\ RpcInit
    /\ [][RpcNext]_<<service, vars, pairingVars, daemonVars>>
    /\ \A c \in Chat :
          /\ WF_vars(service = "chat" /\ Prompt(c))
          /\ WF_vars(service = "chat" /\ Receiver(c))
    /\ \A r \in Request :
          /\ WF_<<pairingVars>>(service = "pairing" /\ P!Watch(r))
          /\ WF_<<pairingVars>>(service = "pairing" /\ P!Tick(r))
    /\ WF_daemonVars(service = "daemon" /\ D!Main)
    /\ WF_daemonVars(service = "daemon" /\ D!Timers)
    /\ \A s \in {"grpc", "http"} :
          WF_daemonVars(service = "daemon" /\ (D!Listen(s) \/ D!Drain(s)))

\* The state of the services is well formed: no more calls hold slots than
\* there are, one call at most is inside the session, and both belong to calls
\* that are open (the deferred functions of Chat); no event answers two tool
\* requests, and none answers a request it came before (remoteToolExecute);
\* and of the daemon what ServeInv says (see Serve).
RpcInv == TypeOK /\ HoldersAreOpen /\ AnswersInOrder /\ P!TypeOK /\ D!ServeInv

\* The properties of Pairing (see there).
SettledForGood == P!SettledForGood
NoReturn == P!NoReturn
WatchEnds == P!WatchEnds

\* The liveness of Serve (see there).
DaemonEnds == D!DaemonEnds

=============================================================================
