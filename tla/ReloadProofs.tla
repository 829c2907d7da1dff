---------------------------- MODULE ReloadProofs ----------------------------
(***************************************************************************)
(* Proofs about the reload of the daemon (Reload), for any number of MCP   *)
(* servers, requests, edits and connections; about the skills that are     *)
(* scanned again with it (Skills), for any number of creators and names;   *)
(* and about the other tools of a request: what is remembered (Memory),    *)
(* for any writers and facts, calls of the shell (Shell), and searches     *)
(* (FileSearch), for any paths and patterns.                               *)
(* They use no fairness: a reload may stop at any step, a scan never end,  *)
(* or a connection never be closed.                                        *)
(***************************************************************************)
EXTENDS Reload, Integers, Sequences, FiniteSetTheorems, WellFoundedInduction, TLAPS

\* What is assumed of the constants: MCLocal, which gives them their values,
\* states it as LocalAssumption.
BoundsFit == MaxEdits \in Nat /\ MaxConns \in Nat

\* While servers are dialled the new sessions hold connections as well, and
\* those that are not taken over wait to be closed.
ConnsInv ==
    /\ open = Used(manager) \cup (IF pc = "dial" THEN Used(fresh) ELSE {})
                            \cup (IF pc = "close" THEN stale ELSE {})
    /\ pc = "dial" => \A s \in todo : fresh[s].conn = 0
    /\ pc = "close" => stale \cap Used(manager) = {}

\* Nothing is newer than what it was read from.
VersionsInv ==
    /\ hupped <= file.config
    /\ \A t \in Target : agents[t] <= file.config /\ instance.config <= agents[t]
    /\ pc \in {"assign", "clients", "registry"} /\ hangups = 0 => agents.global >= hupped
    /\ pc \in {"clients", "registry"} => agents.other = agents.global
    /\ \A r \in Request : \A t \in Target : request[r].config <= agents[t]

ReloadIInv == ReloadInv /\ ConnsInv /\ VersionsInv

\* What the agents consist of.
LEMMA AgentsFit ==
    \A a \in AgentVars : /\ a.clients \subseteq Target
                         /\ \A t \in Target : a[t] \in Version
BY DEF AgentVars, Target

\* The connections of a manager with one session more.
LEMMA UsedWith ==
    ASSUME NEW sessions \in [Server -> Session], NEW s \in Server, NEW new \in Session,
           sessions[s].conn = 0
    PROVE  /\ [sessions EXCEPT ![s] = new] \in [Server -> Session]
           /\ Used([sessions EXCEPT ![s] = new]) = Used(sessions) \cup ({new.conn} \ {0})
<1> DEFINE more == [sessions EXCEPT ![s] = new]
<1>1. more \in [Server -> Session] /\ \A t \in Server : more[t] = IF t = s THEN new ELSE sessions[t]
  OBVIOUS
<1> HIDE DEF more
<1>2. Used(more) = Used(sessions) \cup ({new.conn} \ {0}) BY <1>1 DEF Used
<1> QED BY <1>1, <1>2 DEF more

\* serve connects to nothing before the first reload.
LEMMA ReloadStarts == ASSUME BoundsFit, Init PROVE ReloadIInv
<1>1. Absent \in Session /\ Absent.conn = 0 BY DEF Absent, Session, Conn, Version, BoundsFit
<1>2. Used(manager) = {} BY <1>1 DEF Init, Used
<1>3. 0 \in Version /\ 0 \in Conn BY DEF Version, Conn, BoundsFit
<1>4. TypeOK
  <2>1. file \in [mcp : [Server -> Version], config : Version, broken : Fault]
    BY <1>3 DEF Init, Fault
  <2>2. /\ fresh \in [Server -> Session] /\ manager \in [Server -> Session]
        /\ loaded \in [Server -> Version] /\ conns \in Conn /\ open = {}
    BY <1>1, <1>3 DEF Init
  <2>3. instance \in Instance BY <1>3 DEF Init, Instance
  <2>4. request \in [Request -> [at : {"out", "in", "done"}, config : Version,
                                 tools : [Server -> Conn], delegated : SUBSET Version]]
    BY <1>3 DEF Init
  <2>5. failed \in BOOLEAN BY DEF Init
  <2>6. agents \in AgentVars BY <1>3 DEF Init, AgentVars
  <2> QED BY <1>3, <2>1, <2>2, <2>3, <2>4, <2>5, <2>6 DEF Init, TypeOK
<1>5. OpenAreManaged /\ CleanReloadIsUsable /\ HangupHeard /\ DelegationsCurrent
  BY <1>2 DEF Init, OpenAreManaged, CleanReloadIsUsable, HangupHeard, DelegationsCurrent
<1>6. ConnsInv BY <1>2 DEF Init, ConnsInv
<1>7. VersionsInv
  <2>1. \A t \in Target : agents[t] = 0 BY DEF Init, Target
  <2> QED BY <2>1 DEF Init, VersionsInv
<1> QED BY <1>4, <1>5, <1>6, <1>7 DEF ReloadIInv, ReloadInv

-----------------------------------------------------------------------------
(* The operator and the requests *)

\* The steps of the operator,
LEMMA OperatorKeeps == ASSUME BoundsFit, ReloadIInv, Edit \/ Hangup PROVE ReloadIInv'
<1>1. TypeOK /\ ReloadInv /\ ConnsInv /\ VersionsInv BY DEF ReloadIInv, ReloadInv
<1>2. UNCHANGED <<pc, mcpVars, coreVars, failed, request>> BY DEF Edit, Hangup
<1>3. /\ file'.config \in Version /\ file'.config >= file.config
      /\ file' \in [mcp : [Server -> Version], config : Version, broken : Fault]
  <2>1. CASE Hangup BY <1>1, <2>1 DEF Hangup, TypeOK, Version, BoundsFit
  <2>2. CASE Edit
    <3>1. file.config \in Version /\ file.mcp \in [Server -> Version] BY <1>1 DEF TypeOK
    <3>2. file.config + 1 \in Version /\ 0 \in Version BY <2>2, <3>1 DEF Edit, Version, BoundsFit
    <3>3. PICK mcp \in {file.mcp} \cup
                       {[file.mcp EXCEPT ![s] = v] : s \in Server, v \in {0, file.config + 1}},
               broken \in Fault :
            file' = [mcp |-> mcp, config |-> file.config + 1, broken |-> broken]
      BY <2>2 DEF Edit
    <3>4. mcp \in [Server -> Version] BY <3>1, <3>2, <3>3
    <3> QED BY <3>1, <3>2, <3>3, <3>4 DEF Version, BoundsFit
  <2> QED BY <2>1, <2>2
<1>4. hangups' \in 0 .. 1 /\ hupped' \in Version /\ hupped' <= file'.config
      /\ (hangups' = 0 => hangups = 0 /\ hupped' = hupped)
  BY <1>1, <1>3 DEF Edit, Hangup, TypeOK, VersionsInv, Version, BoundsFit
<1>5. TypeOK' BY <1>1, <1>2, <1>3, <1>4 DEF TypeOK, mcpVars, coreVars
<1>6. ConnsInv' BY <1>1, <1>2 DEF ConnsInv, Used, mcpVars
<1>7. VersionsInv'
  <2>1. \A t \in Target : agents[t] \in Version BY <1>1, AgentsFit DEF TypeOK
  <2>2. \A t \in Target : agents[t] <= file'.config
    BY <1>1, <1>3, <2>1 DEF VersionsInv, TypeOK, Version, BoundsFit
  <2> QED BY <1>1, <1>2, <1>4, <2>2 DEF VersionsInv, coreVars
<1>8. (OpenAreManaged /\ CleanReloadIsUsable /\ HangupHeard /\ DelegationsCurrent)'
  BY <1>1, <1>2, <1>4
     DEF ReloadInv, OpenAreManaged, CleanReloadIsUsable, HangupHeard, DelegationsCurrent, Used,
         mcpVars, coreVars
<1> QED BY <1>5, <1>6, <1>7, <1>8 DEF ReloadIInv, ReloadInv

\* of a request,
LEMMA RequestKeeps ==
    ASSUME BoundsFit, ReloadIInv, NEW r \in Request, Resolve(r) \/ Delegate(r) \/ Finish(r)
    PROVE  ReloadIInv'
<1>1. TypeOK /\ ReloadInv /\ ConnsInv /\ VersionsInv BY DEF ReloadIInv, ReloadInv
<1>2. UNCHANGED <<file, hangups, hupped, pc, mcpVars, coreVars, failed>>
  BY DEF Resolve, Delegate, Finish
<1> DEFINE Asked == [at : {"out", "in", "done"}, config : Version,
                     tools : [Server -> Conn], delegated : SUBSET Version]
           Fits(q) == /\ q \in Asked /\ \A t \in Target : q.config <= agents[t]
                      /\ \A c \in q.delegated : c >= q.config
<1>3. request \in [Request -> Asked] /\ \A q \in Request : Fits(request[q])
  BY <1>1 DEF TypeOK, VersionsInv, ReloadInv, DelegationsCurrent
<1>4. PICK new : Fits(new) /\ request' = [request EXCEPT ![r] = new]
  <2>1. CASE Resolve(r)
    <3> DEFINE new == [at |-> "in", config |-> instance.config, tools |-> instance.tools,
                       delegated |-> {}]
    <3>1. instance.config \in Version /\ instance.tools \in [Server -> Conn]
          /\ \A t \in Target : instance.config <= agents[t]
      BY <1>1 DEF TypeOK, Instance, VersionsInv
    <3>2. new \in Asked /\ new.config = instance.config /\ new.delegated = {} BY <3>1
    <3> QED BY <2>1, <3>1, <3>2 DEF Resolve
  <2>2. CASE Delegate(r)
    <3>0. PICK t \in agents.clients :
             request' = [request EXCEPT ![r].delegated = @ \cup {agents[t]}]
      BY <2>2 DEF Delegate
    <3> DEFINE new == [request[r] EXCEPT !.delegated = @ \cup {agents[t]}]
    <3>1. t \in Target /\ agents[t] \in Version BY <1>1, <3>0, AgentsFit DEF TypeOK
    <3>2. Fits(request[r]) BY <1>3
    <3>3. new \in Asked /\ new.config = request[r].config
          /\ new.delegated = request[r].delegated \cup {agents[t]}
      BY <3>1, <3>2
    <3>4. agents[t] >= request[r].config BY <3>1, <3>2 DEF Version, BoundsFit
    <3> HIDE DEF new
    <3>5. Fits(new) BY <3>2, <3>3, <3>4
    <3> QED BY <3>0, <3>5 DEF new
  <2>3. CASE Finish(r)
    <3> DEFINE new == [request[r] EXCEPT !.at = "done"]
    <3>1. Fits(request[r]) BY <1>3
    <3>2. new \in Asked /\ new.config = request[r].config /\ new.delegated = request[r].delegated
      BY <3>1
    <3> HIDE DEF new
    <3>3. Fits(new) BY <3>1, <3>2
    <3> QED BY <2>3, <3>3 DEF Finish, new
  <2> QED BY <2>1, <2>2, <2>3
<1>5. request' \in [Request -> Asked] /\ \A q \in Request : Fits(request'[q])
  BY <1>3, <1>4
<1>6. TypeOK' BY <1>1, <1>2, <1>5 DEF TypeOK, mcpVars, coreVars
<1>7. ConnsInv' BY <1>1, <1>2 DEF ConnsInv, Used, mcpVars
<1>8. VersionsInv' BY <1>1, <1>2, <1>5 DEF VersionsInv, coreVars
<1>9. DelegationsCurrent' BY <1>5 DEF DelegationsCurrent
<1>10. (OpenAreManaged /\ CleanReloadIsUsable /\ HangupHeard)'
  BY <1>1, <1>2 DEF ReloadInv, OpenAreManaged, CleanReloadIsUsable, HangupHeard, Used,
                    mcpVars, coreVars
<1> QED BY <1>6, <1>7, <1>8, <1>9, <1>10 DEF ReloadIInv, ReloadInv

-----------------------------------------------------------------------------
(* watchReload *)

\* While a reload is under way nothing is claimed of the connections, and of
\* the signals only that what it is to publish is not too old.
LEMMA BusyKeeps ==
    ASSUME ReloadIInv, TypeOK', ConnsInv', pc' \notin {"idle", "assign", "clients", "registry"},
           UNCHANGED <<file, hupped, coreVars, request>>
    PROVE  ReloadIInv'
<1>1. VersionsInv' BY DEF ReloadIInv, VersionsInv, coreVars
<1>2. (OpenAreManaged /\ CleanReloadIsUsable /\ HangupHeard /\ DelegationsCurrent)'
  BY DEF ReloadIInv, ReloadInv, OpenAreManaged, CleanReloadIsUsable, HangupHeard, DelegationsCurrent
<1> QED BY <1>1, <1>2 DEF ReloadIInv, ReloadInv

\* and of a reload: it begins,
LEMMA TakeKeeps == ASSUME ReloadIInv, Take PROVE ReloadIInv'
<1>1. TypeOK /\ ConnsInv /\ pc = "idle" BY DEF ReloadIInv, ReloadInv, Take
<1>2. TypeOK'
  <2>1. hangups' \in 0 .. 1 /\ pc' = "load" BY DEF Take
  <2>2. failed' \in BOOLEAN BY Zenon DEF Take
  <2>3. UNCHANGED <<file, hupped, mcpVars, coreVars, request>> BY DEF Take
  <2> QED BY <1>1, <2>1, <2>2, <2>3 DEF TypeOK, mcpVars, coreVars
<1>3. ConnsInv' BY <1>1 DEF Take, ConnsInv, Used, mcpVars
<1> QED BY <1>2, <1>3, BusyKeeps DEF Take

\* reads mcp.json,
LEMMA LoadKeeps == ASSUME BoundsFit, ReloadIInv, LoadMCP PROVE ReloadIInv'
<1>1. TypeOK /\ ConnsInv /\ pc = "load" BY DEF ReloadIInv, ReloadInv, LoadMCP
<1>2. Absent \in Session /\ Absent.conn = 0 /\ 0 \in Version
  BY DEF Absent, Session, Conn, Version, BoundsFit
<1>3. CASE file.broken = "mcp"
  <2>1. TypeOK' BY <1>1, <1>2, <1>3 DEF LoadMCP, TypeOK, coreVars
  <2>2. ConnsInv' BY <1>1, <1>3 DEF LoadMCP, ConnsInv, Used
  <2> QED BY <1>3, <2>1, <2>2, BusyKeeps DEF LoadMCP
<1>4. CASE file.broken # "mcp"
  <2>1. TypeOK' BY <1>1, <1>2, <1>4 DEF LoadMCP, TypeOK, coreVars
  <2>2. \A s \in Server : fresh'[s].conn = 0 BY <1>2, <1>4 DEF LoadMCP
  <2>3. Used(fresh') = {} BY <2>2 DEF Used
  <2>4. ConnsInv' BY <1>1, <1>4, <2>2, <2>3 DEF LoadMCP, ConnsInv
  <2> QED BY <1>4, <2>1, <2>4, BusyKeeps DEF LoadMCP
<1> QED BY <1>3, <1>4

\* keeps or dials a session,
LEMMA DialKeeps == ASSUME BoundsFit, ReloadIInv, NEW s \in Server, Dial(s) PROVE ReloadIInv'
<1>1. TypeOK /\ ConnsInv /\ pc = "dial" /\ s \in todo /\ fresh[s].conn = 0
  BY DEF ReloadIInv, ReloadInv, Dial, ConnsInv
<1>2. /\ UNCHANGED <<file, hangups, hupped, pc, loaded, stale, manager, coreVars, failed, request>>
      /\ todo' = todo \ {s}
  BY DEF Dial
<1>3. ASSUME NEW new \in Session, fresh' = [fresh EXCEPT ![s] = new],
             conns' \in Conn, open' = open \cup ({new.conn} \ {0}), open' \subseteq 1 .. conns'
      PROVE  ReloadIInv'
  <2>1. fresh' \in [Server -> Session] /\ Used(fresh') = Used(fresh) \cup ({new.conn} \ {0})
        /\ \A t \in Server \ {s} : fresh'[t] = fresh[t]
    <3>1. fresh \in [Server -> Session] BY <1>1 DEF TypeOK
    <3>2. fresh' \in [Server -> Session] /\ Used(fresh') = Used(fresh) \cup ({new.conn} \ {0})
      BY <1>1, <1>3, <3>1, UsedWith
    <3> QED BY <1>3, <3>1, <3>2
  <2>2. TypeOK' BY <1>1, <1>2, <1>3, <2>1 DEF TypeOK, coreVars
  <2>3. ConnsInv' BY <1>1, <1>2, <1>3, <2>1 DEF ConnsInv, TypeOK
  <2> QED BY <1>1, <1>2, <2>2, <2>3, BusyKeeps
<1>4. CASE loaded[s] = 0
  <2>1. UNCHANGED <<fresh, open, conns>> BY <1>4 DEF Dial
  <2>2. TypeOK' BY <1>1, <1>2, <2>1 DEF TypeOK, coreVars
  <2>3. ConnsInv' BY <1>1, <1>2, <2>1 DEF ConnsInv
  <2> QED BY <1>1, <1>2, <2>2, <2>3, BusyKeeps
<1>5. CASE loaded[s] # 0 /\ Reuses(s)
  <2>1. manager[s] \in Session /\ manager[s].conn \in Used(manager)
    BY <1>1, <1>5 DEF TypeOK, Reuses, Used
  <2>2. fresh' = [fresh EXCEPT ![s] = manager[s]] /\ UNCHANGED <<open, conns>> BY <1>5 DEF Dial
  <2>3. open' = open \cup ({manager[s].conn} \ {0}) BY <1>1, <2>1, <2>2 DEF ConnsInv
  <2> QED BY <1>1, <1>3, <2>1, <2>2, <2>3 DEF TypeOK
<1>6. CASE loaded[s] # 0 /\ ~Reuses(s)
  <2>1. loaded[s] \in Version BY <1>1 DEF TypeOK
  <2>2. CASE fresh' = [fresh EXCEPT ![s] = [conn |-> 0, entry |-> loaded[s]]] /\ UNCHANGED <<open, conns>>
    <3> DEFINE new == [conn |-> 0, entry |-> loaded[s]]
    <3>1. new \in Session /\ new.conn = 0 BY <2>1 DEF Session, Conn, BoundsFit
    <3>2. fresh' = [fresh EXCEPT ![s] = new] BY <2>2
    <3> HIDE DEF new
    <3> QED BY <1>1, <1>3, <2>2, <3>1, <3>2 DEF TypeOK
  <2>3. CASE /\ conns < MaxConns
             /\ conns' = conns + 1
             /\ open' = open \cup {conns + 1}
             /\ fresh' = [fresh EXCEPT ![s] = [conn |-> conns + 1, entry |-> loaded[s]]]
    <3> DEFINE new == [conn |-> conns + 1, entry |-> loaded[s]]
    <3>1. conns \in Nat /\ conns + 1 \in Conn /\ open \subseteq 1 .. conns
      BY <1>1, <2>3 DEF TypeOK, Conn, BoundsFit
    <3>2. new \in Session /\ new.conn = conns + 1 /\ {new.conn} \ {0} = {conns + 1}
      BY <2>1, <3>1 DEF Session
    <3>3. fresh' = [fresh EXCEPT ![s] = new] BY <2>3
    <3> HIDE DEF new
    <3>4. open' \subseteq 1 .. conns' BY <2>3, <3>1
    <3> QED BY <1>3, <2>3, <3>1, <3>2, <3>3, <3>4
  <2> QED BY <1>6, <2>2, <2>3 DEF Dial
<1> QED BY <1>4, <1>5, <1>6

\* swaps them,
LEMMA SwapKeeps == ASSUME BoundsFit, ReloadIInv, Swap PROVE ReloadIInv'
<1>1. TypeOK /\ ConnsInv /\ pc = "dial" BY DEF ReloadIInv, ReloadInv, Swap
<1>2. open \subseteq Conn BY <1>1 DEF TypeOK, Conn, BoundsFit
<1>3. stale' = Used(manager) \ Used(fresh) /\ Used(manager') = Used(fresh) /\ pc' = "close"
  BY DEF Swap, Stale
<1>4. TypeOK' BY <1>1, <1>2, <1>3 DEF Swap, TypeOK, ConnsInv, coreVars
<1>5. ConnsInv' BY <1>1, <1>3 DEF Swap, ConnsInv
<1> QED BY <1>3, <1>4, <1>5, BusyKeeps DEF Swap

\* closes those left over,
LEMMA CloseKeeps == ASSUME ReloadIInv, NEW c \in stale, Close(c) PROVE ReloadIInv'
<1>1. TypeOK /\ ConnsInv /\ pc = "close" BY DEF ReloadIInv, ReloadInv, Close
<1>2. TypeOK' BY <1>1 DEF Close, TypeOK, coreVars
<1>3. ConnsInv' BY <1>1 DEF Close, ConnsInv, Used
<1> QED BY <1>1, <1>2, <1>3, BusyKeeps DEF Close

\* goes on to the files,
LEMMA DoneKeeps == ASSUME ReloadIInv, MCPDone PROVE ReloadIInv'
<1>1. TypeOK /\ ConnsInv /\ pc = "close" BY DEF ReloadIInv, ReloadInv, MCPDone
<1>2. TypeOK' BY <1>1 DEF MCPDone, TypeOK, mcpVars, coreVars
<1>3. ConnsInv' BY <1>1 DEF MCPDone, ConnsInv, Used, mcpVars
<1> QED BY <1>2, <1>3, BusyKeeps DEF MCPDone

\* The files are read; a broken one ends the reload and is an error.
LEMMA ReadKeeps ==
    ASSUME BoundsFit, ReloadIInv,
           ReadProviders \/ ReadAgents \/ AssignAgents \/ ConfigureAgentClients
    PROVE  ReloadIInv'
<1>1. /\ TypeOK /\ ReloadInv /\ ConnsInv /\ VersionsInv
      /\ pc \in {"providers", "agents", "assign", "clients"}
  BY DEF ReloadIInv, ReloadInv, ReadProviders, ReadAgents, AssignAgents, ConfigureAgentClients
<1>2. agents \in AgentVars /\ file.config \in Version /\ failed \in BOOLEAN /\ providers \in Version
  BY <1>1 DEF TypeOK
<1>3. UNCHANGED <<file, hangups, hupped, mcpVars, instance, request>>
  BY DEF ReadProviders, ReadAgents, AssignAgents, ConfigureAgentClients
<1>4. /\ providers' \in Version /\ failed' \in BOOLEAN /\ agents' \in AgentVars
      /\ \/ pc' = "idle" /\ failed' /\ agents' = agents
         \/ pc' = "agents" /\ agents' = agents
         \/ pc' = "assign" /\ agents'.global = file.config /\ agents'.other = agents.other
         \/ /\ pc' \in {"clients", "registry"} /\ pc \in {"assign", "clients"}
            /\ agents'.global = agents.global /\ agents'.other = agents.global
  <2>1. CASE ReadProviders BY <1>2, <2>1 DEF ReadProviders
  <2>2. CASE ReadAgents BY <1>2, <2>2 DEF ReadAgents, AgentVars
  <2>3. CASE AssignAgents BY <1>2, <2>3 DEF AssignAgents, AgentVars
  <2>4. CASE ConfigureAgentClients
    BY <1>1, <1>2, <2>4 DEF ConfigureAgentClients, AgentVars, Target, VersionsInv
  <2> QED BY <2>1, <2>2, <2>3, <2>4
<1>5. /\ hupped \in Nat /\ file.config \in Nat /\ instance.config \in Nat
      /\ agents.global \in Nat /\ agents.other \in Nat
      /\ \A r \in Request : request[r].config \in Nat
  BY <1>1, <1>2 DEF TypeOK, Version, Instance, BoundsFit, AgentVars
<1>6. pc' \in {"idle", "agents", "assign", "clients", "registry"} BY <1>4
<1>7. TypeOK' BY <1>1, <1>3, <1>4, <1>6 DEF TypeOK, mcpVars
<1>8. ConnsInv' BY <1>1, <1>3, <1>6 DEF ConnsInv, Used, mcpVars
<1>9. \A t \in Target : agents'[t] \in {agents.global, agents.other, file.config}
  <2>1. \A a : a["global"] = a.global /\ a["other"] = a.other OBVIOUS
  <2> QED BY <1>4, <2>1 DEF Target
<1>10. VersionsInv' BY <1>1, <1>3, <1>4, <1>5, <1>9 DEF VersionsInv, Target
<1>11. DelegationsCurrent' BY <1>1, <1>3 DEF ReloadInv, DelegationsCurrent
<1>12. OpenAreManaged' BY <1>1, <1>3, <1>6 DEF ConnsInv, OpenAreManaged, Used, mcpVars
<1>13. CleanReloadIsUsable' /\ HangupHeard' BY <1>4 DEF CleanReloadIsUsable, HangupHeard
<1> QED BY <1>7, <1>8, <1>10, <1>11, <1>12, <1>13 DEF ReloadIInv, ReloadInv

\* and publishes the instances.
LEMMA PublishKeeps == ASSUME BoundsFit, ReloadIInv, Publish PROVE ReloadIInv'
<1>1. TypeOK /\ ReloadInv /\ ConnsInv /\ VersionsInv /\ pc = "registry"
  BY DEF ReloadIInv, ReloadInv, Publish
<1>2. /\ UNCHANGED <<file, hangups, hupped, mcpVars, providers, agents, failed, request>>
      /\ pc' = "idle"
      /\ instance'.config = agents.global /\ instance'.tools = SafeTools
      /\ instance' = [config |-> agents.global, tools |-> SafeTools]
  BY DEF Publish
<1>3. SafeTools \in [Server -> Conn] /\ \A s \in Server : SafeTools[s] # 0 => SafeTools[s] \in Used(manager)
  BY <1>1 DEF SafeTools, TypeOK, Session, Used
<1>4. TypeOK'
  <2>1. agents.global \in Version BY <1>1 DEF TypeOK, AgentVars
  <2>2. instance' \in Instance BY <1>2, <1>3, <2>1 DEF Instance
  <2> QED BY <1>1, <1>2, <2>2 DEF TypeOK, mcpVars
<1>5. open = Used(manager) BY <1>1 DEF ConnsInv
<1>6. Used(manager') = Used(manager) /\ open' = open BY <1>2 DEF Used, mcpVars
<1>7. ConnsInv' /\ OpenAreManaged' BY <1>2, <1>5, <1>6 DEF ConnsInv, OpenAreManaged
<1>8. VersionsInv' /\ HangupHeard'
  <2>1. agents.global \in Version /\ agents.other = agents.global
    BY <1>1 DEF TypeOK, AgentVars, VersionsInv
  <2>2. \A t \in Target : agents[t] = agents.global BY <2>1 DEF Target
  <2>3. agents.global <= agents.global BY <2>1 DEF Version, BoundsFit
  <2> QED BY <1>1, <1>2, <2>1, <2>2, <2>3 DEF VersionsInv, HangupHeard
<1>9. CleanReloadIsUsable' BY <1>2, <1>3, <1>5, <1>6 DEF CleanReloadIsUsable
<1>10. DelegationsCurrent' BY <1>1, <1>2 DEF ReloadInv, DelegationsCurrent
<1> QED BY <1>4, <1>7, <1>8, <1>9, <1>10 DEF ReloadIInv, ReloadInv

\* Between reloads no connection is leaked and none in use was closed, a reload
\* without an error leaves tools that are connected, no signal is lost, and what
\* a request delegates to is not older than what it resolved (watchReload,
\* MCPReload, Registry.Reload).
THEOREM ReloadHolds == ASSUME BoundsFit PROVE Spec => []ReloadInv
<1>1. Init => ReloadIInv BY ReloadStarts
<1>2. ASSUME ReloadIInv, [Next]_vars PROVE ReloadIInv'
  <2>1. CASE UNCHANGED vars
    <3>1. TypeOK' BY <1>2, <2>1 DEF ReloadIInv, ReloadInv, TypeOK, vars, mcpVars, coreVars
    <3>2. ConnsInv' BY <1>2, <2>1 DEF ReloadIInv, ConnsInv, vars, mcpVars
    <3>3. VersionsInv' BY <1>2, <2>1 DEF ReloadIInv, VersionsInv, vars, coreVars
    <3>4. (OpenAreManaged /\ CleanReloadIsUsable /\ HangupHeard /\ DelegationsCurrent)'
      BY <1>2, <2>1 DEF ReloadIInv, ReloadInv, OpenAreManaged, CleanReloadIsUsable, HangupHeard,
                        DelegationsCurrent, vars, mcpVars, coreVars
    <3> QED BY <3>1, <3>2, <3>3, <3>4 DEF ReloadIInv, ReloadInv
  <2>2. CASE Watch
    BY <1>2, <2>2, TakeKeeps, LoadKeeps, SwapKeeps, DoneKeeps, DialKeeps, CloseKeeps, ReadKeeps,
       PublishKeeps DEF Watch
  <2> QED BY <1>2, <2>1, <2>2, OperatorKeeps, RequestKeeps DEF Next
<1>3. ReloadIInv => ReloadInv BY DEF ReloadIInv
<1> QED BY <1>1, <1>2, <1>3, PTL DEF Spec

-----------------------------------------------------------------------------
(* The skills (Skills) *)

CONSTANTS Creator, Names, Limits, MaxActs

VARIABLES limit, oneRoot, disk, skills, scan, create, use, writes, basis, acts

K == INSTANCE Skills

-----------------------------------------------------------------------------
(* Skills in the order of their directories *)

\* What is assumed of the constants of Skills: there are so many names and acts,
\* limits are numbers, and a creator is neither the reload nor a person.
NamesFit ==
    /\ Names \in Nat /\ MaxActs \in Nat /\ Limits \subseteq Nat
    /\ "reload" \notin Creator /\ "hand" \notin Creator

\* As many as there are, each at a place of its own.
Ranked(found) ==
    /\ IsFiniteSet(found)
    /\ \A s \in found : K!Rank(s) \in Nat
    /\ \A s, t \in found : K!Rank(s) = K!Rank(t) => s = t

\* The entries of first that are within the limit.
Within(first) == {s \in first : Cardinality(K!Before(s, first)) < limit}

\* The module's Cardinality is the standard one.
LEMMA Counts == ASSUME NEW S PROVE K!Cardinality(S) = Cardinality(S)
BY Zenon DEF K!Cardinality, Cardinality

\* What is listed is what is first by rank, as far as the limit allows.
LEMMA ListedIsWithin == ASSUME NEW on PROVE K!Listed(on) = Within(K!FirstOf(K!Loadable(on)))
BY Counts DEF K!Listed, Within

\* Of some ranked skills one comes first.
LEMMA LeastRanked ==
    ASSUME NEW found, Ranked(found), NEW part \in SUBSET found, part # {}
    PROVE  \E s \in part : \A t \in part : K!Rank(s) <= K!Rank(t)
<1> DEFINE R == {ss \in Nat \X Nat : ss[1] < ss[2]}
           ranks == {K!Rank(s) : s \in part}
<1>1. IsWellFoundedOn(R, Nat) BY NatLessThanWellFounded, Zenon DEF OpToRel
<1>2. ranks \subseteq Nat /\ ranks # {} BY DEF Ranked
<1>3. PICK n \in ranks : \A m \in ranks : <<m, n>> \notin R BY <1>1, <1>2, WFMin
<1>4. PICK s \in part : K!Rank(s) = n BY <1>3
<1>5. ASSUME NEW t \in part PROVE K!Rank(s) <= K!Rank(t)
  <2>1. K!Rank(t) \in ranks /\ K!Rank(t) \in Nat /\ n \in Nat BY <1>2
  <2>2. ~(K!Rank(t) < n) BY <1>3, <2>1
  <2> QED BY <1>4, <2>1, <2>2
<1> QED BY <1>5

\* Of each name there is a first.
LEMMA NameHasFirst ==
    ASSUME NEW found, Ranked(found), NEW s \in found
    PROVE  \E u \in K!FirstOf(found) : u.name = s.name /\ K!Rank(u) <= K!Rank(s)
<1> DEFINE same == {t \in found : t.name = s.name}
<1>1. same \in SUBSET found /\ s \in same OBVIOUS
<1>2. PICK u \in same : \A t \in same : K!Rank(u) <= K!Rank(t) BY <1>1, LeastRanked
<1>3. u \in K!FirstOf(found) BY <1>2 DEF K!FirstOf
<1> QED BY <1>1, <1>2, <1>3

\* One skill is kept for each name, and it is one of those found.
LEMMA FirstIsRanked ==
    ASSUME NEW found, Ranked(found)
    PROVE  /\ K!FirstOf(found) \subseteq found /\ Ranked(K!FirstOf(found))
           /\ \A s, t \in K!FirstOf(found) : s.name = t.name => s = t
<1>1. K!FirstOf(found) \in SUBSET found BY DEF K!FirstOf
<1>2. IsFiniteSet(K!FirstOf(found)) BY <1>1, FS_Subset DEF Ranked
<1>3. ASSUME NEW s \in K!FirstOf(found), NEW t \in K!FirstOf(found), s.name = t.name PROVE s = t
  <2>1. K!Rank(s) <= K!Rank(t) /\ K!Rank(t) <= K!Rank(s) BY <1>3 DEF K!FirstOf
  <2> QED BY <1>1, <2>1 DEF Ranked
<1> QED BY <1>1, <1>2, <1>3 DEF Ranked

\* Those before one are finitely many, and fewer than a set that holds it and
\* them.
LEMMA BeforeCounts ==
    ASSUME NEW first, Ranked(first), NEW s \in first
    PROVE  /\ K!Before(s, first) \in SUBSET first /\ IsFiniteSet(K!Before(s, first))
           /\ Cardinality(K!Before(s, first)) \in Nat /\ Cardinality(first) \in Nat
           /\ Cardinality(K!Before(s, first)) < Cardinality(first)
<1>1. /\ K!Before(s, first) \in SUBSET first /\ s \notin K!Before(s, first)
  BY DEF K!Before, Ranked
<1>2. IsFiniteSet(first) BY DEF Ranked
<1>3. /\ IsFiniteSet(K!Before(s, first))
      /\ Cardinality(K!Before(s, first)) <= Cardinality(first)
      /\ Cardinality(first) = Cardinality(K!Before(s, first)) => first = K!Before(s, first)
  BY <1>1, <1>2, FS_Subset
<1>4. Cardinality(K!Before(s, first)) \in Nat /\ Cardinality(first) \in Nat
  BY <1>2, <1>3, FS_CardinalityType
<1> QED BY <1>1, <1>3, <1>4

\* As long as fewer than the limit are taken of those up to some place, they
\* are all.
LEMMA BelowLimitIsAll ==
    ASSUME limit \in Nat, NEW first, Ranked(first),
           NEW part \in SUBSET first,
           \A t \in part, u \in first : K!Rank(u) < K!Rank(t) => u \in part,
           Cardinality(part \cap Within(first)) < limit
    PROVE  part \subseteq Within(first)
<1> DEFINE taken == part \cap Within(first)
           out == {t \in part : t \notin Within(first)}
<1>1. SUFFICES ASSUME out # {} PROVE FALSE OBVIOUS
<1>2. out \in SUBSET first OBVIOUS
<1>3. PICK u \in out : \A t \in out : K!Rank(u) <= K!Rank(t) BY <1>1, <1>2, LeastRanked
<1>4. K!Before(u, first) \subseteq taken
  <2> SUFFICES ASSUME NEW t \in K!Before(u, first) PROVE t \in taken OBVIOUS
  <2>1. t \in first /\ K!Rank(t) < K!Rank(u) BY DEF K!Before
  <2>2. t \in part BY <1>3, <2>1
  <2>3. K!Rank(t) \in Nat /\ K!Rank(u) \in Nat BY <1>2, <2>1 DEF Ranked
  <2>4. ~(K!Rank(u) <= K!Rank(t)) BY <2>1, <2>3
  <2>5. t \notin out BY <1>3, <2>4
  <2> QED BY <2>2, <2>5
<1>5. taken \in SUBSET first /\ IsFiniteSet(first) BY DEF Ranked
<1>6. IsFiniteSet(taken) BY <1>5, FS_Subset
<1>7. Cardinality(taken) \in Nat /\ Cardinality(K!Before(u, first)) \in Nat
      /\ Cardinality(K!Before(u, first)) <= Cardinality(taken)
  BY <1>2, <1>4, <1>6, FS_Subset, FS_CardinalityType, BeforeCounts
<1>8. u \in Within(first) BY <1>2, <1>7 DEF Within
<1> QED BY <1>8

\* A scan that has all that is listed before a skill sees whether to take that.
LEMMA ListedNext ==
    ASSUME limit \in Nat, NEW found, Ranked(found), NEW s \in found,
           NEW taken, taken = {t \in Within(K!FirstOf(found)) : K!Rank(t) < K!Rank(s)}
    PROVE  s \in Within(K!FirstOf(found)) <=> K!Accepts(taken, s)
<1> DEFINE first == K!FirstOf(found)
           part == K!Before(s, first)
<1>1. /\ first \subseteq found /\ Ranked(first)
      /\ \A t, u \in first : t.name = u.name => t = u
  BY FirstIsRanked
<1>2. /\ part \in SUBSET first /\ taken = part \cap Within(first)
      /\ \A t \in first : t \in part <=> K!Rank(t) < K!Rank(s)
  BY DEF K!Before, Within
<1>3. \A t \in found : K!Rank(t) \in Nat BY DEF Ranked
<1>4. IsFiniteSet(part) /\ Cardinality(part) \in Nat
  BY <1>1, <1>2, FS_Subset, FS_CardinalityType DEF Ranked
<1>5. IsFiniteSet(taken) /\ Cardinality(taken) \in Nat /\ Cardinality(taken) <= Cardinality(part)
  BY <1>2, <1>4, FS_Subset, FS_CardinalityType
<1>6. K!Accepts(taken, s) <=> (\A t \in taken : t.name # s.name) /\ Cardinality(taken) < limit
  BY Counts DEF K!Accepts
<1>7. ASSUME s \in Within(first) PROVE K!Accepts(taken, s)
  <2>1. s \in first /\ Cardinality(part) < limit BY <1>7 DEF Within
  <2>2. ASSUME NEW t \in taken PROVE t.name # s.name
    <3>1. t \in first /\ K!Rank(t) < K!Rank(s) BY <1>2
    <3>2. t # s BY <1>1, <1>3, <3>1
    <3> QED BY <1>1, <2>1, <3>1, <3>2
  <2> QED BY <1>4, <1>5, <1>6, <2>1, <2>2
<1>8. ASSUME K!Accepts(taken, s) PROVE s \in Within(first)
  <2>1. Cardinality(part \cap Within(first)) < limit BY <1>2, <1>6, <1>8
  <2>2. \A t \in part, u \in first : K!Rank(u) < K!Rank(t) => u \in part
    <3> SUFFICES ASSUME NEW t \in part, NEW u \in first, K!Rank(u) < K!Rank(t)
                 PROVE  u \in part
      OBVIOUS
    <3>1. K!Rank(t) < K!Rank(s) BY <1>2
    <3>2. K!Rank(t) \in Nat /\ K!Rank(u) \in Nat /\ K!Rank(s) \in Nat BY <1>1, <1>2, <1>3
    <3>3. K!Rank(u) < K!Rank(s) BY <3>1, <3>2
    <3> QED BY <1>2, <3>3
  <2>3. part \subseteq Within(first) BY <1>1, <1>2, <2>1, <2>2, BelowLimitIsAll
  <2>4. taken = part BY <1>2, <2>3
  <2>5. s \in first
    <3>1. PICK u \in first : u.name = s.name /\ K!Rank(u) <= K!Rank(s) BY NameHasFirst
    <3>2. SUFFICES ASSUME u # s PROVE FALSE BY <3>1
    <3>3. K!Rank(u) # K!Rank(s) BY <1>1, <3>2 DEF Ranked
    <3>4. K!Rank(u) < K!Rank(s) BY <1>1, <1>3, <3>1, <3>3
    <3>5. u \in taken BY <1>2, <2>4, <3>4
    <3> QED BY <1>6, <1>8, <3>1, <3>5
  <2> QED BY <1>6, <1>8, <2>4, <2>5 DEF Within
<1> QED BY <1>7, <1>8

\* One skill in place of another of its name, at its place.
LEMMA ListedReplaced ==
    ASSUME limit \in Nat, NEW found, Ranked(found),
           NEW u \in Within(K!FirstOf(found)), NEW v,
           K!Rank(v) = K!Rank(u), v.name = u.name,
           NEW now, now = (found \ {u}) \cup {v}
    PROVE  /\ v \in Within(K!FirstOf(now))
           /\ Within(K!FirstOf(found)) \ {u} \subseteq Within(K!FirstOf(now))
<1> DEFINE first == K!FirstOf(found)
           new == K!FirstOf(now)
<1>1. /\ first \subseteq found /\ Ranked(first) /\ u \in first
      /\ \A t, w \in first : t.name = w.name => t = w
  BY FirstIsRanked DEF Within
<1>2. \A t \in found : K!Rank(t) \in Nat /\ (K!Rank(t) = K!Rank(u) => t = u)
  BY <1>1 DEF Ranked
<1>3. v = u \/ v \notin found BY <1>2
<1>4. new = (first \ {u}) \cup {v}
  <2>1. v \in new
    <3>1. \A t \in found : t.name = u.name => K!Rank(u) <= K!Rank(t) BY <1>1 DEF K!FirstOf
    <3>2. K!Rank(v) <= K!Rank(v) BY <1>1, <1>2
    <3> QED BY <3>1, <3>2 DEF K!FirstOf
  <2>2. ASSUME NEW t, t # v PROVE t \in new <=> t \in first \ {u}
    <3>1. t \in now <=> t \in found \ {u} BY <2>2
    <3>2. \A w \in found : K!Rank(t) <= K!Rank(w) <=> K!Rank(t) <= K!Rank(IF w = u THEN v ELSE w)
      OBVIOUS
    <3>3. (\A w \in now : w.name = t.name => K!Rank(t) <= K!Rank(w))
            <=> (\A w \in found : w.name = t.name => K!Rank(t) <= K!Rank(w))
      BY <1>1
    <3> QED BY <3>1, <3>3 DEF K!FirstOf
  <2> QED BY <1>3, <2>1, <2>2
<1>5. ASSUME NEW t \in first
      PROVE  LET s == IF t = u THEN v ELSE t
             IN  Cardinality(K!Before(s, new)) = Cardinality(K!Before(t, first))
  <2> DEFINE s == IF t = u THEN v ELSE t
             old == K!Before(t, first)
  <2>1. K!Rank(s) = K!Rank(t) OBVIOUS
  <2>2. IsFiniteSet(old) /\ old \subseteq first BY <1>1, BeforeCounts
  <2>3. CASE u \notin old
    <3>1. v = u \/ ~(K!Rank(v) < K!Rank(t)) BY <1>1, <2>3 DEF K!Before
    <3>2. ~(K!Rank(u) < K!Rank(t)) BY <1>1, <2>3 DEF K!Before
    <3>3. K!Before(s, new) = old BY <1>4, <2>1, <3>2 DEF K!Before
    <3> QED BY <3>3
  <2>4. CASE u \in old
    <3>1. K!Rank(u) < K!Rank(t) BY <2>4 DEF K!Before
    <3>2. K!Before(s, new) = (old \ {u}) \cup {v} BY <1>4, <2>1, <3>1 DEF K!Before
    <3>3. CASE v = u BY <2>4, <3>2, <3>3
    <3>4. CASE v \notin found
      <4>1. v \notin old \ {u} BY <1>1, <2>2, <3>4
      <4>2. IsFiniteSet(old \ {u}) /\ Cardinality(old \ {u}) = Cardinality(old) - 1
        BY <2>2, <2>4, FS_RemoveElement
      <4>3. Cardinality((old \ {u}) \cup {v}) = Cardinality(old \ {u}) + 1
        BY <4>1, <4>2, FS_AddElement
      <4>4. Cardinality(old) \in Nat BY <2>2, FS_CardinalityType
      <4>5. Cardinality((old \ {u}) \cup {v}) = Cardinality(old) BY <4>2, <4>3, <4>4
      <4> QED BY <3>2, <4>5
    <3> QED BY <1>3, <3>3, <3>4
  <2> QED BY <2>3, <2>4
<1>6. ASSUME NEW t \in Within(first)
      PROVE  (IF t = u THEN v ELSE t) \in Within(new)
  <2>1. t \in first /\ Cardinality(K!Before(t, first)) < limit BY <1>6 DEF Within
  <2>2. (IF t = u THEN v ELSE t) \in new BY <1>4, <2>1
  <2> QED BY <1>5, <2>1, <2>2 DEF Within
<1> QED BY <1>6

\* One skill of a new name, in place of what is no longer there, while there is
\* room.
LEMMA ListedAdded ==
    ASSUME limit \in Nat, NEW found, Ranked(found),
           Cardinality(Within(K!FirstOf(found))) < limit,
           NEW v, \A s \in Within(K!FirstOf(found)) : s.name # v.name,
           NEW now, Ranked(now), v \in now, now \subseteq found \cup {v}
    PROVE  /\ \A s \in found : s.name # v.name
           /\ v \in Within(K!FirstOf(now))
           /\ found \subseteq now => Within(K!FirstOf(found)) \subseteq Within(K!FirstOf(now))
<1> DEFINE first == K!FirstOf(found)
           new == K!FirstOf(now)
<1>1. /\ first \subseteq found /\ Ranked(first)
      /\ \A t, w \in first : t.name = w.name => t = w
  BY FirstIsRanked
<1>2. /\ new \subseteq now /\ Ranked(new)
      /\ \A t, w \in new : t.name = w.name => t = w
  BY FirstIsRanked
<1>3. first = Within(first)
  <2>1. Within(first) \subseteq first BY DEF Within
  <2>2. first \cap Within(first) = Within(first) BY <2>1
  <2>3. first \subseteq Within(first) BY <1>1, <2>2, BelowLimitIsAll
  <2> QED BY <2>1, <2>3
<1>4. \A s \in found : s.name # v.name BY <1>3, NameHasFirst
<1>5. v \in new
  <2>1. \A t \in now : t.name = v.name => t = v BY <1>4
  <2>2. K!Rank(v) <= K!Rank(v) BY DEF Ranked
  <2> QED BY <2>1, <2>2 DEF K!FirstOf
<1>6. Cardinality(new) <= limit
  <2> DEFINE f == [s \in new |-> IF s = v THEN v ELSE CHOOSE t \in first : t.name = s.name]
  <2>1. ASSUME NEW s \in new, s # v PROVE f[s] \in first /\ f[s].name = s.name
    <3>1. s \in found BY <1>2, <2>1
    <3>2. \E t \in first : t.name = s.name BY <3>1, NameHasFirst
    <3> QED BY <2>1, <3>2
  <2>2. f \in [new -> first \cup {v}] BY <2>1
  <2>3. ASSUME NEW s \in new, NEW t \in new, f[s] = f[t] PROVE s = t
    <3>1. f[s].name = s.name /\ f[t].name = t.name BY <2>1, <1>5
    <3> QED BY <1>2, <2>3, <3>1
  <2> HIDE DEF f
  <2>4. f \in Injection(new, first \cup {v}) BY <2>2, <2>3 DEF Injection, IsInjective
  <2>5. IsFiniteSet(first) BY <1>1 DEF Ranked
  <2>6. /\ IsFiniteSet(first \cup {v})
        /\ Cardinality(first \cup {v}) <= Cardinality(first) + 1
        /\ Cardinality(first) \in Nat
    <3>1. Cardinality(first) \in Nat BY <2>5, FS_CardinalityType
    <3>2. /\ IsFiniteSet(first \cup {v})
          /\ Cardinality(first \cup {v}) =
                IF v \in first THEN Cardinality(first) ELSE Cardinality(first) + 1
      BY <2>5, FS_AddElement, Zenon
    <3> QED BY <3>1, <3>2
  <2>7. Cardinality(new) <= Cardinality(first \cup {v}) BY <2>4, <2>6, FS_Injection
  <2>8. Cardinality(new) \in Nat /\ Cardinality(first \cup {v}) \in Nat
    BY <1>2, <2>6, FS_CardinalityType DEF Ranked
  <2> QED BY <1>3, <2>6, <2>7, <2>8
<1>7. new = Within(new)
  <2>1. ASSUME NEW s \in new PROVE Cardinality(K!Before(s, new)) < limit
    BY <1>2, <1>6, BeforeCounts
  <2> QED BY <2>1 DEF Within
<1>8. ASSUME found \subseteq now PROVE first \subseteq new
  <2>1. now = found \cup {v} BY <1>8
  <2> QED BY <1>4, <2>1 DEF K!FirstOf
<1> QED BY <1>3, <1>4, <1>5, <1>7, <1>8

-----------------------------------------------------------------------------
(* What the roots hold *)

Disk == [K!Root -> [K!Name -> {K!NoBundle} \cup K!AnyBundle]]

SameDirectory(s, r, d) == s.root = r /\ s.dir = d

\* The fields of a skill read from a bundle.
LEMMA SkillFields ==
    ASSUME NEW r, NEW d, NEW b
    PROVE  /\ K!Skill(r, d, b).root = r /\ K!Skill(r, d, b).dir = d
           /\ K!Skill(r, d, b).name = b.name /\ K!Skill(r, d, b).text = b.text
BY DEF K!Skill

\* The fields of a bundle that create writes.
LEMMA BundleFields ==
    ASSUME NEW n, NEW t
    PROVE  K!Bundle(n, t).kind = "skill" /\ K!Bundle(n, t).name = n /\ K!Bundle(n, t).text = t
BY DEF K!Bundle

\* What can be loaded is what lies in the roots as a skill, with the name it
\* gives itself.
LEMMA LoadableIs ==
    ASSUME NEW on \in Disk
    PROVE  /\ \A s \in K!Loadable(on) :
                 /\ s.root \in K!Root /\ s.dir \in K!Name
                 /\ on[s.root][s.dir].kind = "skill"
                 /\ s = K!Skill(s.root, s.dir, on[s.root][s.dir])
                 /\ s.name = on[s.root][s.dir].name
                 /\ s \in K!AnySkill
           /\ \A r \in K!Root, d \in K!Name :
                 on[r][d].kind = "skill" => K!Skill(r, d, on[r][d]) \in K!Loadable(on)
<1>1. ASSUME NEW s \in K!Loadable(on)
      PROVE  \E r \in K!Root, d \in K!Name :
                on[r][d].kind = "skill" /\ s = K!Skill(r, d, on[r][d])
  BY DEF K!Loadable
<1>2. ASSUME NEW s \in K!Loadable(on)
      PROVE  /\ s.root \in K!Root /\ s.dir \in K!Name
             /\ on[s.root][s.dir].kind = "skill"
             /\ s = K!Skill(s.root, s.dir, on[s.root][s.dir])
             /\ s.name = on[s.root][s.dir].name
             /\ s \in K!AnySkill
  <2>1. PICK r \in K!Root, d \in K!Name :
           on[r][d].kind = "skill" /\ s = K!Skill(r, d, on[r][d])
    BY <1>1
  <2>2. s.root = r /\ s.dir = d /\ s.name = on[r][d].name BY <2>1, SkillFields
  <2>3. on[r][d] \in {K!NoBundle} \cup K!AnyBundle /\ K!NoBundle.kind = "none"
    BY DEF Disk, K!NoBundle
  <2>4. on[r][d] \in K!AnyBundle BY <2>1, <2>3
  <2>5. s \in K!AnySkill BY <2>1, <2>4 DEF K!AnySkill
  <2> QED BY <2>1, <2>2, <2>5
<1>3. ASSUME NEW r \in K!Root, NEW d \in K!Name, on[r][d].kind = "skill"
      PROVE  K!Skill(r, d, on[r][d]) \in K!Loadable(on)
  <2>1. <<r, d>> \in {y \in K!Root \X K!Name : on[y[1]][y[2]].kind = "skill"} BY <1>3
  <2> QED BY <2>1 DEF K!Loadable
<1> QED BY <1>2, <1>3

\* Ranks tell the skills of a disk apart.
LEMMA LoadableRanked ==
    ASSUME NamesFit, NEW on \in Disk PROVE Ranked(K!Loadable(on))
<1> DEFINE found == K!Loadable(on)
           f == [s \in found |-> K!Rank(s)]
<1>1. ASSUME NEW s \in found
      PROVE  /\ s.root \in {"project", "user"} /\ s.dir \in 1 .. Names
             /\ s = K!Skill(s.root, s.dir, on[s.root][s.dir])
  BY LoadableIs DEF K!Root, K!Name
<1>2. Names \in Nat BY DEF NamesFit
<1>3. \A s \in found : K!Rank(s) \in 0 .. Names + Names BY <1>1, <1>2 DEF K!Rank
<1>4. ASSUME NEW s \in found, NEW t \in found, K!Rank(s) = K!Rank(t) PROVE s = t
  <2>1. s.root = t.root /\ s.dir = t.dir BY <1>1, <1>2, <1>4 DEF K!Rank
  <2> QED BY <1>1, <2>1
<1>5. f \in Injection(found, 0 .. Names + Names)
  BY <1>3, <1>4 DEF Injection, IsInjective
<1>6. 0 \in Int /\ Names + Names \in Int BY <1>2
<1>7. IsFiniteSet(0 .. Names + Names) BY <1>6, FS_Interval
<1>8. IsFiniteSet(found) BY <1>5, <1>7, FS_Injection
<1> QED BY <1>2, <1>3, <1>4, <1>8 DEF Ranked

\* Whether a call may write, by what the roots hold: skillCreateConflict with a
\* catalog that is current.
Free(on, n, r, overwrite) ==
    IF \A s \in K!Listed(on) : s.name # n
    THEN Cardinality(K!Listed(on)) < limit
    ELSE overwrite /\ \A s \in K!Listed(on) : s.name = n => s.root = r

NamedOn(on) ==
    \A r \in K!Root, d \in K!Name : on[r][d].kind = "skill" => on[r][d].name = d

Put(on, r, n, text) == [on EXCEPT ![r][n] = K!Bundle(n, text)]

\* A skill written where nothing was in its way is listed, and takes no other
\* skill off the list than the one it overwrites.
LEMMA WriteListed ==
    ASSUME NamesFit, limit \in Nat, NEW on \in Disk,
           NEW n \in K!Name, NEW r \in K!Root, NEW overwrite \in BOOLEAN, NEW text \in K!Texts,
           Free(on, n, r, overwrite),
           NEW now, now = Put(on, r, n, text)
    PROVE  /\ now \in Disk
           /\ NamedOn(now) => K!Skill(r, n, K!Bundle(n, text)) \in K!Listed(now)
           /\ NamedOn(on) => \A s \in K!Listed(on) \ K!Listed(now) :
                                s.name = n /\ s.root = r /\ overwrite
<1> DEFINE b == K!Bundle(n, text)
           v == K!Skill(r, n, b)
           found == K!Loadable(on)
           held == K!Loadable(now)
<1>1. b \in K!AnyBundle /\ b.kind = "skill" /\ b.name = n BY BundleFields DEF K!AnyBundle
<1>2. now \in Disk BY <1>1 DEF Disk, Put
<1>3. /\ now[r][n] = b
      /\ \A p \in K!Root, d \in K!Name : ~(p = r /\ d = n) => now[p][d] = on[p][d]
  BY DEF Disk, Put
<1>4. v.root = r /\ v.dir = n /\ v.name = n BY <1>1, SkillFields
<1> HIDE DEF b, v
<1>5. \A p \in K!Root, d \in K!Name :
          now[p][d].kind = "skill" => K!Skill(p, d, now[p][d]) \in held
  BY <1>2, LoadableIs
<1>6. v \in held BY <1>1, <1>3, <1>5 DEF v
<1>7. ASSUME NEW s PROVE s \in held <=> s = v \/ (s \in found /\ ~SameDirectory(s, r, n))
  <2>1. ASSUME s \in held, s # v PROVE s \in found /\ ~SameDirectory(s, r, n)
    <3>1. /\ s.root \in K!Root /\ s.dir \in K!Name /\ now[s.root][s.dir].kind = "skill"
          /\ s = K!Skill(s.root, s.dir, now[s.root][s.dir])
      BY <1>2, <2>1, LoadableIs
    <3>2. ~(s.root = r /\ s.dir = n) BY <1>3, <2>1, <3>1 DEF v
    <3>3. now[s.root][s.dir] = on[s.root][s.dir] BY <1>3, <3>1, <3>2
    <3> QED BY <3>1, <3>2, <3>3, LoadableIs DEF SameDirectory
  <2>2. ASSUME s \in found, ~SameDirectory(s, r, n) PROVE s \in held
    <3>1. /\ s.root \in K!Root /\ s.dir \in K!Name /\ on[s.root][s.dir].kind = "skill"
          /\ s = K!Skill(s.root, s.dir, on[s.root][s.dir])
      BY <2>2, LoadableIs
    <3>2. now[s.root][s.dir] = on[s.root][s.dir] BY <1>3, <2>2, <3>1 DEF SameDirectory
    <3> QED BY <1>5, <3>1, <3>2
  <2> QED BY <1>6, <2>1, <2>2
<1>8. Ranked(found) /\ Ranked(held) BY <1>2, LoadableRanked
<1>9. /\ K!Listed(on) = Within(K!FirstOf(found)) /\ K!Listed(now) = Within(K!FirstOf(held))
      /\ K!Listed(on) \subseteq found
  <2>1. /\ K!Listed(on) = Within(K!FirstOf(found)) /\ K!Listed(now) = Within(K!FirstOf(held))
    BY ListedIsWithin
  <2> QED BY <2>1 DEF Within, K!FirstOf
<1>10. CASE \A s \in K!Listed(on) : s.name # n
  <2>1. Cardinality(Within(K!FirstOf(found))) < limit BY <1>9, <1>10 DEF Free
  <2>2. \A s \in Within(K!FirstOf(found)) : s.name # v.name BY <1>4, <1>9, <1>10
  <2>3. held \subseteq found \cup {v} BY <1>7
  <2>4. /\ \A s \in found : s.name # v.name
        /\ v \in Within(K!FirstOf(held))
        /\ found \subseteq held => Within(K!FirstOf(found)) \subseteq Within(K!FirstOf(held))
    BY <1>6, <1>8, <2>1, <2>2, <2>3, ListedAdded
  <2>5. ASSUME NamedOn(on) PROVE found \subseteq held
    <3> SUFFICES ASSUME NEW s \in found, SameDirectory(s, r, n) PROVE FALSE BY <1>7
    <3>1. s.name = n BY <2>5, LoadableIs DEF NamedOn, SameDirectory
    <3> QED BY <1>4, <2>4, <3>1
  <2> QED BY <1>2, <1>9, <2>4, <2>5 DEF v, b
<1>11. CASE ~\A s \in K!Listed(on) : s.name # n
  <2>1. PICK u \in K!Listed(on) : u.name = n BY <1>11
  <2>2. overwrite /\ u.root = r BY <1>11, <2>1 DEF Free
  <2>3. u \in found /\ u.dir \in K!Name /\ on[r][u.dir].kind = "skill" /\ on[r][u.dir].name = n
    BY <1>9, <2>1, <2>2, LoadableIs
  <2>4. ASSUME NamedOn(on) \/ NamedOn(now)
        PROVE  /\ v \in K!Listed(now) /\ K!Listed(on) \ {u} \subseteq K!Listed(now)
    <3>1. u.dir = n
      <4>1. CASE NamedOn(on) BY <2>3, <4>1 DEF NamedOn
      <4>2. CASE NamedOn(now)
        <5>1. SUFFICES ASSUME u.dir # n PROVE FALSE OBVIOUS
        <5>2. now[r][u.dir] = on[r][u.dir] BY <1>3, <2>3, <5>1
        <5> QED BY <2>3, <4>2, <5>1, <5>2 DEF NamedOn
      <4> QED BY <2>4, <4>1, <4>2
    <3>2. K!Rank(v) = K!Rank(u) /\ v.name = u.name BY <1>4, <2>1, <2>2, <3>1 DEF K!Rank
    <3>3. \A s \in found : SameDirectory(s, r, n) <=> s = u
      <4>1. \A s \in found : SameDirectory(s, r, n) => K!Rank(s) = K!Rank(u)
        BY <2>2, <3>1 DEF SameDirectory, K!Rank
      <4> QED BY <1>8, <2>2, <2>3, <3>1, <4>1 DEF SameDirectory, Ranked
    <3>4. held = (found \ {u}) \cup {v} BY <1>7, <3>3
    <3>5. u \in Within(K!FirstOf(found)) BY <1>9, <2>1
    <3>6. /\ v \in Within(K!FirstOf(held))
          /\ Within(K!FirstOf(found)) \ {u} \subseteq Within(K!FirstOf(held))
      BY <1>8, <3>2, <3>4, <3>5, ListedReplaced
    <3> QED BY <1>9, <3>6
  <2> QED BY <1>2, <2>1, <2>2, <2>4 DEF v, b
<1> QED BY <1>10, <1>11

-----------------------------------------------------------------------------
(* Scans, creators and the catalog *)

ScanRecord == [root : K!Root, left : SUBSET K!Name, accepted : SUBSET K!AnySkill, began : Nat]

\* What a scan has been past.
Behind(q, s) == IF s.root = q.root THEN s.dir \notin q.left ELSE q.root = "user"

\* It has taken what is listed of that, and goes through the rest in order.
Follows(q) ==
    /\ q.left \subseteq K!Entries(disk, q.root)
    /\ \A d \in K!Entries(disk, q.root) \ q.left, e \in q.left : d < e
    /\ q.accepted = {s \in K!Listed(disk) : Behind(q, s)}

\* So it is as long as nothing has changed since it began.
ScanKept(q) == q.began <= writes /\ (q.began = writes => Follows(q))

\* Nothing is in a root that is not one of its own.
RootsKept == \A r \in K!Root : r # K!Place(r) => K!Entries(disk, r) = {}

\* What a creator has written.
Placed(c) == K!Skill(K!Place(create[c].root), create[c].name, K!Bundle(create[c].name, c))

\* A creator that was told it may write may still do so while nothing has changed,
\* as is a name that it was told nobody has;
\* when nothing but its own write has changed anything, and no scan was under way
\* then, every scan since sees what it wrote.
CallKept(c) ==
    /\ create[c].pc = "scanning" <=> scan[c] # K!NoScan
    /\ create[c].pc \in {"absent", "checked"} => create[c].basis <= writes
    /\ create[c].pc = "absent" /\ create[c].clean /\ create[c].basis = writes =>
          \A s \in K!Listed(disk) : s.name # create[c].name
    /\ create[c].pc = "checked" /\ create[c].clean /\ create[c].basis = writes =>
          Free(disk, create[c].name, create[c].root, create[c].overwrite)
    /\ create[c].pc = "scanning" => create[c].basis + 1 <= scan[c].began
    /\ create[c].pc \in {"scanning", "scanned", "loaded"} =>
          /\ create[c].basis + 1 <= writes
          /\ create[c].clean /\ writes = create[c].basis + 1 =>
                /\ \A p \in K!Scanner : scan[p] # K!NoScan => scan[p].began = writes
                /\ create[c].pc \in {"scanned", "loaded"} => basis = writes
                /\ K!DirectoriesNamed => Placed(c) \in K!Listed(disk)

ScansKept == \A p \in K!Scanner : scan[p] # K!NoScan => ScanKept(scan[p])

SkillsKept ==
    /\ K!TypeOK /\ RootsKept /\ writes \in Nat /\ basis \in Nat /\ basis <= writes
    /\ K!CatalogCurrent
    /\ ScansKept
    /\ \A c \in Creator : CallKept(c)

\* Whoever scans has a scan record.
LEMMA ScannerFits == \A p \in K!Scanner : scan[p] # K!NoScan /\ K!TypeOK => scan[p] \in ScanRecord
BY DEF K!TypeOK, ScanRecord

\* No scan record is the mark for none.
LEMMA NoScanIsNone == \A q \in ScanRecord : q # K!NoScan
<1>1. \A q \in ScanRecord : q.root \in {"project", "user"} BY DEF ScanRecord, K!Root
<1>2. K!NoScan.root = "none" BY DEF K!NoScan
<1> QED BY <1>1, <1>2

\* What is listed depends on the disk and the limit alone.
LEMMA ListedStays == UNCHANGED <<limit, disk>> => K!Listed(disk)' = K!Listed(disk)
BY DEF K!Listed, K!FirstOf, K!Before, K!Loadable, K!Rank

\* Whether a scan follows the disk depends on the same,
LEMMA FollowsStays ==
    ASSUME UNCHANGED <<limit, disk>>, NEW q PROVE Follows(q)' <=> Follows(q)
<1>1. K!Listed(disk)' = K!Listed(disk) BY ListedStays
<1>2. K!Entries(disk, q.root)' = K!Entries(disk, q.root) BY DEF K!Entries
<1> QED BY <1>1, <1>2 DEF Follows

\* and so does whether a call may write.
LEMMA FreeStays ==
    ASSUME UNCHANGED <<limit, disk>>, NEW n, NEW r, NEW overwrite
    PROVE  Free(disk, n, r, overwrite)' <=> Free(disk, n, r, overwrite)
<1>1. K!Listed(disk)' = K!Listed(disk) BY ListedStays
<1> QED BY <1>1 DEF Free

\* Directories are named as before while the disk stays.
LEMMA NamedStays == UNCHANGED disk => (K!DirectoriesNamed' <=> K!DirectoriesNamed)
BY DEF K!DirectoriesNamed

\* Roots are one directory or two for good.
LEMMA RootsStay == UNCHANGED <<oneRoot, disk>> /\ RootsKept => RootsKept'
BY DEF RootsKept, K!Entries, K!Place

\* What is put into a root of its own is put into no other.
LEMMA RootsFill ==
    ASSUME RootsKept, disk \in Disk, UNCHANGED oneRoot, NEW r \in K!Root, r = K!Place(r),
           NEW d, NEW b, disk' = [disk EXCEPT ![r][d] = b]
    PROVE  RootsKept'
<1> SUFFICES ASSUME NEW s \in K!Root, s # K!Place(s) PROVE K!Entries(disk', s) = {}
  BY DEF RootsKept, K!Entries, K!Place
<1>1. disk'[s] = disk[s] BY DEF Disk
<1> QED BY <1>1 DEF RootsKept, K!Entries

\* A call that may write in its scope may write where it is put.
LEMMA FreeWhereItIsPut ==
    ASSUME disk \in Disk, RootsKept, NEW n, NEW r \in K!Root, NEW o, Free(disk, n, r, o)
    PROVE  Free(disk, n, K!Place(r), o)
<1>1. CASE r = K!Place(r) BY <1>1
<1>2. CASE r # K!Place(r)
  <2>1. ASSUME NEW s \in K!Listed(disk) PROVE s.root # r
    <3>1. s \in K!Loadable(disk) BY DEF K!Listed, K!FirstOf
    <3>2. s.dir \in K!Name /\ disk[s.root][s.dir].kind = "skill" BY <3>1, LoadableIs
    <3>3. disk[s.root][s.dir] # K!NoBundle BY <3>2 DEF K!NoBundle
    <3>4. s.dir \in K!Entries(disk, s.root) BY <3>2, <3>3 DEF K!Entries
    <3> QED BY <1>2, <3>4 DEF RootsKept
  <2> QED BY <2>1 DEF Free
<1> QED BY <1>1, <1>2

\* A scan begins with nothing behind it.
LEMMA NewScanIs ==
    ASSUME NEW on \in Disk, NEW changes \in Nat, NEW q, q = K!NewScan(on, changes)
    PROVE  /\ q \in ScanRecord /\ q.root = "project" /\ q.left = K!Entries(on, "project")
           /\ q.accepted = {} /\ q.began = changes
           /\ \A s \in K!Loadable(on) : ~Behind(q, s)
<1>1. /\ q.root = "project" /\ q.left = K!Entries(on, "project")
      /\ q.accepted = {} /\ q.began = changes
  BY DEF K!NewScan
<1>2. q \in ScanRecord BY DEF K!NewScan, ScanRecord, K!Entries, K!Root
<1>3. ASSUME NEW s \in K!Loadable(on) PROVE ~Behind(q, s)
  <2>1. s.dir \in K!Name /\ on[s.root][s.dir].kind = "skill" BY LoadableIs
  <2>2. on[s.root][s.dir] # K!NoBundle BY <2>1 DEF K!NoBundle
  <2>3. s.dir \in K!Entries(on, s.root) BY <2>1, <2>2 DEF K!Entries
  <2> QED BY <1>1, <2>3 DEF Behind
<1> QED BY <1>1, <1>2, <1>3

\* It sees the roots as they are, or as the step that begins it leaves them.
LEMMA NewScanFollows ==
    ASSUME disk \in Disk, NEW changes \in Nat, NEW q, q = K!NewScan(disk, changes)
    PROVE  Follows(q)
<1>1. \A s \in K!Listed(disk) : s \in K!Loadable(disk) BY DEF K!Listed, K!FirstOf
<1> QED BY <1>1, NewScanIs DEF Follows

\* A scan that begins now follows the disk.
LEMMA NewScanBegins ==
    ASSUME disk' \in Disk, NEW changes \in Nat, NEW q, q = K!NewScan(disk', changes)
    PROVE  Follows(q)'
<1>1. \A s \in K!Listed(disk)' : s \in K!Loadable(disk') BY DEF K!Listed, K!FirstOf, K!Loadable
<1>2. /\ q.root = "project" /\ q.left = K!Entries(disk', "project") /\ q.accepted = {}
      /\ \A s \in K!Loadable(disk') : ~Behind(q, s)
  BY NewScanIs
<1>3. K!Entries(disk, q.root)' = q.left BY <1>2 DEF K!Entries
<1> QED BY <1>1, <1>2, <1>3 DEF Follows, Behind

\* One that goes on leaves all but itself.
LEMMA ScanMoves ==
    ASSUME SkillsKept, NEW p \in K!Scanner, scan[p] # K!NoScan,
           NEW q \in ScanRecord, q.began = scan[p].began, q.began = writes => Follows(q),
           scan' = [scan EXCEPT ![p] = q],
           UNCHANGED <<limit, oneRoot, disk, skills, create, writes, basis, acts>>
    PROVE  SkillsKept'
<1>1. scan \in [K!Scanner -> {K!NoScan} \cup ScanRecord] BY DEF SkillsKept, K!TypeOK, ScanRecord
<1>2. \A t \in K!Scanner : scan'[t] = IF t = p THEN q ELSE scan[t] BY <1>1
<1>3. q # K!NoScan BY NoScanIsNone
<1>4. K!TypeOK' BY <1>1 DEF SkillsKept, K!TypeOK, ScanRecord
<1>5. K!Listed(disk)' = K!Listed(disk) BY ListedStays
<1>6. K!CatalogCurrent' BY <1>5 DEF SkillsKept, K!CatalogCurrent
<1>7. ScansKept'
  <2>1. ASSUME NEW t \in K!Scanner, scan'[t] # K!NoScan PROVE ScanKept(scan'[t])
    BY <1>2, <2>1 DEF SkillsKept, ScansKept, ScanKept
  <2>2. \A r : Follows(r)' <=> Follows(r) BY FollowsStays
  <2> QED BY <2>1, <2>2 DEF ScansKept, ScanKept
<1>8. ASSUME NEW c \in Creator PROVE CallKept(c)'
  <2>1. c \in K!Scanner BY DEF K!Scanner
  <2>2. CallKept(c) BY DEF SkillsKept
  <2>3. \A n, r, o : Free(disk, n, r, o)' <=> Free(disk, n, r, o) BY FreeStays
  <2>4. K!DirectoriesNamed' <=> K!DirectoriesNamed BY NamedStays
  <2>5. \A t \in K!Scanner : /\ scan'[t] # K!NoScan <=> scan[t] # K!NoScan
                             /\ scan'[t].began = scan[t].began
    BY <1>2, <1>3
  <2> QED BY <1>5, <2>1, <2>2, <2>3, <2>4, <2>5 DEF CallKept, Placed, K!Place
<1>9. RootsKept' BY RootsStay DEF SkillsKept
<1> QED BY <1>4, <1>6, <1>7, <1>8, <1>9 DEF SkillsKept

With(old, left, accepted) == [old EXCEPT !.left = left, !.accepted = accepted]

\* The record of a scan after it has moved on.
LEMMA ScanWith ==
    ASSUME NEW old \in ScanRecord, NEW left, NEW accepted
    PROVE  LET q == With(old, left, accepted)
           IN  /\ q.root = old.root /\ q.left = left /\ q.accepted = accepted
               /\ q.began = old.began
               /\ left \subseteq K!Name /\ accepted \subseteq K!AnySkill => q \in ScanRecord
BY DEF ScanRecord, With

\* Visiting an entry takes a skill in where the listing has it.
LEMMA VisitKeeps == ASSUME NamesFit, SkillsKept, NEW p \in K!Scanner, K!Visit(p) PROVE SkillsKept'
<1>1. PICK d \in scan[p].left :
         LET b == disk[scan[p].root][d]
             s == K!Skill(scan[p].root, d, b)
         IN  /\ \A e \in scan[p].left : d <= e
             /\ scan' = [scan EXCEPT
                   ![p].left = @ \ {d},
                   ![p].accepted = IF b.kind = "skill" /\ K!Accepts(@, s) THEN @ \cup {s} ELSE @]
  BY DEF K!Visit
<1> DEFINE old == scan[p]
           b == disk[old.root][d]
           s == K!Skill(old.root, d, b)
           more == IF b.kind = "skill" /\ K!Accepts(old.accepted, s)
                   THEN old.accepted \cup {s} ELSE old.accepted
           q == With(old, old.left \ {d}, more)
<1>2. old \in ScanRecord /\ old # K!NoScan /\ d \in old.left BY ScannerFits DEF SkillsKept, K!Visit
<1> HIDE DEF old, more, b, s
<1>3. /\ q.root = old.root /\ q.left = old.left \ {d} /\ q.accepted = more
      /\ q.began = old.began
  BY <1>2, ScanWith
<1>4. scan \in [K!Scanner -> {K!NoScan} \cup ScanRecord] BY DEF SkillsKept, K!TypeOK, ScanRecord
<1>5. scan' = [scan EXCEPT ![p] = q] BY <1>1, <1>4 DEF old, more, b, s, With
<1>6. /\ old.root \in K!Root /\ old.left \subseteq K!Name /\ d \in K!Name
      /\ old.accepted \subseteq K!AnySkill
  BY <1>2 DEF ScanRecord
<1>7. disk \in Disk /\ limit \in Nat BY DEF SkillsKept, K!TypeOK, Disk, NamesFit
<1>8. b.kind = "skill" => s \in K!Loadable(disk) /\ s \in K!AnySkill BY <1>6, <1>7, LoadableIs DEF b, s
<1>9. more \subseteq K!AnySkill BY <1>6, <1>8 DEF more
<1>10. q \in ScanRecord
  <2>1. old.left \ {d} \subseteq K!Name BY <1>6
  <2> QED BY <1>2, <1>9, <2>1, ScanWith
<1>11. s.root = old.root /\ s.dir = d BY SkillFields DEF s
<1>12. ASSUME q.began = writes PROVE Follows(q)
  <2>1. Follows(old) BY <1>2, <1>3, <1>12 DEF SkillsKept, ScansKept, ScanKept, old
  <2> DEFINE listed == K!Listed(disk)
             first == K!FirstOf(K!Loadable(disk))
  <2>2. listed = Within(first) /\ listed \subseteq K!Loadable(disk)
    <3>1. listed = Within(first) BY ListedIsWithin
    <3> QED BY <3>1 DEF Within, K!FirstOf
  <2>3. old.accepted = {t \in listed : Behind(old, t)} BY <2>1 DEF Follows
  <2>4. Ranked(K!Loadable(disk)) BY <1>7, LoadableRanked
  <2> HIDE DEF q, listed, first
  <2>5. q.left \subseteq K!Entries(disk, q.root) BY <1>3, <2>1 DEF Follows
  <2>6. \A e \in old.left : d <= e BY <1>1 DEF old
  <2>7. \A x \in K!Entries(disk, q.root) \ q.left, e \in q.left : x < e
    <3> SUFFICES ASSUME NEW x \in K!Entries(disk, q.root) \ q.left, NEW e \in q.left
                 PROVE  x < e
      OBVIOUS
    <3>1. e \in old.left /\ e # d /\ d <= e BY <1>3, <2>6
    <3>2. d \in Nat /\ e \in Nat BY <1>6, <3>1 DEF K!Name
    <3>3. CASE x = d BY <3>1, <3>2, <3>3
    <3>4. CASE x # d
      <4>1. x \in K!Entries(disk, old.root) \ old.left BY <1>3, <3>4
      <4> QED BY <2>1, <3>1, <4>1 DEF Follows
    <3> QED BY <3>3, <3>4
  <2>8. ASSUME NEW t \in K!Loadable(disk)
        PROVE  /\ t.dir \in K!Entries(disk, t.root) /\ t.root \in {"project", "user"}
               /\ t.dir \in 1 .. Names
    <3>1. /\ t.root \in K!Root /\ t.dir \in K!Name /\ disk[t.root][t.dir].kind = "skill"
      BY <1>7, LoadableIs
    <3>2. disk[t.root][t.dir] # K!NoBundle BY <3>1 DEF K!NoBundle
    <3> QED BY <3>1, <3>2 DEF K!Entries, K!Root, K!Name
  <2>9. d \in 1 .. Names /\ old.root \in {"project", "user"} BY <1>6 DEF K!Name, K!Root
  <2>10. ASSUME NEW t \in listed
         PROVE  /\ Behind(old, t) <=> K!Rank(t) < K!Rank(s)
                /\ Behind(q, t) <=> Behind(old, t) \/ SameDirectory(t, old.root, d)
    <3>1. /\ t.dir \in K!Entries(disk, t.root) /\ t.root \in {"project", "user"}
          /\ t.dir \in 1 .. Names /\ Names \in Nat
      BY <2>2, <2>8 DEF NamesFit
    <3>2. Behind(q, t) <=> Behind(old, t) \/ SameDirectory(t, old.root, d)
      BY <1>3 DEF Behind, SameDirectory
    <3>3. CASE t.root # old.root
      <4>1. Behind(old, t) <=> old.root = "user" BY <3>3 DEF Behind
      <4> QED BY <1>11, <2>9, <3>1, <3>2, <3>3, <4>1 DEF K!Rank
    <3>4. CASE t.root = old.root
      <4>1. Behind(old, t) <=> t.dir \notin old.left BY <3>4 DEF Behind
      <4>2. t.dir \notin old.left => t.dir < d
        BY <1>2, <2>1, <3>1, <3>4 DEF Follows
      <4>3. t.dir \in old.left => ~(t.dir < d) BY <2>6, <2>9, <3>1
      <4> QED BY <1>11, <2>9, <3>1, <3>2, <3>4, <4>1, <4>2, <4>3 DEF K!Rank
    <3> QED BY <3>3, <3>4
  <2>11. old.accepted = {t \in listed : K!Rank(t) < K!Rank(s)} BY <2>3, <2>10
  <2>12. \A t \in listed : SameDirectory(t, old.root, d) <=> t = s
    <3> SUFFICES ASSUME NEW t \in listed PROVE SameDirectory(t, old.root, d) <=> t = s OBVIOUS
    <3>1. t = K!Skill(t.root, t.dir, disk[t.root][t.dir]) BY <1>7, <2>2, LoadableIs
    <3> QED BY <1>11, <3>1 DEF SameDirectory, s, b
  <2>13. s \in listed <=> b.kind = "skill" /\ K!Accepts(old.accepted, s)
    <3>1. CASE b.kind = "skill"
      <4>1. s \in K!Loadable(disk) BY <1>8, <3>1
      <4>2. s \in Within(K!FirstOf(K!Loadable(disk))) <=> K!Accepts(old.accepted, s)
        BY <1>7, <2>2, <2>4, <2>11, <4>1, ListedNext DEF first
      <4> QED BY <2>2, <3>1, <4>2 DEF first
    <3>2. CASE b.kind # "skill"
      <4>1. s \notin K!Loadable(disk)
        <5>1. s \in K!Loadable(disk) => disk[s.root][s.dir].kind = "skill" BY <1>7, LoadableIs
        <5> QED BY <1>11, <3>2, <5>1 DEF b
      <4> QED BY <2>2, <3>2, <4>1
    <3> QED BY <3>1, <3>2
  <2>14. more = IF s \in listed THEN old.accepted \cup {s} ELSE old.accepted
    BY <2>13 DEF more
  <2>15. q.accepted = {t \in listed : Behind(q, t)}
    <3>1. \A t \in listed : Behind(q, t) <=> t \in old.accepted \/ t = s
      BY <2>3, <2>10, <2>12
    <3>2. old.accepted \subseteq listed BY <2>3
    <3> QED BY <1>3, <2>14, <3>1, <3>2
  <2> QED BY <2>5, <2>7, <2>15 DEF Follows, listed
<1> HIDE DEF q
<1>13. UNCHANGED <<limit, oneRoot, disk, skills, create, writes, basis, acts>> BY DEF K!Visit
<1> QED BY <1>2, <1>3, <1>5, <1>10, <1>12, <1>13, ScanMoves DEF old

\* The second root is read when all of the first is behind.
LEMMA NextRootKeeps == ASSUME NamesFit, SkillsKept, NEW p \in K!Scanner, K!NextRoot(p) PROVE SkillsKept'
<1> USE DEF K!NextRoot
<1> DEFINE old == scan[p]
           q == [old EXCEPT !.root = "user", !.left = K!Entries(disk, "user")]
<1>1. old \in ScanRecord /\ old # K!NoScan BY ScannerFits DEF SkillsKept
<1>2. /\ q.root = "user" /\ q.left = K!Entries(disk, "user") /\ q.accepted = old.accepted
      /\ q.began = old.began
  BY <1>1 DEF ScanRecord
<1>3. scan \in [K!Scanner -> {K!NoScan} \cup ScanRecord] BY DEF SkillsKept, K!TypeOK, ScanRecord
<1>4. scan' = [scan EXCEPT ![p] = q] BY <1>3
<1>5. q \in ScanRecord
  <2>1. K!Entries(disk, "user") \subseteq K!Name BY DEF K!Entries
  <2> QED BY <1>1, <2>1 DEF ScanRecord, K!Root
<1>6. disk \in Disk /\ limit \in Nat BY DEF SkillsKept, K!TypeOK, Disk, NamesFit
<1>7. ASSUME q.began = writes PROVE Follows(q)
  <2>1. Follows(old) BY <1>1, <1>2, <1>7 DEF SkillsKept, ScansKept, ScanKept
  <2>2. ASSUME NEW t \in K!Listed(disk) PROVE Behind(old, t) <=> Behind(q, t)
    <3>1. t \in K!Loadable(disk) BY DEF K!Listed, K!FirstOf
    <3>2. /\ t.root \in {"project", "user"} /\ t.dir \in K!Name
          /\ disk[t.root][t.dir].kind = "skill"
      BY <1>6, <3>1, LoadableIs DEF K!Root
    <3>3. disk[t.root][t.dir] # K!NoBundle BY <3>2 DEF K!NoBundle
    <3>4. t.dir \in K!Entries(disk, t.root) BY <3>2, <3>3 DEF K!Entries
    <3>5. old.root = "project" /\ old.left = {} OBVIOUS
    <3> QED BY <1>2, <3>2, <3>4, <3>5 DEF Behind
  <2> QED BY <1>2, <2>1, <2>2 DEF Follows
<1> HIDE DEF old, q
<1>8. UNCHANGED <<limit, oneRoot, disk, skills, create, writes, basis, acts>> OBVIOUS
<1> QED BY <1>1, <1>2, <1>4, <1>5, <1>7, <1>8, ScanMoves DEF old

CallRecord ==
    [pc : {"absent", "checked", "scanning", "scanned", "loaded"}, name : K!Name, root : K!Root,
     overwrite : BOOLEAN, basis : Nat, clean : BOOLEAN]

InState(call, at) == [call EXCEPT !.pc = at]

\* What the calls of skill_create consist of, and what tells them from no call
\* and from a failed one.
LEMMA CallFields ==
    /\ K!Failed \notin CallRecord /\ K!Failed.pc = "failed"
    /\ K!NoCreate \notin CallRecord /\ K!NoCreate.pc = "idle"
    /\ \A call \in CallRecord :
          /\ call.pc \in {"absent", "checked", "scanning", "scanned", "loaded"} /\ call.name \in K!Name
          /\ call.root \in K!Root /\ call.overwrite \in BOOLEAN
          /\ call.basis \in Nat /\ call.clean \in BOOLEAN
<1>1. \A call \in CallRecord :
         /\ call.pc \in {"absent", "checked", "scanning", "scanned", "loaded"} /\ call.name \in K!Name
         /\ call.root \in K!Root /\ call.overwrite \in BOOLEAN
         /\ call.basis \in Nat /\ call.clean \in BOOLEAN
  BY DEF CallRecord
<1>2. K!Failed.pc = "failed" /\ K!NoCreate.pc = "idle" BY DEF K!Failed, K!NoCreate
<1> QED BY <1>1, <1>2

\* A call that moves on keeps what it was called with.
LEMMA CallMoves ==
    ASSUME NEW call \in CallRecord, NEW at \in {"scanned", "loaded"}
    PROVE  LET now == InState(call, at)
           IN  /\ now \in CallRecord /\ now.pc = at /\ now.name = call.name /\ now.root = call.root
               /\ now.overwrite = call.overwrite /\ now.basis = call.basis /\ now.clean = call.clean
BY DEF CallRecord, InState

Written(call, alone) == [call EXCEPT !.pc = "scanning", !.clean = @ /\ alone]

\* A call that has written knows whether it was alone.
LEMMA CallWritten ==
    ASSUME NEW call \in CallRecord, NEW alone \in BOOLEAN
    PROVE  LET now == Written(call, alone)
           IN  /\ now \in CallRecord /\ now.pc = "scanning" /\ now.name = call.name
               /\ now.root = call.root /\ now.basis = call.basis
               /\ now.clean => call.clean /\ alone
BY DEF CallRecord, Written

\* Each creator has a call, none, or one that failed.
LEMMA CallTypes ==
    ASSUME K!TypeOK, NEW c \in Creator
    PROVE  create[c] \in CallRecord \/ create[c] = K!NoCreate \/ create[c] = K!Failed
BY DEF K!TypeOK, CallRecord

\* Whoever installs the catalog last, it is current when nothing has changed
\* since.
LEMMA InstallKeeps ==
    ASSUME NamesFit, SkillsKept, NEW p \in K!Scanner, K!Install(p) PROVE SkillsKept'
<1> DEFINE old == scan[p]
<1>1. /\ old # K!NoScan /\ old.root = "user" /\ old.left = {}
      /\ skills' = old.accepted /\ basis' = old.began
      /\ scan' = [scan EXCEPT ![p] = K!NoScan]
      /\ create' = IF p = K!Reloader THEN create ELSE [create EXCEPT ![p].pc = "scanned"]
      /\ UNCHANGED <<limit, oneRoot, disk, use, writes, acts>>
  BY DEF K!Install
<1>2. old \in ScanRecord BY <1>1, ScannerFits DEF SkillsKept
<1>3. old.accepted \subseteq K!AnySkill /\ old.began \in Nat BY <1>2 DEF ScanRecord
<1>4. ScanKept(old) BY <1>1 DEF SkillsKept, ScansKept
<1>5. old.began = writes => old.accepted = K!Listed(disk)
  BY <1>1, <1>4 DEF ScanKept, Follows, Behind
<1> HIDE DEF old
<1>6. K!Listed(disk)' = K!Listed(disk) BY <1>1, ListedStays
<1>7. K!CatalogCurrent' BY <1>1, <1>5, <1>6 DEF K!CatalogCurrent
<1>8. basis' \in Nat /\ writes' \in Nat /\ basis' <= writes' /\ RootsKept'
  BY <1>1, <1>3, <1>4, RootsStay DEF SkillsKept, ScanKept
<1>9. scan \in [K!Scanner -> {K!NoScan} \cup ScanRecord] BY DEF SkillsKept, K!TypeOK, ScanRecord
<1>10. \A t \in K!Scanner : scan'[t] = IF t = p THEN K!NoScan ELSE scan[t] BY <1>1, <1>9
<1>11. ScansKept'
  <2>1. \A t \in K!Scanner : scan'[t] # K!NoScan => ScanKept(scan'[t])
    BY <1>10 DEF SkillsKept, ScansKept
  <2>2. \A q : Follows(q)' <=> Follows(q) BY <1>1, FollowsStays
  <2> QED BY <1>1, <2>1, <2>2 DEF ScansKept, ScanKept
<1>12. create \in [Creator -> {K!NoCreate, K!Failed} \cup CallRecord]
  BY DEF SkillsKept, K!TypeOK, CallRecord
<1>13. ASSUME NEW c \in Creator
       PROVE  /\ c # p => create'[c] = create[c]
              /\ c = p => create'[c] = InState(create[c], "scanned")
  <2>1. c = p => p # K!Reloader BY DEF NamesFit, K!Reloader
  <2> QED BY <1>1, <1>12, <2>1 DEF InState
<1>14. ASSUME NEW c \in Creator, c = p PROVE create[c] \in CallRecord /\ create[c].pc = "scanning"
  <2>1. create[c].pc = "scanning" BY <1>1, <1>14 DEF SkillsKept, CallKept, old
  <2> QED BY <1>12, <2>1, CallFields
<1>15. create' \in [Creator -> {K!NoCreate, K!Failed} \cup CallRecord]
  <2>1. \A c \in Creator : create'[c] \in {K!NoCreate, K!Failed} \cup CallRecord
    BY <1>12, <1>13, <1>14, CallMoves
  <2> QED BY <1>1, <1>12, <2>1
<1>16. K!TypeOK' BY <1>1, <1>3, <1>9, <1>15 DEF SkillsKept, K!TypeOK, ScanRecord, CallRecord
<1>17. ASSUME NEW c \in Creator PROVE CallKept(c)'
  <2>1. c \in K!Scanner /\ CallKept(c) BY DEF K!Scanner, SkillsKept
  <2>2. \A n, r, o : Free(disk, n, r, o)' <=> Free(disk, n, r, o) BY <1>1, FreeStays
  <2>3. K!DirectoriesNamed' <=> K!DirectoriesNamed BY <1>1, NamedStays
  <2>4. CASE c # p
    <3>1. create'[c] = create[c] /\ scan'[c] = scan[c] BY <1>10, <1>13, <2>1, <2>4
    <3>2. create[c].pc \in {"scanning", "scanned", "loaded"} /\ create[c].clean
            /\ writes = create[c].basis + 1
          => basis' = writes /\ \A t \in K!Scanner : scan'[t] # K!NoScan => scan'[t].began = writes
      BY <1>1, <1>10, <2>1 DEF CallKept, old
    <3>3. Placed(c)' = Placed(c) BY <1>1, <3>1 DEF Placed, K!Place
    <3> QED BY <1>1, <1>6, <2>1, <2>2, <2>3, <3>1, <3>2, <3>3 DEF CallKept
  <2>5. CASE c = p
    <3>1. scan'[c] = K!NoScan BY <1>10, <2>1, <2>5
    <3>2. create[c] \in CallRecord /\ create[c].pc = "scanning" BY <1>14, <2>5
    <3>3. /\ create'[c].pc = "scanned" /\ create'[c].name = create[c].name
          /\ create'[c].root = create[c].root /\ create'[c].basis = create[c].basis
          /\ create'[c].clean = create[c].clean
      BY <1>13, <2>5, <3>2, CallMoves
    <3>4. create[c].basis + 1 <= writes BY <2>1, <3>2 DEF CallKept
    <3>5. create[c].clean /\ writes = create[c].basis + 1
          => /\ \A t \in K!Scanner : scan[t] # K!NoScan => scan[t].began = writes
             /\ K!DirectoriesNamed => Placed(c) \in K!Listed(disk)
      BY <2>1, <3>2 DEF CallKept
    <3>6. create[c].clean /\ writes = create[c].basis + 1 => basis' = writes
      BY <1>1, <3>5 DEF old
    <3>7. create[c].clean /\ writes = create[c].basis + 1
          => \A t \in K!Scanner : scan'[t] # K!NoScan => scan'[t].began = writes
      BY <1>10, <3>5
    <3>8. Placed(c)' = Placed(c) BY <1>1, <3>3 DEF Placed, K!Place
    <3>9. writes' = writes BY <1>1
    <3> QED BY <1>6, <2>3, <3>1, <3>3, <3>4, <3>5, <3>6, <3>7, <3>8, <3>9 DEF CallKept
  <2> QED BY <2>4, <2>5
<1> QED BY <1>7, <1>8, <1>11, <1>16, <1>17 DEF SkillsKept

\* A call stays as it is when others change nothing, or something on disk.
LEMMA CallStays ==
    ASSUME SkillsKept, NEW c \in Creator, create'[c] = create[c],
           UNCHANGED <<limit, oneRoot, disk, scan, writes, basis>>
    PROVE  CallKept(c)'
<1>1. CallKept(c) BY DEF SkillsKept
<1>2. \A n, r, o : Free(disk, n, r, o)' <=> Free(disk, n, r, o) BY FreeStays
<1>3. K!DirectoriesNamed' <=> K!DirectoriesNamed BY NamedStays
<1>4. K!Listed(disk)' = K!Listed(disk) BY ListedStays
<1>5. Placed(c)' = Placed(c) BY DEF Placed, K!Place
<1> QED BY <1>1, <1>2, <1>3, <1>4, <1>5 DEF CallKept

\* A call that somebody else's write passes is no longer promised anything.
LEMMA CallAges ==
    ASSUME SkillsKept, NEW c \in Creator, create'[c] = create[c], scan'[c] = scan[c],
           writes' = writes + 1
    PROVE  CallKept(c)'
<1>1. CallKept(c) /\ writes \in Nat BY DEF SkillsKept
<1>2. create[c] \in CallRecord \/ create[c].pc \in {"idle", "failed"}
  BY CallTypes, CallFields DEF SkillsKept
<1>3. create[c] \in CallRecord => create[c].basis \in Nat BY CallFields
<1>4. create[c].pc \in {"absent", "checked"} => create[c].basis <= writes' /\ create[c].basis # writes'
  BY <1>1, <1>2, <1>3 DEF CallKept
<1>5. create[c].pc \in {"scanning", "scanned", "loaded"}
        => create[c].basis + 1 <= writes' /\ writes' # create[c].basis + 1
  BY <1>1, <1>2, <1>3 DEF CallKept
<1> QED BY <1>1, <1>4, <1>5 DEF CallKept

\* Scans are not overtaken while nothing is written.
LEMMA ScansStay ==
    ASSUME SkillsKept, UNCHANGED <<limit, disk, scan, writes>> PROVE ScansKept'
<1>1. \A q : Follows(q)' <=> Follows(q) BY FollowsStays
<1> QED BY <1>1 DEF SkillsKept, ScansKept, ScanKept

\* A scan that a write overtakes no longer has to follow the disk.
LEMMA ScansAge ==
    ASSUME SkillsKept, UNCHANGED scan, writes' = writes + 1 PROVE ScansKept'
<1>1. ASSUME NEW t \in K!Scanner, scan[t] # K!NoScan
      PROVE  scan[t].began <= writes' /\ scan[t].began # writes'
  <2>1. scan[t] \in ScanRecord BY <1>1, ScannerFits DEF SkillsKept
  <2>2. scan[t].began \in Nat BY <2>1 DEF ScanRecord
  <2>3. scan[t].began <= writes /\ writes \in Nat BY <1>1 DEF SkillsKept, ScansKept, ScanKept
  <2> QED BY <2>2, <2>3
<1> QED BY <1>1 DEF ScansKept, ScanKept

\* A step of one call that leaves the disk and the catalog keeps everything when
\* it keeps what is said of the call.
LEMMA CallSteps ==
    ASSUME SkillsKept, NEW c \in Creator, NEW now \in CallRecord \cup {K!Failed},
           create' = [create EXCEPT ![c] = now], acts' \in 0 .. MaxActs,
           UNCHANGED <<limit, oneRoot, disk, skills, scan, use, writes, basis>>,
           create'[c] = now => CallKept(c)'
    PROVE  SkillsKept'
<1>1. create \in [Creator -> {K!NoCreate, K!Failed} \cup CallRecord]
  BY DEF SkillsKept, K!TypeOK, CallRecord
<1>2. /\ create' \in [Creator -> {K!NoCreate, K!Failed} \cup CallRecord]
      /\ \A d \in Creator : create'[d] = IF d = c THEN now ELSE create[d]
  BY <1>1
<1>3. K!TypeOK' BY <1>2 DEF SkillsKept, K!TypeOK, CallRecord
<1>4. K!Listed(disk)' = K!Listed(disk) BY ListedStays
<1>5. K!CatalogCurrent' BY <1>4 DEF SkillsKept, K!CatalogCurrent
<1>6. ScansKept' /\ RootsKept' BY ScansStay, RootsStay DEF SkillsKept
<1>7. ASSUME NEW d \in Creator PROVE CallKept(d)'
  <2>1. CASE d # c
    <3>1. create'[d] = create[d] BY <1>2, <2>1
    <3> QED BY <3>1, CallStays
  <2>2. CASE d = c BY <1>2, <2>2
  <2> QED BY <2>1, <2>2
<1> QED BY <1>3, <1>5, <1>6, <1>7 DEF SkillsKept

\* A call that is not scanning has no scan.
LEMMA CallAtRest ==
    ASSUME SkillsKept, NEW c \in Creator, create[c].pc # "scanning" PROVE scan[c] = K!NoScan
BY DEF SkillsKept, CallKept

\* A failed call is promised nothing.
LEMMA FailedKeeps ==
    ASSUME SkillsKept, NEW c \in Creator, create[c].pc # "scanning", create'[c] = K!Failed,
           UNCHANGED scan
    PROVE  CallKept(c)'
<1>1. scan'[c] = K!NoScan BY CallAtRest
<1>2. create'[c].pc = "failed" BY CallFields
<1> QED BY <1>1, <1>2 DEF CallKept

\* The check of a name that nobody has says so, and that of another that the call
\* may write, as long as nothing changes.
LEMMA CheckKeeps == ASSUME NamesFit, SkillsKept, NEW c \in Creator, K!Check(c) PROVE SkillsKept'
<1>1. PICK n \in K!Name, r \in K!Root, overwrite \in BOOLEAN :
         /\ acts < MaxActs
         /\ K!MayReplace(n, r, overwrite)
         /\ create' = [create EXCEPT ![c] =
              [pc |-> IF K!Finds(n) = {} THEN "absent" ELSE "checked",
               name |-> n, root |-> r, overwrite |-> overwrite,
               basis |-> writes, clean |-> skills = K!Listed(disk)]]
         /\ acts' = acts + 1
         /\ UNCHANGED <<limit, oneRoot, disk, skills, scan, use, writes, basis>>
  BY DEF K!Check
<1> DEFINE current == skills = K!Listed(disk)
           at == IF K!Finds(n) = {} THEN "absent" ELSE "checked"
           new == [pc |-> at, name |-> n, root |-> r, overwrite |-> overwrite,
                   basis |-> writes, clean |-> current]
<1>2. new \in CallRecord BY DEF CallRecord, SkillsKept
<1>3. /\ new.pc = at /\ new.name = n /\ new.root = r /\ new.overwrite = overwrite
      /\ new.basis = writes /\ new.clean = current
  OBVIOUS
<1>4. create' = [create EXCEPT ![c] = new] BY <1>1
<1> HIDE DEF new
<1>5. acts' \in 0 .. MaxActs BY <1>1 DEF SkillsKept, K!TypeOK, NamesFit
<1>6. K!Listed(disk)' = K!Listed(disk) BY <1>1, ListedStays
<1>7. ASSUME current, at = "absent" PROVE \A s \in K!Listed(disk) : s.name # n
  <2>1. K!Finds(n) = {} BY <1>7
  <2> QED BY <1>7, <2>1 DEF K!Finds
<1>8. ASSUME current, at = "checked" PROVE Free(disk, n, r, overwrite)'
  <2>1. PICK s \in skills : s.name = n BY <1>8 DEF K!Finds
  <2>2. Free(disk, n, r, overwrite) BY <1>1, <1>8, <2>1 DEF K!MayReplace, K!Finds, Free
  <2> QED BY <1>1, <2>2, FreeStays
<1>9. ASSUME create'[c] = new PROVE CallKept(c)'
  <2>1. create[c].pc # "scanning" BY CallFields DEF K!Check
  <2>2. scan'[c] = K!NoScan BY <1>1, <2>1, CallAtRest
  <2>3. writes' = writes /\ writes \in Nat BY <1>1 DEF SkillsKept
  <2>4. /\ create'[c].pc = at /\ create'[c].name = n /\ create'[c].root = r
        /\ create'[c].overwrite = overwrite /\ create'[c].basis = writes
    BY <1>3, <1>9
  <2>5. at = "absent" \/ at = "checked" OBVIOUS
  <2>6. create'[c].clean => current BY <1>3, <1>9, Zenon
  <2> HIDE DEF at, current
  <2>7. create'[c].clean /\ at = "checked" => Free(disk, n, r, overwrite)' BY <1>8, <2>6
  <2>8. create'[c].clean /\ at = "absent" => \A s \in K!Listed(disk)' : s.name # n
    BY <1>6, <1>7, <2>6
  <2> QED BY <2>2, <2>3, <2>4, <2>5, <2>7, <2>8 DEF CallKept
<1> QED BY <1>1, <1>2, <1>4, <1>5, <1>9, CallSteps

Counted(call, current) == [call EXCEPT !.pc = "checked", !.clean = @ /\ current]

\* When it asks for how many there are, it may write for all that the first
\* reading said, as long as nothing changes.
LEMMA CountKeeps == ASSUME NamesFit, SkillsKept, NEW c \in Creator, K!Count(c) PROVE SkillsKept'
<1> DEFINE call == create[c]
           current == skills = K!Listed(disk)
           new == Counted(call, current)
<1>1. /\ call.pc = "absent"
      /\ create' = IF K!Cardinality(skills) < limit THEN [create EXCEPT ![c] = new]
                   ELSE [create EXCEPT ![c] = K!Failed]
      /\ UNCHANGED <<limit, oneRoot, disk, skills, scan, use, writes, basis, acts>>
  <2>1. create \in [Creator -> {K!NoCreate, K!Failed} \cup CallRecord]
    BY DEF SkillsKept, K!TypeOK, CallRecord
  <2> QED BY <2>1 DEF K!Count, Counted
<1>2. acts' \in 0 .. MaxActs /\ CallKept(c) /\ writes \in Nat BY <1>1 DEF SkillsKept, K!TypeOK
<1>3. call \in CallRecord BY <1>1, CallTypes, CallFields DEF SkillsKept
<1>4. CASE ~(K!Cardinality(skills) < limit)
  <2>1. create' = [create EXCEPT ![c] = K!Failed] BY <1>1, <1>4
  <2>2. create'[c] = K!Failed => CallKept(c)' BY <1>1, FailedKeeps
  <2> QED BY <1>1, <1>2, <2>1, <2>2, CallSteps
<1>5. CASE K!Cardinality(skills) < limit
  <2>1. create' = [create EXCEPT ![c] = new] BY <1>1, <1>5
  <2>2. current \in BOOLEAN OBVIOUS
  <2>3. /\ new \in CallRecord /\ new.pc = "checked" /\ new.name = call.name
        /\ new.root = call.root /\ new.overwrite = call.overwrite /\ new.basis = call.basis
        /\ new.clean => call.clean /\ current
    <3> HIDE DEF current
    <3> QED BY <1>3, <2>2 DEF CallRecord, Counted
  <2> HIDE DEF new
  <2>4. ASSUME new.clean, call.basis = writes,
               NEW n, NEW r, NEW o, n = call.name, r = call.root, o = call.overwrite
        PROVE  Free(disk, n, r, o)'
    <3>1. skills = K!Listed(disk) /\ \A s \in K!Listed(disk) : s.name # call.name
      BY <1>1, <1>2, <2>3, <2>4 DEF CallKept
    <3>2. Cardinality(K!Listed(disk)) < limit BY <1>5, <3>1, Counts
    <3>3. Free(disk, n, r, o) BY <2>4, <3>1, <3>2 DEF Free
    <3> QED BY <1>1, <3>3, FreeStays
  <2>5. ASSUME create'[c] = new PROVE CallKept(c)'
    <3>1. scan'[c] = K!NoScan BY <1>1, CallAtRest
    <3>2. call.basis <= writes BY <1>1, <1>2 DEF CallKept
    <3>3. PICK n, r, o : n = call.name /\ r = call.root /\ o = call.overwrite OBVIOUS
    <3>4. new.clean /\ call.basis = writes => Free(disk, n, r, o)' BY <2>4, <3>3
    <3> QED BY <1>1, <2>3, <2>5, <3>1, <3>2, <3>3, <3>4 DEF CallKept
  <2> QED BY <1>1, <1>2, <2>1, <2>3, <2>5, CallSteps
<1> QED BY <1>4, <1>5

\* A call whose write fails is promised nothing more.
LEMMA WriteFailsKeeps ==
    ASSUME SkillsKept, NEW c \in Creator, K!WriteFails(c) PROVE SkillsKept'
<1>1. /\ create[c].pc = "checked" /\ create' = [create EXCEPT ![c] = K!Failed]
      /\ UNCHANGED <<limit, oneRoot, disk, skills, scan, use, writes, basis, acts>>
  BY DEF K!WriteFails
<1>2. create'[c] = K!Failed => CallKept(c)' BY <1>1, FailedKeeps
<1>3. acts' \in 0 .. MaxActs BY <1>1 DEF SkillsKept, K!TypeOK
<1> QED BY <1>1, <1>2, <1>3, CallSteps

\* Looking for its name afterwards changes nothing of what is promised.
LEMMA FindKeeps == ASSUME SkillsKept, NEW c \in Creator, K!Find(c) PROVE SkillsKept'
<1> DEFINE call == create[c]
           new == InState(call, "loaded")
           there == K!Finds(call.name) # {}
<1>1. /\ call.pc = "scanned"
      /\ create' = IF there THEN [create EXCEPT ![c] = new] ELSE [create EXCEPT ![c] = K!Failed]
      /\ UNCHANGED <<limit, oneRoot, disk, skills, scan, use, writes, basis, acts>>
  <2>1. create \in [Creator -> {K!NoCreate, K!Failed} \cup CallRecord]
    BY DEF SkillsKept, K!TypeOK, CallRecord
  <2> QED BY <2>1 DEF K!Find, InState
<1> HIDE DEF there
<1>2. acts' \in 0 .. MaxActs /\ CallKept(c) BY <1>1 DEF SkillsKept, K!TypeOK
<1>3. call \in CallRecord BY <1>1, CallTypes, CallFields DEF SkillsKept
<1>4. CASE ~there
  <2>1. create' = [create EXCEPT ![c] = K!Failed] BY <1>1, <1>4
  <2>2. create'[c] = K!Failed => CallKept(c)' BY <1>1, FailedKeeps
  <2> QED BY <1>1, <1>2, <2>1, <2>2, CallSteps
<1>5. CASE there
  <2>1. create' = [create EXCEPT ![c] = new] BY <1>1, <1>5
  <2>2. /\ new \in CallRecord /\ new.pc = "loaded" /\ new.name = call.name
        /\ new.root = call.root /\ new.basis = call.basis /\ new.clean = call.clean
    BY <1>3, CallMoves
  <2> HIDE DEF new
  <2>3. ASSUME create'[c] = new PROVE CallKept(c)'
    <3>1. scan'[c] = K!NoScan BY <1>1, CallAtRest
    <3>2. Placed(c)' = Placed(c) BY <1>1, <2>2, <2>3 DEF Placed, K!Place
    <3>3. K!DirectoriesNamed' <=> K!DirectoriesNamed BY <1>1, NamedStays
    <3>4. K!Listed(disk)' = K!Listed(disk) BY <1>1, ListedStays
    <3> QED BY <1>1, <1>2, <2>2, <2>3, <3>1, <3>2, <3>3, <3>4 DEF CallKept
  <2> QED BY <1>1, <1>2, <2>1, <2>2, <2>3, CallSteps
<1> QED BY <1>4, <1>5

\* SkillResult and the record of a use change nothing but that.
LEMMA UseKeeps ==
    ASSUME SkillsKept, UNCHANGED <<limit, oneRoot, disk, skills, scan, create, writes, basis, acts>>
    PROVE  SkillsKept'
<1>1. K!TypeOK' BY DEF SkillsKept, K!TypeOK
<1>2. K!Listed(disk)' = K!Listed(disk) BY ListedStays
<1>3. K!CatalogCurrent' BY <1>2 DEF SkillsKept, K!CatalogCurrent
<1>4. ScansKept' BY ScansStay
<1>5. \A d \in Creator : CallKept(d)' BY CallStays
<1>6. RootsKept' BY RootsStay DEF SkillsKept
<1> QED BY <1>1, <1>3, <1>4, <1>5, <1>6 DEF SkillsKept

\* A reload begins a scan that follows the disk.
LEMMA ReloadSkillsKeeps == ASSUME NamesFit, SkillsKept, K!ReloadSkills PROVE SkillsKept'
<1> DEFINE p == K!Reloader
           q == K!NewScan(disk, writes)
<1>1. /\ acts < MaxActs /\ scan[p] = K!NoScan
      /\ scan' = [scan EXCEPT ![p] = q] /\ acts' = acts + 1
      /\ UNCHANGED <<limit, oneRoot, disk, skills, create, use, writes, basis>>
  BY DEF K!ReloadSkills
<1>2. p \in K!Scanner /\ p \notin Creator BY DEF K!Scanner, K!Reloader, NamesFit
<1>3. disk \in Disk /\ limit \in Nat /\ writes \in Nat
  BY DEF SkillsKept, K!TypeOK, Disk, NamesFit
<1>4. q \in ScanRecord /\ q.began = writes /\ Follows(q) BY <1>3, NewScanIs, NewScanFollows
<1> HIDE DEF p, q
<1>5. scan \in [K!Scanner -> {K!NoScan} \cup ScanRecord] BY DEF SkillsKept, K!TypeOK, ScanRecord
<1>6. /\ scan' \in [K!Scanner -> {K!NoScan} \cup ScanRecord]
      /\ \A t \in K!Scanner : scan'[t] = IF t = p THEN q ELSE scan[t]
  BY <1>1, <1>2, <1>4, <1>5
<1>7. acts' \in 0 .. MaxActs BY <1>1 DEF SkillsKept, K!TypeOK, NamesFit
<1>8. K!TypeOK' BY <1>1, <1>6, <1>7 DEF SkillsKept, K!TypeOK, ScanRecord
<1>9. K!Listed(disk)' = K!Listed(disk) BY <1>1, ListedStays
<1>10. K!CatalogCurrent' BY <1>1, <1>9 DEF SkillsKept, K!CatalogCurrent
<1>11. ScansKept'
  <2>1. \A t \in K!Scanner : scan'[t] # K!NoScan => ScanKept(scan'[t])
    BY <1>3, <1>4, <1>6 DEF SkillsKept, ScansKept, ScanKept
  <2>2. \A r : Follows(r)' <=> Follows(r) BY <1>1, FollowsStays
  <2> QED BY <1>1, <2>1, <2>2 DEF ScansKept, ScanKept
<1>12. ASSUME NEW c \in Creator PROVE CallKept(c)'
  <2>1. CallKept(c) /\ c \in K!Scanner BY DEF SkillsKept, K!Scanner
  <2>2. \A n, r, o : Free(disk, n, r, o)' <=> Free(disk, n, r, o) BY <1>1, FreeStays
  <2>3. K!DirectoriesNamed' <=> K!DirectoriesNamed BY <1>1, NamedStays
  <2>4. scan'[c] = scan[c] BY <1>2, <1>6, <2>1
  <2>5. (\A t \in K!Scanner : scan[t] # K!NoScan => scan[t].began = writes)
        => \A t \in K!Scanner : scan'[t] # K!NoScan => scan'[t].began = writes
    BY <1>4, <1>6
  <2>6. Placed(c)' = Placed(c) BY <1>1 DEF Placed, K!Place
  <2> QED BY <1>1, <1>9, <2>1, <2>2, <2>3, <2>4, <2>5, <2>6 DEF CallKept
<1>13. RootsKept' BY <1>1, RootsStay DEF SkillsKept
<1> QED BY <1>1, <1>8, <1>10, <1>11, <1>12, <1>13 DEF SkillsKept

\* A change by hand overtakes every scan and every check.
LEMMA EditKeeps == ASSUME NamesFit, SkillsKept, K!EditByHand PROVE SkillsKept'
<1>1. PICK r \in K!Root, d \in K!Name, b \in K!HandMade :
         r = K!Place(r) /\ disk' = [disk EXCEPT ![r][d] = b]
  BY DEF K!EditByHand
<1>2. /\ acts < MaxActs /\ writes' = writes + 1 /\ acts' = acts + 1
      /\ UNCHANGED <<limit, oneRoot, skills, scan, create, use, basis>>
  BY DEF K!EditByHand
<1>3. b \in {K!NoBundle} \cup K!AnyBundle BY DEF K!HandMade, K!AnyBundle, K!Texts
<1>4. disk \in Disk /\ writes \in Nat /\ basis \in Nat /\ basis <= writes
  BY DEF SkillsKept, K!TypeOK, Disk
<1>5. disk' \in Disk BY <1>1, <1>3, <1>4 DEF Disk
<1>6. acts' \in 0 .. MaxActs BY <1>2 DEF SkillsKept, K!TypeOK, NamesFit
<1>7. K!TypeOK' BY <1>2, <1>5, <1>6 DEF SkillsKept, K!TypeOK, Disk
<1>8. K!CatalogCurrent' BY <1>2, <1>4 DEF K!CatalogCurrent
<1>9. ScansKept' BY <1>2, <1>4, ScansAge
<1>10. \A c \in Creator : CallKept(c)' BY <1>2, CallAges
<1>11. RootsKept' BY <1>1, <1>2, <1>4, RootsFill DEF SkillsKept
<1> QED BY <1>2, <1>4, <1>7, <1>8, <1>9, <1>10, <1>11 DEF SkillsKept

\* A write that nothing came between puts the skill on the list, and begins a
\* scan that follows it.
LEMMA WriteKeeps == ASSUME NamesFit, SkillsKept, NEW c \in Creator, K!Write(c) PROVE SkillsKept'
<1> DEFINE call == create[c]
           n == call.name
           r == K!Place(call.root)
           alone == \A p \in K!Scanner : scan[p] = K!NoScan
           new == Written(call, alone)
           v == K!Skill(r, n, K!Bundle(n, c))
<1>0. PICK q : q = K!NewScan(disk', writes + 1) OBVIOUS
<1>1. /\ call.pc = "checked"
      /\ disk' = [disk EXCEPT ![r][n] = K!Bundle(n, c)]
      /\ create' = [create EXCEPT ![c].pc = "scanning", ![c].clean = @ /\ alone]
      /\ writes' = writes + 1
      /\ scan' = [scan EXCEPT ![c] = q]
      /\ UNCHANGED <<limit, oneRoot, skills, use, basis, acts>>
  BY <1>0 DEF K!Write
<1>2. /\ disk \in Disk /\ limit \in Nat /\ writes \in Nat /\ basis \in Nat /\ basis <= writes
      /\ CallKept(c) /\ c \in K!Scanner /\ c \in K!Texts
  BY DEF SkillsKept, K!TypeOK, Disk, NamesFit, K!Scanner, K!Texts
<1>3. create \in [Creator -> {K!NoCreate, K!Failed} \cup CallRecord]
  BY DEF SkillsKept, K!TypeOK, CallRecord
<1>4. scan \in [K!Scanner -> {K!NoScan} \cup ScanRecord] BY DEF SkillsKept, K!TypeOK, ScanRecord
<1>5. call \in CallRecord /\ alone \in BOOLEAN BY <1>1, <1>3, CallFields
<1>6. call.basis <= writes /\ n \in K!Name /\ call.root \in K!Root
      /\ call.overwrite \in BOOLEAN /\ call.basis \in Nat
      /\ r \in K!Root /\ r = K!Place(r)
  BY <1>1, <1>2, <1>5, CallFields DEF CallKept, K!Place, K!Root
<1>7. /\ new \in CallRecord /\ new.pc = "scanning" /\ new.name = n /\ new.root = call.root
      /\ new.basis = call.basis /\ new.clean \in BOOLEAN
      /\ new.clean => call.clean /\ alone
  BY <1>5, CallWritten, CallFields
<1>8. create' = [create EXCEPT ![c] = new] BY <1>1, <1>3 DEF Written
<1> HIDE DEF new, alone, r
<1>9. disk' \in Disk
  <2>1. K!Bundle(n, c) \in K!AnyBundle BY <1>2, <1>6 DEF K!AnyBundle
  <2> QED BY <1>1, <1>2, <2>1 DEF Disk
<1>10. q \in ScanRecord /\ q.began = writes + 1 /\ Follows(q)'
  BY <1>0, <1>2, <1>9, NewScanIs, NewScanBegins
<1>11. /\ create' \in [Creator -> {K!NoCreate, K!Failed} \cup CallRecord]
       /\ \A d \in Creator : create'[d] = IF d = c THEN new ELSE create[d]
  BY <1>3, <1>7, <1>8
<1>12. /\ scan' \in [K!Scanner -> {K!NoScan} \cup ScanRecord]
       /\ \A t \in K!Scanner : scan'[t] = IF t = c THEN q ELSE scan[t]
  BY <1>1, <1>4, <1>10
<1>13. K!TypeOK' BY <1>1, <1>9, <1>11, <1>12 DEF SkillsKept, K!TypeOK, Disk, ScanRecord, CallRecord
<1>14. K!CatalogCurrent' BY <1>1, <1>2 DEF K!CatalogCurrent
<1>15. ScansKept'
  <2>1. ASSUME NEW t \in K!Scanner, scan'[t] # K!NoScan
        PROVE  scan'[t].began <= writes' /\ (scan'[t].began = writes' => t = c)
    <3>1. CASE t = c BY <1>1, <1>2, <1>10, <1>12, <3>1
    <3>2. CASE t # c
      <4>1. scan'[t] = scan[t] BY <1>12, <3>2
      <4>2. scan[t] \in ScanRecord /\ scan[t].began <= writes
        BY <2>1, <4>1, ScannerFits DEF SkillsKept, ScansKept, ScanKept
      <4>3. scan[t].began \in Nat BY <4>2 DEF ScanRecord
      <4> QED BY <1>1, <1>2, <4>1, <4>2, <4>3
    <3> QED BY <3>1, <3>2
  <2>2. scan'[c] = q BY <1>2, <1>12
  <2>3. ASSUME NEW t \in K!Scanner, scan'[t] # K!NoScan PROVE ScanKept(scan[t])'
    <3>1. CASE t = c BY <1>1, <1>10, <2>1, <2>2, <2>3, <3>1 DEF ScanKept, Follows, Behind
    <3>2. CASE t # c BY <2>1, <2>3, <3>2 DEF ScanKept
    <3> QED BY <3>1, <3>2
  <2> QED BY <2>3 DEF ScansKept
<1>16. CallKept(c)'
  <2>1. create'[c] = new /\ scan'[c] = q /\ q # K!NoScan
    BY <1>2, <1>10, <1>11, <1>12, NoScanIsNone
  <2>2. new.clean /\ writes = call.basis => Free(disk, n, r, call.overwrite)
    <3>1. call.clean /\ call.basis = writes => Free(disk, n, call.root, call.overwrite)
      BY <1>1, <1>2 DEF CallKept
    <3>2. Free(disk, n, call.root, call.overwrite) => Free(disk, n, r, call.overwrite)
      <4>1. RootsKept BY DEF SkillsKept
      <4> HIDE DEF call
      <4> QED BY <1>2, <1>6, <4>1, FreeWhereItIsPut DEF r
    <3> QED BY <1>7, <3>1, <3>2
  <2>3. new.clean => \A t \in K!Scanner : scan'[t] # K!NoScan => scan'[t].began = writes'
    <3>1. alone => \A t \in K!Scanner : scan'[t] # K!NoScan => t = c BY <1>12 DEF alone
    <3> QED BY <1>1, <1>2, <1>7, <1>10, <1>12, <3>1
  <2>4. K!DirectoriesNamed' => NamedOn(disk') BY DEF K!DirectoriesNamed, NamedOn
  <2>5. new.clean /\ writes = call.basis /\ K!DirectoriesNamed'
        => v \in K!Listed(disk')
    <3> SUFFICES ASSUME new.clean, writes = call.basis PROVE NamedOn(disk') => v \in K!Listed(disk')
      BY <2>4
    <3>0. PICK now : now = disk' OBVIOUS
    <3>1. PICK o \in BOOLEAN : o = call.overwrite BY <1>6
    <3>2. Free(disk, n, r, o) BY <2>2, <3>1
    <3>3. now = Put(disk, r, n, c) BY <1>1, <3>0 DEF Put
    <3> HIDE DEF n, r
    <3>4. NamedOn(now) => v \in K!Listed(now) BY <1>2, <1>6, <3>2, <3>3, WriteListed
    <3> QED BY <3>0, <3>4
  <2>6. K!Listed(disk)' = K!Listed(disk') BY <1>1 DEF K!Listed, K!FirstOf, K!Before, K!Loadable, K!Rank
  <2>7. writes' = new.basis + 1 => writes = call.basis BY <1>1, <1>2, <1>6, <1>7
  <2>8. new.basis + 1 <= q.began /\ new.basis + 1 <= writes' BY <1>1, <1>2, <1>6, <1>7, <1>10
  <2>9. Placed(c)' = v BY <1>1, <1>7, <2>1 DEF Placed, K!Place, r
  <2> QED BY <1>7, <2>1, <2>3, <2>5, <2>6, <2>7, <2>8, <2>9 DEF CallKept
<1>17. ASSUME NEW d \in Creator, d # c PROVE CallKept(d)'
  <2>1. create'[d] = create[d] /\ scan'[d] = scan[d] BY <1>11, <1>12, <1>17 DEF K!Scanner
  <2> QED BY <1>1, <2>1, CallAges
<1>18. RootsKept' BY <1>1, <1>2, <1>6, RootsFill DEF SkillsKept
<1> QED BY <1>1, <1>2, <1>13, <1>14, <1>15, <1>16, <1>17, <1>18 DEF SkillsKept

\* At first the catalog is what is listed, and nothing is scanned or called.
LEMMA SkillsBegin == ASSUME NamesFit, K!Init PROVE SkillsKept
<1>1. /\ limit \in Limits /\ oneRoot \in BOOLEAN /\ RootsKept /\ disk \in [K!Root -> [K!Name -> K!HandMade]]
      /\ skills = K!Listed(disk)
      /\ scan = [p \in K!Scanner |-> K!NoScan] /\ create = [c \in Creator |-> K!NoCreate]
      /\ writes = 0 /\ basis = 0 /\ acts = 0
  BY DEF K!Init, RootsKept
<1>2. K!HandMade \subseteq {K!NoBundle} \cup K!AnyBundle BY DEF K!HandMade, K!AnyBundle, K!Texts
<1>3. disk \in Disk BY <1>1, <1>2 DEF Disk
<1>4. skills \subseteq K!AnySkill BY <1>1, <1>3, LoadableIs DEF K!Listed, K!FirstOf
<1>5. K!TypeOK BY <1>1, <1>3, <1>4 DEF K!TypeOK, Disk, NamesFit
<1>6. K!CatalogCurrent BY <1>1 DEF K!CatalogCurrent
<1>7. ScansKept BY <1>1 DEF ScansKept
<1>8. ASSUME NEW c \in Creator PROVE CallKept(c)
  <2>1. create[c].pc = "idle" /\ scan[c] = K!NoScan BY <1>1, CallFields DEF K!Scanner
  <2> QED BY <2>1 DEF CallKept
<1> QED BY <1>1, <1>5, <1>6, <1>7, <1>8 DEF SkillsKept

\* Every step keeps the invariant of the skills.
LEMMA SkillsStep == ASSUME NamesFit, SkillsKept, [K!Next]_K!vars PROVE SkillsKept'
<1>1. CASE UNCHANGED K!vars BY <1>1, UseKeeps DEF K!vars
<1>2. ASSUME NEW p \in K!Scanner, K!Visit(p) \/ K!NextRoot(p) \/ K!Install(p) PROVE SkillsKept'
  BY <1>2, VisitKeeps, NextRootKeeps, InstallKeeps
<1>3. ASSUME NEW c \in Creator,
             K!Check(c) \/ K!Count(c) \/ K!Write(c) \/ K!WriteFails(c) \/ K!Find(c)
      PROVE  SkillsKept'
  BY <1>3, CheckKeeps, CountKeeps, WriteKeeps, WriteFailsKeeps, FindKeeps
<1>4. CASE K!ReloadSkills BY <1>4, ReloadSkillsKeeps
<1>5. CASE K!EditByHand BY <1>5, EditKeeps
<1>6. CASE K!Load BY <1>6, UseKeeps DEF K!Load
<1>7. CASE K!Record BY <1>7, UseKeeps DEF K!Record
<1> QED BY <1>1, <1>2, <1>3, <1>4, <1>5, <1>6, <1>7 DEF K!Next

\* The invariant gives the properties that the runs check of the skills.
LEMMA SkillsAre == ASSUME SkillsKept PROVE K!SkillsInv
<1>1. ASSUME NEW c \in Creator, create[c].pc = "loaded", create[c].clean,
             writes = create[c].basis + 1, K!DirectoriesNamed
      PROVE  Placed(c) \in skills
  <2>1. CallKept(c) BY DEF SkillsKept
  <2>2. basis = writes /\ Placed(c) \in K!Listed(disk) BY <1>1, <2>1 DEF CallKept
  <2> QED BY <2>2 DEF SkillsKept, K!CatalogCurrent
<1>2. K!LoadedIsOffered BY <1>1 DEF K!LoadedIsOffered, Placed
<1> QED BY <1>2 DEF SkillsKept, K!SkillsInv

\* A call whose check still holds takes no skill off the list but one it was
\* asked to overwrite.
LEMMA ScopeStep == ASSUME NamesFit, SkillsKept, [K!Next]_K!vars PROVE K!KeepsScope
<1> SUFFICES ASSUME NEW c \in Creator, create[c].pc = "checked", create'[c].pc = "scanning",
                    create[c].clean, writes = create[c].basis, K!DirectoriesNamed,
                    NEW s \in K!Listed(disk) \ K!Listed(disk')
             PROVE  s.name = create[c].name /\ s.root = create[c].root /\ create[c].overwrite
  BY DEF K!KeepsScope
<1>1. create \in [Creator -> {K!NoCreate, K!Failed} \cup CallRecord]
  BY DEF SkillsKept, K!TypeOK, CallRecord
<1>2. create[c] \in CallRecord /\ CallKept(c) BY <1>1, CallFields DEF SkillsKept
<1>3. K!Write(c)
  <2>1. create'[c] # create[c] OBVIOUS
  <2>2. ASSUME NEW p \in K!Scanner, K!Visit(p) \/ K!NextRoot(p) \/ K!Install(p) PROVE FALSE
    <3>1. K!Install(p) BY <2>1, <2>2 DEF K!Visit, K!NextRoot
    <3>2. p = c BY <1>1, <2>1, <3>1 DEF K!Install
    <3>3. scan[c] # K!NoScan BY <3>1, <3>2 DEF K!Install
    <3> QED BY <1>2, <3>3 DEF CallKept
  <2>3. ASSUME NEW d \in Creator,
               K!Check(d) \/ K!Count(d) \/ K!Write(d) \/ K!WriteFails(d) \/ K!Find(d)
        PROVE  K!Write(c)
    <3>1. d = c BY <1>1, <2>1, <2>3 DEF K!Check, K!Count, K!Write, K!WriteFails, K!Find
    <3>2. ~K!Check(c) /\ ~K!Count(c) /\ ~K!Find(c) BY CallFields DEF K!Check, K!Count, K!Find
    <3>3. ~K!WriteFails(c)
      <4>1. K!WriteFails(c) => create'[c] = K!Failed BY <1>1 DEF K!WriteFails
      <4> QED BY <4>1, CallFields
    <3> QED BY <2>3, <3>1, <3>2, <3>3
  <2>4. ~UNCHANGED K!vars /\ ~K!ReloadSkills /\ ~K!EditByHand /\ ~K!Load /\ ~K!Record
    BY <2>1 DEF K!vars, K!ReloadSkills, K!EditByHand, K!Load, K!Record
  <2> QED BY <2>2, <2>3, <2>4 DEF K!Next
<1> DEFINE n == create[c].name
           r == create[c].root
           place == K!Place(r)
<1>4. PICK o \in BOOLEAN : o = create[c].overwrite BY <1>2, CallFields
<1>5. PICK now : now = disk' OBVIOUS
<1>6. Free(disk, n, r, o) BY <1>2, <1>4 DEF CallKept
<1>7. now = Put(disk, place, n, c) BY <1>3, <1>5 DEF K!Write, Put
<1>8. /\ disk \in Disk /\ limit \in Nat /\ n \in K!Name /\ r \in K!Root /\ c \in K!Texts
      /\ NamedOn(disk) /\ RootsKept
  BY <1>2, CallFields DEF SkillsKept, K!TypeOK, Disk, NamesFit, K!Texts, K!DirectoriesNamed, NamedOn
<1>9. place \in K!Root BY <1>8 DEF K!Place, K!Root
<1> HIDE DEF n, r
<1>10. Free(disk, n, place, o) BY <1>6, <1>8, FreeWhereItIsPut
<1> HIDE DEF place
<1>11. \A t \in K!Listed(disk) \ K!Listed(now) : t.name = n /\ o
  BY <1>7, <1>8, <1>9, <1>10, WriteListed
<1>12. s.name = n /\ o BY <1>5, <1>11
<1>13. s.root = r BY <1>6, <1>12 DEF Free
<1> QED BY <1>4, <1>12, <1>13 DEF n, r

\* What the catalog says is what a scan of the roots would say when nothing has
\* changed since the one behind it began, and whoever was told that its skill is
\* loaded finds it there, under the conditions LoadedIsOffered names: however many
\* calls, reloads and edits by hand go on at the same time.
THEOREM SkillsHold == ASSUME NamesFit PROVE K!Spec => []K!SkillsInv
<1>1. K!Init => SkillsKept BY SkillsBegin
<1>2. SkillsKept /\ [K!Next]_K!vars => SkillsKept' BY SkillsStep
<1>3. SkillsKept => K!SkillsInv BY SkillsAre
<1> QED BY <1>1, <1>2, <1>3, PTL DEF K!Spec

\* A write of skill_create takes no skill out of the catalog but the one it was
\* asked to overwrite, of its name and in its scope.
THEOREM ScopeStays == ASSUME NamesFit PROVE K!Spec => K!ScopeKept
<1>1. K!Init => SkillsKept BY SkillsBegin
<1>2. SkillsKept /\ [K!Next]_K!vars => SkillsKept' BY SkillsStep
<1>3. SkillsKept /\ [K!Next]_K!vars => K!KeepsScope BY ScopeStep
<1> QED BY <1>1, <1>2, <1>3, PTL DEF K!Spec, K!ScopeKept

-----------------------------------------------------------------------------
(* The other tools of a request: memory, shell, search *)

CONSTANTS Writer, Fact, Length, Limit, MaxIds,
          Path, Skipped, Pattern, MaxHits, SearchLimits, MaxChanges

VARIABLES memories, ids, write,
          context, shell, children, wasCut, error, place, answer,
          tool, pattern, atMost, tree, always, ever, ahead, results, walk, changes

M == INSTANCE Memory
Z == INSTANCE Shell WITH cut <- wasCut, pc <- place
G == INSTANCE FileSearch WITH
        Limits <- SearchLimits, limit <- atMost, todo <- ahead, found <- results, pc <- walk

\* A set of numbers has a least one.
LEMMA LeastNumber ==
    ASSUME NEW T \in SUBSET Nat, T # {} PROVE \E n \in T : \A m \in T : n <= m
<1> DEFINE R == {ss \in Nat \X Nat : ss[1] < ss[2]}
<1>1. IsWellFoundedOn(R, Nat) BY NatLessThanWellFounded, Zenon DEF OpToRel
<1>2. PICK n \in T : \A m \in T : <<m, n>> \notin R BY <1>1, WFMin
<1>3. ASSUME NEW m \in T PROVE n <= m
  <2>1. <<m, n>> \notin R BY <1>2
  <2>2. ~(m < n) BY <2>1
  <2> QED BY <2>2
<1> QED BY <1>3

-----------------------------------------------------------------------------
(* Sums *)

\* Among the parts of a finite set that something is wrong with there is one
\* with which nothing is wrong when an element is taken out of it.
LEMMA SmallestPart ==
    ASSUME NEW S, IsFiniteSet(S), NEW Bad \in SUBSET SUBSET S, Bad # {}
    PROVE  \E T \in Bad : \A x \in T : T \ {x} \notin Bad
<1> DEFINE Sizes == {n \in Nat : \E T \in Bad : Cardinality(T) = n}
<1>1. ASSUME NEW T \in Bad PROVE IsFiniteSet(T) /\ Cardinality(T) \in Nat
  <2>1. T \in SUBSET S OBVIOUS
  <2>2. IsFiniteSet(T) BY <2>1, FS_Subset
  <2> QED BY <2>2, FS_CardinalityType
<1>2. Sizes # {} BY <1>1
<1>3. PICK n \in Sizes : \A m \in Sizes : n <= m BY <1>2, LeastNumber
<1>4. PICK T \in Bad : Cardinality(T) = n OBVIOUS
<1>5. ASSUME NEW x \in T, T \ {x} \in Bad PROVE FALSE
  <2>1. Cardinality(T \ {x}) = n - 1 BY <1>1, <1>4, FS_RemoveElement
  <2>2. Cardinality(T \ {x}) \in Sizes BY <1>1, <1>5
  <2>3. n - 1 \in Sizes BY <2>1, <2>2
  <2>4. n <= n - 1 BY <1>3, <2>3
  <2> QED BY <2>4
<1> QED BY <1>4, <1>5

\* What Total is defined by: a sum of each part of the entries.
Chosen(entries) == CHOOSE m \in entries : TRUE
Step(entries, sum) ==
    IF entries = {} THEN 0
    ELSE Length[Chosen(entries).content] + sum[entries \ {Chosen(entries)}]
Sums(entries, sum) == sum = [es \in SUBSET entries |-> Step(es, sum)]

\* Total, by the function that its recursion defines.
LEMMA TotalUnfolds ==
    ASSUME NEW S PROVE M!Total(S) = (CHOOSE sum : Sums(S, sum))[S]
BY Zenon DEF M!Total, M!MapThenSumSet, M!MapThenFoldSet, Sums, Step, Chosen

\* The element that the recursion takes out of a set is in it.
LEMMA ChosenIsIn == ASSUME NEW S, S # {} PROVE Chosen(S) \in S
BY DEF Chosen

\* There are not two of them,
LEMMA SumsAgree ==
    ASSUME NEW S, NEW T \in SUBSET S, IsFiniteSet(S), NEW f, NEW g, Sums(S, f), Sums(T, g)
    PROVE  f[T] = g[T]
<1> DEFINE Bad == {R \in SUBSET T : f[R] # g[R]}
<1>1. SUFFICES ASSUME Bad # {} PROVE FALSE OBVIOUS
<1>2. IsFiniteSet(T) BY FS_Subset
<1>3. PICK R \in Bad : \A x \in R : R \ {x} \notin Bad BY <1>1, <1>2, SmallestPart
<1>4. f[R] = Step(R, f) /\ g[R] = Step(R, g) BY DEF Sums
<1>5. R # {} BY <1>4 DEF Step
<1>6. R \ {Chosen(R)} \in SUBSET T /\ R \ {Chosen(R)} \notin Bad BY <1>3, <1>5, ChosenIsIn
<1>7. f[R \ {Chosen(R)}] = g[R \ {Chosen(R)}] BY <1>6
<1> QED BY <1>4, <1>7 DEF Step

Summed(S) == IF S = {} THEN 0 ELSE Length[Chosen(S).content] + M!Total(S \ {Chosen(S)})

\* so that a total is what it is of the rest, and one more,
LEMMA TotalIfSums ==
    ASSUME NEW S, IsFiniteSet(S), \A R \in SUBSET S : \E sum : Sums(R, sum)
    PROVE  M!Total(S) = Summed(S)
<1> DEFINE f == CHOOSE sum : Sums(S, sum)
<1>1. Sums(S, f) OBVIOUS
<1>2. M!Total(S) = f[S] BY TotalUnfolds
<1> HIDE DEF f
<1>3. f[S] = Step(S, f) BY <1>1 DEF Sums
<1>4. CASE S = {} BY <1>2, <1>3, <1>4 DEF Step, Summed
<1>5. CASE S # {}
  <2> DEFINE R == S \ {Chosen(S)}
              g == CHOOSE sum : Sums(R, sum)
  <2>1. R \in SUBSET S OBVIOUS
  <2>2. Sums(R, g) BY <2>1
  <2>3. M!Total(R) = g[R] BY TotalUnfolds
  <2> HIDE DEF g
  <2>4. f[R] = g[R]
    <3> HIDE DEF R
    <3> QED BY <1>1, <2>1, <2>2, SumsAgree
  <2> QED BY <1>2, <1>3, <1>5, <2>3, <2>4 DEF Step, Summed
<1> QED BY <1>4, <1>5

\* and there is one.
LEMMA SumExists == ASSUME NEW S, IsFiniteSet(S) PROVE \E sum : Sums(S, sum)
<1> DEFINE Bad == {T \in SUBSET S : \E R \in SUBSET T : ~\E sum : Sums(R, sum)}
<1>1. SUFFICES ASSUME Bad # {} PROVE FALSE BY Zenon
<1>0. Bad \in SUBSET SUBSET S OBVIOUS
<1> HIDE DEF Bad
<1>2. PICK T \in Bad : \A x \in T : T \ {x} \notin Bad BY <1>1, <1>0, SmallestPart
<1> USE DEF Bad
<1>3. T \in SUBSET S /\ IsFiniteSet(T) BY FS_Subset
<1>4. ASSUME NEW R \in SUBSET T, R # T PROVE \A Q \in SUBSET R : \E sum : Sums(Q, sum)
  <2>1. PICK x \in T : x \notin R BY <1>4
  <2>2. R \in SUBSET (T \ {x}) /\ T \ {x} \in SUBSET S BY <1>3, <2>1
  <2>3. T \ {x} \notin Bad BY <1>2
  <2> QED BY <2>2, <2>3
<1>5. ASSUME NEW R \in SUBSET T, R # T PROVE M!Total(R) = Summed(R)
  <2>1. IsFiniteSet(R) BY <1>3, FS_Subset
  <2> QED BY <1>4, <1>5, <2>1, TotalIfSums
<1> DEFINE f == [R \in SUBSET T |-> Summed(R)]
<1>6. ASSUME NEW R \in SUBSET T PROVE f[R] = Step(R, f)
  <2>1. CASE R = {} BY <2>1 DEF Summed, Step
  <2>2. CASE R # {}
    <3>1. Chosen(R) \in R BY <2>2, ChosenIsIn
    <3>2. R \ {Chosen(R)} \in SUBSET T /\ R \ {Chosen(R)} # T BY <3>1
    <3>3. M!Total(R \ {Chosen(R)}) = f[R \ {Chosen(R)}] BY <1>5, <3>2
    <3> QED BY <2>2, <3>3 DEF Summed, Step
  <2> QED BY <2>1, <2>2
<1>7. Sums(T, f) BY <1>6 DEF Sums
<1>8. PICK R \in SUBSET T : ~\E sum : Sums(R, sum) OBVIOUS
<1>9. R # T BY <1>7, <1>8
<1> QED BY <1>4, <1>8, <1>9

\* Total is the sum, whichever order the recursion takes.
LEMMA TotalIs == ASSUME NEW S, IsFiniteSet(S) PROVE M!Total(S) = Summed(S)
<1>1. \A R \in SUBSET S : IsFiniteSet(R) BY FS_Subset
<1>2. \A R \in SUBSET S : \E sum : Sums(R, sum) BY <1>1, SumExists
<1> QED BY <1>2, TotalIfSums

\* Entries whose lengths are known.
Sized(S) == IsFiniteSet(S) /\ \A m \in S : Length[m.content] \in Nat

\* A part of a finite set of sized entries is one.
LEMMA PartSized == ASSUME NEW S, Sized(S) PROVE \A R \in SUBSET S : Sized(R)
BY FS_Subset DEF Sized

\* Nothing has no length.
LEMMA TotalOfNone == M!Total({}) = 0
BY FS_EmptySet, TotalIs DEF Summed

\* A total is a natural number.
LEMMA TotalType == ASSUME NEW S, Sized(S) PROVE M!Total(S) \in Nat
<1> DEFINE Bad == {T \in SUBSET S : M!Total(T) \notin Nat}
<1>1. SUFFICES ASSUME Bad # {} PROVE FALSE OBVIOUS
<1>2. PICK T \in Bad : \A x \in T : T \ {x} \notin Bad BY <1>1, SmallestPart DEF Sized
<1>3. Sized(T) BY PartSized
<1>4. M!Total(T) = Summed(T) BY <1>3, TotalIs DEF Sized
<1>5. T # {} BY <1>2, <1>4 DEF Summed
<1>6. Chosen(T) \in T BY <1>5, ChosenIsIn
<1>7. T \ {Chosen(T)} \in SUBSET S /\ T \ {Chosen(T)} \notin Bad BY <1>2, <1>6
<1>8. M!Total(T \ {Chosen(T)}) \in Nat /\ Length[Chosen(T).content] \in Nat BY <1>3, <1>6, <1>7 DEF Sized
<1> QED BY <1>2, <1>4, <1>5, <1>8 DEF Summed

\* Which entry is taken first makes no difference.
LEMMA TotalTake ==
    ASSUME NEW S, Sized(S), NEW x \in S
    PROVE  M!Total(S) = Length[x.content] + M!Total(S \ {x})
<1> DEFINE Bad == {T \in SUBSET S : \E y \in T : M!Total(T) # Length[y.content] + M!Total(T \ {y})}
<1>1. SUFFICES ASSUME Bad # {} PROVE FALSE OBVIOUS
<1>2. PICK T \in Bad : \A z \in T : T \ {z} \notin Bad BY <1>1, SmallestPart DEF Sized
<1>3. PICK y \in T : M!Total(T) # Length[y.content] + M!Total(T \ {y}) OBVIOUS
<1>4. Sized(T) BY PartSized
<1> DEFINE m == Chosen(T)
<1>5. m \in T BY ChosenIsIn
<1>6. M!Total(T) = Length[m.content] + M!Total(T \ {m}) BY <1>4, TotalIs DEF Sized, Summed
<1> HIDE DEF m
<1>7. m # y BY <1>3, <1>6
<1>8. T \ {m} \in SUBSET S /\ T \ {m} \notin Bad /\ T \ {y} \in SUBSET S /\ T \ {y} \notin Bad
  BY <1>2, <1>5
<1>9. M!Total(T \ {m}) = Length[y.content] + M!Total((T \ {m}) \ {y}) BY <1>7, <1>8
<1>10. M!Total(T \ {y}) = Length[m.content] + M!Total((T \ {y}) \ {m}) BY <1>5, <1>7, <1>8
<1>11. (T \ {y}) \ {m} = (T \ {m}) \ {y} OBVIOUS
<1>12. M!Total((T \ {m}) \ {y}) \in Nat BY <1>4, PartSized, TotalType
<1>13. Length[m.content] \in Nat /\ Length[y.content] \in Nat BY <1>4, <1>5 DEF Sized
<1> QED BY <1>3, <1>6, <1>9, <1>10, <1>11, <1>12, <1>13

\* The total of two sets apart is the sum of theirs.
LEMMA TotalOfBoth ==
    ASSUME NEW S, NEW R, Sized(S), Sized(R), S \cap R = {}
    PROVE  M!Total(S \cup R) = M!Total(S) + M!Total(R)
<1> DEFINE Bad == {T \in SUBSET R : M!Total(S \cup T) # M!Total(S) + M!Total(T)}
<1>1. SUFFICES ASSUME Bad # {} PROVE FALSE OBVIOUS
<1>2. PICK T \in Bad : \A z \in T : T \ {z} \notin Bad BY <1>1, SmallestPart DEF Sized
<1>3. Sized(T) BY PartSized
<1>4. Sized(S \cup T) BY <1>3, FS_Union DEF Sized
<1>5. M!Total(S) \in Nat BY TotalType
<1>6. CASE T = {}
  <2>1. S \cup T = S BY <1>6
  <2> QED BY <1>2, <1>5, <1>6, <2>1, TotalOfNone
<1>7. CASE T # {}
  <2>1. PICK x \in T : TRUE BY <1>7
  <2>2. M!Total(T) = Length[x.content] + M!Total(T \ {x}) BY <1>3, TotalTake
  <2>3. M!Total(S \cup T) = Length[x.content] + M!Total((S \cup T) \ {x}) BY <1>4, TotalTake
  <2>4. (S \cup T) \ {x} = S \cup (T \ {x}) OBVIOUS
  <2>5. T \ {x} \in SUBSET R /\ T \ {x} \notin Bad BY <1>2
  <2>6. M!Total(T \ {x}) \in Nat BY <1>3, PartSized, TotalType
  <2>7. Length[x.content] \in Nat BY <1>3 DEF Sized
  <2> QED BY <1>2, <1>5, <2>2, <2>3, <2>4, <2>5, <2>6, <2>7
<1> QED BY <1>6, <1>7

\* A part is no longer than the whole.
LEMMA TotalOfPart ==
    ASSUME NEW S, Sized(S), NEW R \in SUBSET S PROVE M!Total(R) <= M!Total(S)
<1>1. Sized(R) /\ Sized(S \ R) BY PartSized
<1>2. S = R \cup (S \ R) /\ R \cap (S \ R) = {} OBVIOUS
<1>3. M!Total(R \cup (S \ R)) = M!Total(R) + M!Total(S \ R) BY <1>1, <1>2, TotalOfBoth
<1>4. M!Total(R) \in Nat /\ M!Total(S \ R) \in Nat BY <1>1, TotalType
<1>5. M!Total(S) = M!Total(R) + M!Total(S \ R) BY <1>2, <1>3, Zenon
<1> QED BY <1>4, <1>5

\* A total is at most the number of entries times the longest.
LEMMA TotalAtMost ==
    ASSUME NEW S, Sized(S), NEW most \in Nat, \A m \in S : Length[m.content] <= most
    PROVE  M!Total(S) <= Cardinality(S) * most
<1> DEFINE Bad == {T \in SUBSET S : ~(M!Total(T) <= Cardinality(T) * most)}
<1>1. SUFFICES ASSUME Bad # {} PROVE FALSE OBVIOUS
<1>2. PICK T \in Bad : \A z \in T : T \ {z} \notin Bad BY <1>1, SmallestPart DEF Sized
<1>3. Sized(T) BY PartSized
<1>4. CASE T = {} BY <1>2, <1>4, TotalOfNone, FS_EmptySet
<1>5. CASE T # {}
  <2>1. PICK x \in T : TRUE BY <1>5
  <2>2. M!Total(T) = Length[x.content] + M!Total(T \ {x}) BY <1>3, TotalTake
  <2>3. T \ {x} \in SUBSET S /\ T \ {x} \notin Bad BY <1>2
  <2>4. M!Total(T \ {x}) \in Nat /\ Length[x.content] \in Nat BY <1>3, PartSized, TotalType DEF Sized
  <2>5. Cardinality(T \ {x}) = Cardinality(T) - 1 /\ Cardinality(T) \in Nat
    BY <1>3, FS_RemoveElement, FS_CardinalityType DEF Sized
  <2> DEFINE n == Cardinality(T)
  <2>6. M!Total(T \ {x}) <= (n - 1) * most BY <2>3, <2>5
  <2>7. n \in Nat BY <2>5
  <2> HIDE DEF n
  <2>8. (n - 1) * most + most = n * most BY <2>7
  <2>9. Length[x.content] <= most OBVIOUS
  <2>10. (n - 1) * most \in Int /\ n * most \in Int BY <2>7
  <2>11. M!Total(T) <= n * most BY <2>2, <2>4, <2>6, <2>8, <2>9, <2>10
  <2> QED BY <1>2, <2>11 DEF n
<1> QED BY <1>4, <1>5

-----------------------------------------------------------------------------
(* What is remembered *)

\* What is assumed of the constants (MCLocal: LocalAssumption).
FactsFit ==
    /\ Limit \in Nat /\ MaxIds \in Nat
    /\ IsFiniteSet(Writer) /\ Writer # {}
    /\ Length \in [Fact -> Nat] /\ \E f \in Fact : \A g \in Fact : Length[g] <= Length[f]

\* What is there and what is about to be.
InHand == {write[w].entry : w \in {v \in Writer : write[v] # M!NoWrite}}
Known == memories \cup InHand

\* Parts of that as the table can be, each id once.
Tables == {T \in SUBSET Known : \A m, n \in T : m.id = n.id => m = n}

Bound == Limit + (Cardinality(Writer) - 1) * M!Longest

Adds(w) == write[w].kind = "add"

FactsKept ==
    /\ M!TypeOK
    /\ IsFiniteSet(memories)
    /\ \A m, n \in memories : m.id = n.id \/ m.content = n.content => m = n
    /\ \A m \in memories : m.id <= ids
    /\ \A w \in Writer : Adds(w) =>
          /\ write[w].entry.id <= ids
          /\ \A m \in memories : m.id # write[w].entry.id
          /\ \A v \in Writer : Adds(v) /\ write[v].entry.id = write[w].entry.id => v = w

TotalsKept == \A T \in Tables : M!Total(T) <= Bound

MemoryIInv == FactsKept /\ TotalsKept

\* The module's Cardinality is the standard one.
LEMMA MemoryCounts == ASSUME NEW S PROVE M!Cardinality(S) = Cardinality(S)
BY DEF M!Cardinality, Cardinality, M!IsFiniteSet, IsFiniteSet

\* There is a longest fact.
LEMMA LongestIs ==
    ASSUME FactsFit
    PROVE  M!Longest \in Nat /\ \A f \in Fact : Length[f] <= M!Longest
<1> DEFINE L == {Length[content] : content \in Fact}
<1>1. PICK f \in Fact : \A g \in Fact : Length[g] <= Length[f] BY DEF FactsFit
<1>2. Length[f] \in L /\ L \in SUBSET Nat BY DEF FactsFit
<1>3. \A y \in L : Length[f] >= y BY <1>1, <1>2 DEF FactsFit
<1> HIDE DEF L
<1>4. M!Max(L) \in L /\ \A y \in L : M!Max(L) >= y BY <1>2, <1>3 DEF M!Max
<1>5. M!Longest = M!Max(L) BY DEF M!Longest, L
<1>6. \A g \in Fact : Length[g] \in L BY DEF L
<1> QED BY <1>2, <1>4, <1>5, <1>6

\* What a call is about to write is an entry.
LEMMA HeldEntry ==
    ASSUME M!TypeOK, NEW w \in Writer, write[w] # M!NoWrite
    PROVE  /\ write[w].kind \in {"add", "replace"} /\ write[w].entry \in M!Entry
           /\ write[w].entry.id \in 1 .. MaxIds /\ write[w].entry.content \in Fact
BY DEF M!TypeOK, M!Entry, M!Id

\* Who has no write under way holds no entry.
LEMMA NothingHeld == ASSUME NEW w, write[w] = M!NoWrite PROVE write[w].kind = "none"
BY DEF M!NoWrite

\* All that is known are entries, and not too many to be summed up.
LEMMA KnownSized ==
    ASSUME FactsFit, FactsKept
    PROVE  /\ Known \in SUBSET M!Entry /\ IsFiniteSet(Known) /\ Sized(Known)
           /\ \A S \in SUBSET M!Entry : \A m \in S : Length[m.content] <= M!Longest
<1> DEFINE V == {v \in Writer : write[v] # M!NoWrite}
           f == [v \in V |-> write[v].entry]
<1>1. IsFiniteSet(V) BY FS_Subset DEF FactsFit
<1>2. f \in Surjection(V, InHand) BY DEF InHand, Surjection
<1>3. IsFiniteSet(InHand) BY <1>1, <1>2, FS_Surjection
<1>4. IsFiniteSet(Known) BY <1>3, FS_Union DEF Known, FactsKept
<1>5. InHand \in SUBSET M!Entry BY HeldEntry DEF InHand, FactsKept
<1>6. Known \in SUBSET M!Entry BY <1>5 DEF Known, FactsKept, M!TypeOK
<1>7. \A m \in M!Entry : m.content \in Fact BY DEF M!Entry
<1>8. \A m \in M!Entry : Length[m.content] \in Nat /\ Length[m.content] <= M!Longest
  BY <1>7, LongestIs DEF FactsFit
<1>9. Sized(Known) BY <1>4, <1>6, <1>8 DEF Sized
<1> QED BY <1>4, <1>6, <1>8, <1>9

\* The other writers have no more in hand than one entry each.
LEMMA OthersFew ==
    ASSUME FactsFit, FactsKept, NEW w \in Writer, write[w] = M!NoWrite,
           NEW T \in SUBSET InHand
    PROVE  /\ IsFiniteSet(T) /\ Cardinality(T) <= Cardinality(Writer) - 1
           /\ Cardinality(Writer) \in Nat
<1> DEFINE V == {v \in Writer : write[v] # M!NoWrite}
           f == [v \in V |-> write[v].entry]
<1>1. V \in SUBSET (Writer \ {w}) OBVIOUS
<1>2. /\ IsFiniteSet(Writer \ {w}) /\ Cardinality(Writer \ {w}) = Cardinality(Writer) - 1
      /\ Cardinality(Writer) \in Nat
  BY FS_RemoveElement, FS_CardinalityType DEF FactsFit
<1>3. IsFiniteSet(V) /\ Cardinality(V) <= Cardinality(Writer) - 1 BY <1>1, <1>2, FS_Subset
<1>4. f \in Surjection(V, InHand) BY DEF InHand, Surjection
<1>5. IsFiniteSet(InHand) /\ Cardinality(InHand) <= Cardinality(V) BY <1>3, <1>4, FS_Surjection
<1>6. IsFiniteSet(T) /\ Cardinality(T) <= Cardinality(InHand) BY <1>5, FS_Subset
<1>7. Cardinality(V) \in Nat /\ Cardinality(InHand) \in Nat /\ Cardinality(T) \in Nat
  BY <1>3, <1>5, <1>6, FS_CardinalityType
<1> QED BY <1>2, <1>3, <1>5, <1>6, <1>7

\* What a writer found room for passes the limit with what the others may
\* write by no more than that.
LEMMA RoomIsEnough ==
    ASSUME FactsFit, FactsKept, NEW w \in Writer, write[w] = M!NoWrite,
           NEW S \in SUBSET memories, NEW e \in M!Entry, M!Room(S, e.content),
           NEW T, T \in SUBSET (Known \cup {e}), (T \cap memories) \ {e} \in SUBSET S
    PROVE  M!Total(T) <= Bound
<1> DEFINE A == (T \cap memories) \ {e}
           B == T \ (memories \cup {e})
<1>1. Sized(Known) /\ Known \in SUBSET M!Entry BY KnownSized
<1>2. e.content \in Fact BY DEF M!Entry
<1>3. Length[e.content] \in Nat BY <1>2 DEF FactsFit
<1>4. Sized({e}) /\ M!Total({e}) = Length[e.content]
  <2>1. Sized({e}) BY <1>3, FS_Singleton DEF Sized
  <2>2. M!Total({e}) = Length[e.content] + M!Total({e} \ {e}) BY <2>1, TotalTake
  <2>3. {e} \ {e} = {} OBVIOUS
  <2>4. M!Total({e} \ {e}) = 0 BY <2>3, TotalOfNone, Zenon
  <2> QED BY <1>3, <2>1, <2>2, <2>4
<1>5. Sized(S) BY <1>1, PartSized DEF Known
<1>6. Sized(A) /\ M!Total(A) <= M!Total(S) BY <1>5, PartSized, TotalOfPart
<1>7. B \in SUBSET InHand BY DEF Known
<1>8. Sized(B) BY <1>1, <1>7, PartSized DEF Known
<1>9. /\ IsFiniteSet(B) /\ Cardinality(B) <= Cardinality(Writer) - 1
      /\ Cardinality(Writer) \in Nat
  BY <1>7, OthersFew
<1>10. \A m \in B : Length[m.content] <= M!Longest
  <2>1. B \in SUBSET M!Entry BY <1>1, <1>7 DEF Known
  <2> QED BY <2>1, KnownSized
<1>11. M!Total(B) <= Cardinality(B) * M!Longest BY <1>8, <1>10, LongestIs, TotalAtMost
<1>12. Cardinality(B) * M!Longest <= (Cardinality(Writer) - 1) * M!Longest
  <2>1. Cardinality(B) \in Nat BY <1>9, FS_CardinalityType
  <2> DEFINE b == Cardinality(B)
             n == Cardinality(Writer) - 1
             k == M!Longest
  <2>2. b \in Nat /\ n \in Nat /\ k \in Nat /\ b <= n BY <1>9, <2>1, LongestIs
  <2> HIDE DEF b, n, k
  <2>3. b * k <= n * k BY <2>2
  <2> QED BY <2>3 DEF b, n, k
<1>13. Sized(A \cup {e}) /\ M!Total(A \cup {e}) = M!Total(A) + Length[e.content]
  <2>1. A \cap {e} = {} OBVIOUS
  <2>2. M!Total(A \cup {e}) = M!Total(A) + M!Total({e}) BY <1>4, <1>6, <2>1, TotalOfBoth
  <2>3. Sized(A \cup {e}) BY <1>4, <1>6, FS_Union DEF Sized
  <2> QED BY <1>4, <2>2, <2>3
<1> DEFINE C == A \cup {e}
<1>14. Sized(C \cup B) /\ M!Total(C \cup B) = M!Total(C) + M!Total(B)
  <2>1. C \cap B = {} OBVIOUS
  <2>2. M!Total(C \cup B) = M!Total(C) + M!Total(B) BY <1>8, <1>13, <2>1, TotalOfBoth
  <2>3. Sized(C \cup B) BY <1>8, <1>13, FS_Union DEF Sized
  <2> QED BY <2>2, <2>3
<1>15. T \in SUBSET (C \cup B) OBVIOUS
<1>16. M!Total(T) <= M!Total(C \cup B) BY <1>14, <1>15, TotalOfPart
<1>17. M!Total(S) + Length[e.content] <= Limit BY DEF M!Room
<1>18. /\ M!Total(T) \in Nat /\ M!Total(A) \in Nat /\ M!Total(B) \in Nat /\ M!Total(S) \in Nat
       /\ M!Total(C) = M!Total(A) + Length[e.content]
  BY <1>5, <1>6, <1>8, <1>13, <1>14, <1>15, PartSized, TotalType
<1>19. (Cardinality(Writer) - 1) * M!Longest \in Int /\ Cardinality(B) * M!Longest \in Int
  BY <1>9, FS_CardinalityType, LongestIs
<1> HIDE DEF A, B, C
<1> QED BY <1>3, <1>6, <1>11, <1>12, <1>14, <1>16, <1>17, <1>18, <1>19 DEF Bound, FactsFit

\* Where no more is known than before the totals stay as they were.
LEMMA LessKnown ==
    ASSUME TotalsKept, Known' \in SUBSET Known PROVE TotalsKept'
<1>1. ASSUME NEW T \in Tables' PROVE M!Total(T) <= Bound
  <2>1. T \in Tables BY DEF Tables
  <2> QED BY <2>1 DEF TotalsKept
<1>2. (\A T \in Tables' : M!Total(T) <= Bound) => TotalsKept' BY DEF TotalsKept
<1> QED BY <1>1, <1>2

\* The call of a writer comes to its end.
Ends(w) == write' = [write EXCEPT ![w] = M!NoWrite]

\* Ending a write takes an entry out of the hands and adds none.
LEMMA EndsHand ==
    ASSUME M!TypeOK, NEW w \in Writer, Ends(w)
    PROVE  /\ InHand' \in SUBSET InHand
           /\ write' \in [Writer -> {M!NoWrite} \cup [kind : {"add", "replace"}, entry : M!Entry]]
           /\ \A v \in Writer : Adds(v)' => Adds(v) /\ v # w /\ write'[v] = write[v]
<1>1. \A v \in Writer : write'[v] = IF v = w THEN M!NoWrite ELSE write[v] BY DEF Ends, M!TypeOK
<1>2. InHand' \in SUBSET InHand BY <1>1 DEF InHand
<1>3. \A v \in Writer : Adds(v)' => v # w BY <1>1 DEF Adds, M!NoWrite
<1>4. \A v \in Writer : Adds(v)' => Adds(v) /\ v # w /\ write'[v] = write[v]
  BY <1>1, <1>3 DEF Adds
<1>5. write' \in [Writer -> {M!NoWrite} \cup [kind : {"add", "replace"}, entry : M!Entry]]
  BY DEF Ends, M!TypeOK
<1> QED BY <1>2, <1>4, <1>5

\* A table with fewer entries, or the same, and a call that ends.
LEMMA LessThere ==
    ASSUME FactsFit, MemoryIInv, memories' \in SUBSET memories, UNCHANGED ids,
           UNCHANGED write \/ \E w \in Writer : Ends(w)
    PROVE  MemoryIInv'
<1>1. IsFiniteSet(memories') BY FS_Subset DEF MemoryIInv, FactsKept
<1>2. /\ InHand' \in SUBSET InHand
      /\ write' \in [Writer -> {M!NoWrite} \cup [kind : {"add", "replace"}, entry : M!Entry]]
      /\ \A v \in Writer : Adds(v)' => Adds(v) /\ write'[v] = write[v]
  <2>1. CASE UNCHANGED write BY <2>1 DEF InHand, Adds, MemoryIInv, FactsKept, M!TypeOK
  <2>2. CASE \E w \in Writer : Ends(w) BY <2>2, EndsHand DEF MemoryIInv, FactsKept
  <2> QED BY <2>1, <2>2
<1>3. FactsKept'
  <2>1. M!TypeOK' BY <1>2 DEF MemoryIInv, FactsKept, M!TypeOK
  <2> QED BY <1>1, <1>2, <2>1 DEF MemoryIInv, FactsKept
<1>4. Known' \in SUBSET Known BY <1>2 DEF Known
<1> QED BY <1>3, <1>4, LessKnown DEF MemoryIInv

\* A writer that is killed stores nothing.
LEMMA KilledKeeps == ASSUME FactsFit, MemoryIInv, NEW w \in Writer, M!Killed(w) PROVE MemoryIInv'
BY LessThere DEF M!Killed, Ends

\* Removing an entry leaves less.
LEMMA RemoveKeeps == ASSUME FactsFit, MemoryIInv, NEW id, M!Remove(id) PROVE MemoryIInv'
<1>1. memories' \in SUBSET memories BY DEF M!Remove
<1> QED BY <1>1, LessThere DEF M!Remove

\* An insert stores what was known already.
LEMMA InsertKeeps == ASSUME FactsFit, MemoryIInv, NEW w \in Writer, M!Insert(w) PROVE MemoryIInv'
<1> DEFINE e == write[w].entry
<1>1. FactsKept /\ TotalsKept /\ M!TypeOK /\ Adds(w) /\ Ends(w) /\ UNCHANGED ids
  BY DEF MemoryIInv, FactsKept, M!Insert, Adds, Ends
<1>2. write[w] # M!NoWrite BY <1>1 DEF Adds, M!NoWrite
<1>3. e \in M!Entry /\ e.id <= ids /\ \A m \in memories : m.id # e.id
  BY <1>1, <1>2, HeldEntry DEF FactsKept
<1>4. CASE M!Holds(memories, e.content)
  <2>1. memories' = memories BY <1>4 DEF M!Insert
  <2> QED BY <1>1, <2>1, LessThere
<1>5. CASE ~M!Holds(memories, e.content)
  <2>1. memories' = memories \cup {e} BY <1>5 DEF M!Insert
  <2>2. \A m \in memories : m.content # e.content BY <1>5 DEF M!Holds
  <2>3. IsFiniteSet(memories') BY <1>1, <2>1, FS_AddElement DEF FactsKept
  <2>4. e \in InHand BY <1>2 DEF InHand
  <2> HIDE DEF e
  <2>5. Known' \in SUBSET Known BY <1>1, <2>1, <2>4, EndsHand DEF Known
  <2>6. M!TypeOK' BY <1>1, <1>3, <2>1, EndsHand DEF M!TypeOK
  <2>7. \A m, n \in memories' : m.id = n.id \/ m.content = n.content => m = n
    BY <1>1, <1>3, <2>1, <2>2 DEF FactsKept
  <2>8. \A m \in memories' : m.id <= ids' BY <1>1, <1>3, <2>1 DEF FactsKept
  <2>9. ASSUME NEW v \in Writer, Adds(v)'
        PROVE  /\ write'[v].entry.id <= ids'
               /\ \A m \in memories' : m.id # write'[v].entry.id
               /\ \A u \in Writer : Adds(u)' /\ write'[u].entry.id = write'[v].entry.id => u = v
    <3>1. Adds(v) /\ v # w /\ write'[v] = write[v] BY <1>1, <2>9, EndsHand
    <3>2. write[v].entry.id # e.id BY <1>1, <3>1 DEF FactsKept, e
    <3>3. \A u \in Writer : Adds(u)' => Adds(u) /\ write'[u] = write[u] BY <1>1, EndsHand
    <3> QED BY <1>1, <2>1, <3>1, <3>2, <3>3 DEF FactsKept
  <2>10. FactsKept' BY <2>3, <2>6, <2>7, <2>8, <2>9 DEF FactsKept
  <2> QED BY <1>1, <2>5, <2>10, LessKnown DEF MemoryIInv
<1> QED BY <1>4, <1>5

\* So does a replacement, which takes the old entry of its id away.
LEMMA UpdateKeeps == ASSUME FactsFit, MemoryIInv, NEW w \in Writer, M!Update(w) PROVE MemoryIInv'
<1> DEFINE e == write[w].entry
           others == {m \in memories : m.id # e.id}
<1>1. /\ FactsKept /\ TotalsKept /\ M!TypeOK /\ write[w].kind = "replace" /\ Ends(w)
      /\ UNCHANGED ids
  BY DEF MemoryIInv, FactsKept, M!Update, Ends
<1>2. write[w] # M!NoWrite BY <1>1 DEF M!NoWrite
<1>3. e \in M!Entry /\ e \in InHand BY <1>1, <1>2, HeldEntry DEF InHand
<1>4. CASE others = memories \/ M!Holds(others, e.content)
  <2>1. memories' = memories BY <1>4 DEF M!Update
  <2> QED BY <1>1, <2>1, LessThere
<1>5. CASE ~(others = memories \/ M!Holds(others, e.content))
  <2>1. memories' = others \cup {e} BY <1>5 DEF M!Update
  <2>2. \A m \in others : m.content # e.content BY <1>5 DEF M!Holds
  <2>3. PICK old \in memories : old.id = e.id BY <1>5
  <2>4. others \in SUBSET memories /\ \A m \in others : m.id # e.id OBVIOUS
  <2> HIDE DEF others, e
  <2>5. IsFiniteSet(memories') BY <1>1, <2>1, <2>4, FS_AddElement, FS_Subset DEF FactsKept
  <2>6. Known' \in SUBSET Known BY <1>1, <1>3, <2>1, <2>4, EndsHand DEF Known
  <2>7. M!TypeOK' BY <1>1, <1>3, <2>1, <2>4, EndsHand DEF M!TypeOK
  <2>8. \A m, n \in memories' : m.id = n.id \/ m.content = n.content => m = n
    BY <1>1, <2>1, <2>2, <2>4 DEF FactsKept
  <2>9. \A m \in memories' : m.id <= ids' BY <1>1, <2>1, <2>3, <2>4 DEF FactsKept
  <2>10. ASSUME NEW v \in Writer, Adds(v)'
         PROVE  /\ write'[v].entry.id <= ids'
                /\ \A m \in memories' : m.id # write'[v].entry.id
                /\ \A u \in Writer : Adds(u)' /\ write'[u].entry.id = write'[v].entry.id => u = v
    <3>1. Adds(v) /\ write'[v] = write[v] BY <1>1, <2>10, EndsHand
    <3>2. \A m \in memories' : \E n \in memories : n.id = m.id BY <2>1, <2>3, <2>4
    <3>3. \A u \in Writer : Adds(u)' => Adds(u) /\ write'[u] = write[u] BY <1>1, EndsHand
    <3> QED BY <1>1, <3>1, <3>2, <3>3 DEF FactsKept
  <2>11. FactsKept' BY <2>5, <2>7, <2>8, <2>9, <2>10 DEF FactsKept
  <2> QED BY <1>1, <2>6, <2>11, LessKnown DEF MemoryIInv
<1> QED BY <1>4, <1>5

\* A writer that has nothing in hand takes an entry there is room for.
Takes(w, kind, e) == write' = [write EXCEPT ![w] = [kind |-> kind, entry |-> e]]

\* What a check takes in hand is one entry more that is known.
LEMMA TakesHand ==
    ASSUME M!TypeOK, NEW w \in Writer, write[w] = M!NoWrite,
           NEW kind \in {"add", "replace"}, NEW e \in M!Entry, Takes(w, kind, e),
           UNCHANGED memories
    PROVE  /\ Known' \in SUBSET (Known \cup {e})
           /\ write' \in [Writer -> {M!NoWrite} \cup [kind : {"add", "replace"}, entry : M!Entry]]
           /\ \A v \in Writer : write'[v] = IF v = w THEN [kind |-> kind, entry |-> e] ELSE write[v]
<1>1. \A v \in Writer : write'[v] = IF v = w THEN [kind |-> kind, entry |-> e] ELSE write[v]
  BY DEF Takes, M!TypeOK
<1>2. Known' \in SUBSET (Known \cup {e}) BY <1>1 DEF Known, InHand
<1>3. write' \in [Writer -> {M!NoWrite} \cup [kind : {"add", "replace"}, entry : M!Entry]]
  BY DEF Takes, M!TypeOK
<1> QED BY <1>1, <1>2, <1>3

\* A check that finds room for a fact keeps the totals, whatever the other
\* writers have in hand.
LEMMA TakesTotals ==
    ASSUME FactsFit, FactsKept, TotalsKept, NEW w \in Writer, write[w] = M!NoWrite,
           NEW kind \in {"add", "replace"}, NEW e \in M!Entry, Takes(w, kind, e),
           UNCHANGED memories,
           NEW S \in SUBSET memories, M!Room(S, e.content),
           \A m \in memories : m.id # e.id => m \in S
    PROVE  TotalsKept'
<1>0. M!TypeOK BY DEF FactsKept
<1>1. Known' \in SUBSET (Known \cup {e}) BY <1>0, TakesHand
<1>2. ASSUME NEW T \in Tables' PROVE M!Total(T) <= Bound
  <2>1. T \in SUBSET (Known \cup {e}) /\ \A m, n \in T : m.id = n.id => m = n
    BY <1>1 DEF Tables
  <2>2. CASE e \notin T
    <3>1. T \in Tables BY <2>1, <2>2 DEF Tables
    <3> QED BY <3>1 DEF TotalsKept
  <2>3. CASE e \in T
    <3>1. (T \cap memories) \ {e} \in SUBSET S BY <2>1, <2>3
    <3> QED BY <2>1, <3>1, RoomIsEnough
  <2> QED BY <2>2, <2>3
<1>3. (\A T \in Tables' : M!Total(T) <= Bound) => TotalsKept' BY DEF TotalsKept
<1> QED BY <1>2, <1>3

\* The check of an addition keeps the totals.
LEMMA CheckAddKeeps ==
    ASSUME FactsFit, MemoryIInv, NEW w \in Writer, NEW content \in Fact, M!CheckAdd(w, content)
    PROVE  MemoryIInv'
<1> DEFINE e == [id |-> ids + 1, content |-> content]
<1>1. FactsKept /\ TotalsKept /\ M!TypeOK /\ ids \in Nat /\ MaxIds \in Nat
  BY DEF MemoryIInv, FactsKept, FactsFit, M!TypeOK
<1>2. /\ write[w] = M!NoWrite /\ ids < MaxIds /\ M!Room(memories, content)
      /\ ids' = ids + 1 /\ UNCHANGED memories
  BY DEF M!CheckAdd
<1>3. Takes(w, "add", e) BY DEF M!CheckAdd, Takes
<1>4. e \in M!Entry /\ e.id = ids + 1 /\ e.content = content BY <1>1, <1>2 DEF M!Entry, M!Id
<1> HIDE DEF e
<1>5. TotalsKept' BY <1>1, <1>2, <1>3, <1>4, TakesTotals
<1>6. /\ write' \in [Writer -> {M!NoWrite} \cup [kind : {"add", "replace"}, entry : M!Entry]]
      /\ \A v \in Writer : write'[v] = IF v = w THEN [kind |-> "add", entry |-> e] ELSE write[v]
  BY <1>1, <1>2, <1>3, <1>4, TakesHand
<1>7. M!TypeOK' BY <1>1, <1>2, <1>6 DEF M!TypeOK
<1>8. \A m \in memories : m.id \in Nat /\ m.id <= ids BY <1>1 DEF FactsKept, M!TypeOK, M!Entry, M!Id
<1>9. \A v \in Writer : Adds(v) => write[v].entry.id \in Nat /\ write[v].entry.id <= ids
  <2>1. ASSUME NEW v \in Writer, Adds(v) PROVE write[v].entry.id \in Nat /\ write[v].entry.id <= ids
    <3>1. write[v] # M!NoWrite BY <2>1, NothingHeld DEF Adds
    <3> QED BY <1>1, <2>1, <3>1, HeldEntry DEF FactsKept
  <2> QED BY <2>1
<1>10. ASSUME NEW v \in Writer, Adds(v)'
       PROVE  /\ write'[v].entry.id <= ids'
              /\ \A m \in memories' : m.id # write'[v].entry.id
              /\ \A u \in Writer : Adds(u)' /\ write'[u].entry.id = write'[v].entry.id => u = v
  <2>1. \A u \in Writer : Adds(u)' =>
            IF u = w THEN write'[u].entry = e ELSE Adds(u) /\ write'[u] = write[u]
    BY <1>6 DEF Adds
  <2>2. CASE v = w
    <3>1. write'[v].entry.id = ids + 1 BY <1>4, <1>10, <2>1, <2>2
    <3>2. ASSUME NEW u \in Writer, Adds(u)', u # w PROVE write'[u].entry.id # ids + 1
      <4>1. Adds(u) /\ write'[u] = write[u] BY <2>1, <3>2
      <4>2. write'[u].entry.id \in Nat /\ write'[u].entry.id <= ids BY <1>9, <4>1
      <4> QED BY <1>1, <4>2
    <3> QED BY <1>1, <1>2, <1>8, <2>2, <3>1, <3>2
  <2>3. CASE v # w
    <3>1. Adds(v) /\ write'[v] = write[v] BY <1>10, <2>1, <2>3
    <3>2. write[v].entry.id \in Nat /\ write[v].entry.id <= ids BY <1>9, <3>1
    <3>3. ASSUME NEW u \in Writer, Adds(u)', write'[u].entry.id = write'[v].entry.id PROVE u = v
      <4>1. CASE u = w
        <5>1. write'[u].entry.id = ids + 1 BY <1>4, <2>1, <3>3, <4>1
        <5> QED BY <1>1, <3>1, <3>2, <3>3, <5>1
      <4>2. CASE u # w
        <5>1. Adds(u) /\ write'[u] = write[u] BY <2>1, <3>3, <4>2
        <5> QED BY <1>1, <3>1, <3>3, <5>1 DEF FactsKept
      <4> QED BY <4>1, <4>2
    <3>4. \A m \in memories' : m.id # write'[v].entry.id BY <1>1, <1>2, <3>1 DEF FactsKept
    <3> QED BY <1>1, <1>2, <3>1, <3>2, <3>3, <3>4
  <2> QED BY <2>2, <2>3
<1>11. \A m \in memories' : m.id <= ids' BY <1>1, <1>2, <1>8
<1>12. FactsKept' BY <1>1, <1>2, <1>7, <1>10, <1>11 DEF FactsKept
<1> QED BY <1>5, <1>12 DEF MemoryIInv

\* So does the check of a replacement.
LEMMA CheckReplaceKeeps ==
    ASSUME FactsFit, MemoryIInv, NEW w \in Writer, NEW id \in 1 .. ids, NEW content \in Fact,
           M!CheckReplace(w, id, content)
    PROVE  MemoryIInv'
<1> DEFINE e == [id |-> id, content |-> content]
           S == {m \in memories : m.id # id}
<1>1. FactsKept /\ TotalsKept /\ M!TypeOK /\ ids \in Nat /\ MaxIds \in Nat /\ ids <= MaxIds
  BY DEF MemoryIInv, FactsKept, FactsFit, M!TypeOK
<1>2. /\ write[w] = M!NoWrite /\ M!Room(S, content) /\ UNCHANGED <<ids, memories>>
  BY DEF M!CheckReplace
<1>3. Takes(w, "replace", e) BY DEF M!CheckReplace, Takes
<1>4. e \in M!Entry /\ e.id = id /\ e.content = content BY <1>1, <1>2 DEF M!Entry, M!Id
<1>5. S \in SUBSET memories /\ \A m \in memories : m.id # id => m \in S OBVIOUS
<1> HIDE DEF e, S
<1>6. TotalsKept' BY <1>1, <1>2, <1>3, <1>4, <1>5, TakesTotals
<1>7. /\ write' \in [Writer -> {M!NoWrite} \cup [kind : {"add", "replace"}, entry : M!Entry]]
      /\ \A v \in Writer : write'[v] = IF v = w THEN [kind |-> "replace", entry |-> e] ELSE write[v]
  BY <1>1, <1>2, <1>3, <1>4, TakesHand
<1>8. M!TypeOK' BY <1>1, <1>2, <1>7 DEF M!TypeOK
<1>9. \A u \in Writer : Adds(u)' => Adds(u) /\ write'[u] = write[u] BY <1>7 DEF Adds
<1>10. FactsKept' BY <1>1, <1>2, <1>8, <1>9 DEF FactsKept
<1> QED BY <1>6, <1>10 DEF MemoryIInv

\* At first the totals are those of nothing.
LEMMA MemoryStarts == ASSUME FactsFit, M!Init PROVE MemoryIInv
<1>1. memories = {} /\ ids = 0 /\ write = [w \in Writer |-> M!NoWrite] BY DEF M!Init
<1>2. M!TypeOK BY <1>1 DEF M!TypeOK, FactsFit
<1>3. \A w \in Writer : ~Adds(w) BY <1>1 DEF Adds, M!NoWrite
<1>4. FactsKept BY <1>1, <1>2, <1>3, FS_EmptySet DEF FactsKept
<1>5. Known = {} BY <1>1 DEF Known, InHand
<1>6. Cardinality(Writer) \in Nat /\ Cardinality(Writer) # 0
  BY FS_CardinalityType, FS_EmptySet DEF FactsFit
<1>7. ASSUME NEW T \in Tables PROVE M!Total(T) <= Bound
  <2>1. T = {} BY <1>5 DEF Tables
  <2>2. M!Total(T) = 0 BY <2>1, TotalOfNone, Zenon
  <2> DEFINE n == Cardinality(Writer) - 1
             k == M!Longest
  <2>3. n \in Nat /\ k \in Nat BY <1>6, LongestIs
  <2> HIDE DEF n, k
  <2>4. n * k \in Nat BY <2>3
  <2> QED BY <2>2, <2>4 DEF Bound, FactsFit, n, k
<1> QED BY <1>4, <1>7 DEF MemoryIInv, TotalsKept

\* Every step keeps the totals.
LEMMA MemoryStep == ASSUME FactsFit, MemoryIInv, [M!Next]_(M!vars) PROVE MemoryIInv'
<1>1. ASSUME NEW w \in Writer, M!Insert(w) \/ M!Update(w) \/ M!Killed(w) PROVE MemoryIInv'
  BY <1>1, InsertKeeps, UpdateKeeps, KilledKeeps
<1>2. ASSUME NEW w \in Writer, NEW content \in Fact, M!CheckAdd(w, content) PROVE MemoryIInv'
  BY <1>2, CheckAddKeeps
<1>3. ASSUME NEW w \in Writer, NEW content \in Fact, NEW id \in 1 .. ids,
             M!CheckReplace(w, id, content)
      PROVE  MemoryIInv'
  BY <1>3, CheckReplaceKeeps
<1>4. ASSUME NEW id \in 1 .. ids, M!Remove(id) PROVE MemoryIInv' BY <1>4, RemoveKeeps
<1>5. CASE UNCHANGED M!vars BY <1>5, LessThere DEF M!vars
<1> QED BY <1>1, <1>2, <1>3, <1>4, <1>5 DEF M!Next

\* The invariant gives the bound that the runs check.
LEMMA MemoryIsBounded == ASSUME FactsFit, MemoryIInv PROVE M!TypeOK /\ M!MemoryBounded
<1>1. memories \in Tables BY DEF Tables, Known, MemoryIInv, FactsKept
<1>2. M!Total(memories) <= Bound BY <1>1 DEF MemoryIInv, TotalsKept
<1>3. M!Cardinality(Writer) = Cardinality(Writer) BY MemoryCounts
<1>4. Bound = Limit + (M!Cardinality(Writer) - 1) * M!Longest BY <1>3 DEF Bound
<1> QED BY <1>2, <1>4 DEF M!MemoryBounded, MemoryIInv, FactsKept

\* A fact is there once, and the total passes the limit by no more than what the
\* other writers of the moment may have checked (memoryAdd, memoryReplace).
THEOREM MemoryStaysBounded ==
    ASSUME FactsFit PROVE M!Spec => [](M!TypeOK /\ M!MemoryBounded)
<1>1. M!Init => MemoryIInv BY MemoryStarts
<1>2. MemoryIInv /\ [M!Next]_(M!vars) => MemoryIInv' BY MemoryStep
<1>3. MemoryIInv => M!TypeOK /\ M!MemoryBounded BY MemoryIsBounded
<1> QED BY <1>1, <1>2, <1>3, PTL DEF M!Spec

-----------------------------------------------------------------------------
(* The shell *)

\* Nothing runs before the start, the shell has ended once it is reaped, and what
\* counts as no error until then is a shell that succeeded with nothing killed.
CallInv ==
    /\ place = "start" => shell = "none" /\ children = {} /\ ~wasCut
    /\ place \in {"reaped", "reading", "done"} => shell # "running"
    /\ place \in {"reaped", "reading"} /\ ~error => shell = "succeeded"
    /\ place = "reading" /\ ~error => ~wasCut
    /\ answer # "none" => place = "done"
    /\ shell \in {"none"} => children = {}
    /\ place = "waiting" /\ wasCut => shell # "running"

\* Every step keeps what a shell call answers true.
LEMMA ShellStep ==
    ASSUME Z!ShellInv, CallInv, [Z!Next]_(Z!vars) PROVE (Z!ShellInv /\ CallInv)'
<1> USE DEF Z!ShellInv, CallInv, Z!TypeOK, Z!OutputIsWhole, Z!GroupIsKilled, Z!Child, Z!Writers,
            Z!Group
<1>1. CASE UNCHANGED Z!vars BY <1>1, Zenon DEF Z!vars
<1>2. CASE Z!ContextEnds BY <1>2 DEF Z!ContextEnds
<1>3. CASE Z!ShellEnds BY <1>3 DEF Z!ShellEnds
<1>4. ASSUME NEW c \in Z!Child, Z!ShellStarts(c) PROVE (Z!ShellInv /\ CallInv)'
  BY <1>4 DEF Z!ShellStarts
<1>5. ASSUME NEW c \in Z!Child, Z!ChildEnds(c) PROVE (Z!ShellInv /\ CallInv)'
  BY <1>5 DEF Z!ChildEnds
<1>6. CASE Z!Start BY <1>6 DEF Z!Start, Z!Answer
<1>7. CASE Z!Cancel BY <1>7 DEF Z!Cancel, Z!Terminate
<1>8. CASE Z!Reap BY <1>8 DEF Z!Reap
<1>9. CASE Z!Handover BY <1>9 DEF Z!Handover
<1>10. CASE Z!EndOfOutput BY <1>10 DEF Z!EndOfOutput, Z!Finish, Z!Answer
<1>11. CASE Z!GiveUp BY <1>11 DEF Z!GiveUp, Z!Finish, Z!Answer
<1> QED
  BY <1>1, <1>2, <1>3, <1>4, <1>5, <1>6, <1>7, <1>8, <1>9, <1>10, <1>11 DEF Z!Next, Z!Call

\* The answer of a call that ended well is the whole output of its shell, and no
\* shell is left behind, nor its group when it was killed (bashExec,
\* bashTerminate), whenever the context ends and whoever keeps the pipe.
THEOREM ShellCallsHold == Z!Spec => []Z!ShellInv
<1>1. Z!Init => Z!ShellInv /\ CallInv
  BY DEF Z!Init, Z!ShellInv, CallInv, Z!TypeOK, Z!OutputIsWhole, Z!GroupIsKilled
<1>2. Z!ShellInv /\ CallInv /\ [Z!Next]_(Z!vars) => (Z!ShellInv /\ CallInv)' BY ShellStep
<1> QED BY <1>1, <1>2, PTL DEF Z!Spec

\* The guards of the steps of a call: of its start, of the goroutine that waits for
\* the context, of Process.Wait, of the result of that goroutine, and of the end of
\* the output, which comes at bashWaitDelay if not before.
MayStep ==
    \/ place = "start"
    \/ context # "live" /\ ~wasCut /\ place \in {"waiting", "reaped"}
    \/ place = "waiting" /\ shell # "running"
    \/ place = "reaped"
    \/ place = "reading"

\* Once the context is over the guard of a step of the call holds until it has
\* answered: a shell that still runs has not been killed yet, so the goroutine
\* that kills it can step (bashTerminate).  This is CallGoesOn, without ENABLED.
THEOREM OverdueCallsMayStep ==
    Z!Spec => [](context # "live" /\ place # "done" => MayStep)
<1>1. Z!Init => Z!ShellInv /\ CallInv
  BY DEF Z!Init, Z!ShellInv, CallInv, Z!TypeOK, Z!OutputIsWhole, Z!GroupIsKilled
<1>2. Z!ShellInv /\ CallInv /\ [Z!Next]_(Z!vars) => (Z!ShellInv /\ CallInv)' BY ShellStep
<1>3. Z!ShellInv /\ CallInv => (context # "live" /\ place # "done" => MayStep)
  BY DEF Z!ShellInv, Z!TypeOK, CallInv, MayStep
<1> QED BY <1>1, <1>2, <1>3, PTL DEF Z!Spec

-----------------------------------------------------------------------------
(* What a pattern names *)

\* What PathMatch is defined by: the names from which on the segments from the
\* i-th on match.
From(p, n, from, i) ==
    IF i > Len(p) THEN {Len(n) + 1}
    ELSE IF p[i] = "**" THEN {j \in 1 .. Len(n) + 1 : \E k \in from[i + 1] : j <= k}
    ELSE {j \in 1 .. Len(n) : G!Fits(p[i], n[j]) /\ j + 1 \in from[i + 1]}

Matches(p, n, from) == from = [i \in 1 .. Len(p) + 1 |-> From(p, n, from, i)]

\* PathMatch, by the function that its recursion defines.
LEMMA PathMatchUnfolds ==
    ASSUME NEW p, NEW n PROVE G!PathMatch(p, n) = (1 \in (CHOOSE from : Matches(p, n, from))[1])
BY Zenon DEF G!PathMatch, Matches, From

\* The plain sense of the segments from the i-th on, for the names from the
\* j-th on.
Cuts(p, n, i, j, cut) ==
    /\ cut \in [i - 1 .. Len(p) -> 0 .. Len(n)]
    /\ cut[i - 1] = j - 1 /\ cut[Len(p)] = Len(n)
    /\ \A k \in i .. Len(p) :
          IF p[k] = "**" THEN cut[k - 1] <= cut[k]
          ELSE cut[k] = cut[k - 1] + 1 /\ G!Fits(p[k], n[cut[k]])

Sense(p, n, i, j) == \E cut : Cuts(p, n, i, j, cut)

Strings == Seq(STRING)

\* The plain sense of one segment more,
LEMMA SenseOfNone ==
    ASSUME NEW p \in Strings, NEW n \in Strings, NEW j \in 1 .. Len(n) + 1
    PROVE  Sense(p, n, Len(p) + 1, j) <=> j = Len(n) + 1
<1> DEFINE l == Len(p)
<1>1. l \in Nat /\ Len(n) \in Nat BY DEF Strings
<1> HIDE DEF l
<1>2. l + 1 - 1 = l BY <1>1
<1>3. ASSUME NEW cut, Cuts(p, n, l + 1, j, cut) PROVE j = Len(n) + 1
  <2>1. cut[l + 1 - 1] = j - 1 /\ cut[l] = Len(n) BY <1>3 DEF Cuts, l
  <2>2. j - 1 = Len(n) BY <1>2, <2>1
  <2> QED BY <1>1, <2>2
<1>4. ASSUME j = Len(n) + 1 PROVE Sense(p, n, l + 1, j)
  <2> DEFINE cut == [k \in l .. l |-> Len(n)]
  <2>1. cut \in [l .. l -> 0 .. Len(n)] /\ cut[l] = Len(n) BY <1>1
  <2>2. l + 1 .. l = {} BY <1>1
  <2>3. j - 1 = Len(n) BY <1>1, <1>4
  <2> HIDE DEF cut
  <2>4. /\ cut \in [l + 1 - 1 .. l -> 0 .. Len(n)]
        /\ cut[l + 1 - 1] = j - 1 /\ cut[l] = Len(n)
    BY <1>2, <2>1, <2>3
  <2>5. \A k \in l + 1 .. l :
            IF p[k] = "**" THEN cut[k - 1] <= cut[k]
            ELSE cut[k] = cut[k - 1] + 1 /\ G!Fits(p[k], n[cut[k]])
    BY <2>2
  <2>6. Cuts(p, n, l + 1, j, cut)
    <3> USE DEF l
    <3> QED BY <2>4, <2>5 DEF Cuts
  <2> QED BY <2>6 DEF Sense
<1> QED BY <1>3, <1>4 DEF Sense, l

\* What a segment makes of the names up to the k-th, when it begins after the
\* j-th.
Segment(p, n, i, j, k) ==
    IF p[i] = "**" THEN j <= k ELSE k = j + 1 /\ G!Fits(p[i], n[k])

\* What a pattern means, by what its first segment matches.
LEMMA SenseOfOne ==
    ASSUME NEW p \in Strings, NEW n \in Strings, NEW i \in 1 .. Len(p), NEW j \in 1 .. Len(n) + 1
    PROVE  Sense(p, n, i, j) <=>
              \E k \in 1 .. Len(n) + 1 : Segment(p, n, i, j - 1, k - 1) /\ Sense(p, n, i + 1, k)
<1>1. /\ Len(p) \in Nat /\ Len(n) \in Nat /\ i + 1 - 1 = i /\ i \in i - 1 .. Len(p)
      /\ i - 1 \in i - 1 .. Len(p) /\ i # i - 1 /\ Len(p) \in i .. Len(p)
  BY DEF Strings
<1>2. ASSUME NEW cut, Cuts(p, n, i, j, cut)
      PROVE  \E k \in 1 .. Len(n) + 1 : Segment(p, n, i, j - 1, k - 1) /\ Sense(p, n, i + 1, k)
  <2> DEFINE k == cut[i] + 1
             rest == [m \in i .. Len(p) |-> cut[m]]
  <2>1. cut[i] \in 0 .. Len(n) BY <1>1, <1>2 DEF Cuts
  <2>2. k \in 1 .. Len(n) + 1 /\ k - 1 = cut[i] BY <1>1, <2>1
  <2>3. Segment(p, n, i, j - 1, cut[i]) BY <1>1, <1>2 DEF Cuts, Segment
  <2>4. \A m \in i .. Len(p) : m \in i - 1 .. Len(p) BY <1>1
  <2>5. rest \in [i .. Len(p) -> 0 .. Len(n)] BY <1>2, <2>4 DEF Cuts
  <2>6. rest[i] = cut[i] /\ rest[Len(p)] = Len(n) BY <1>1, <1>2 DEF Cuts
  <2>7. ASSUME NEW m \in i + 1 .. Len(p)
        PROVE  IF p[m] = "**" THEN rest[m - 1] <= rest[m]
               ELSE rest[m] = rest[m - 1] + 1 /\ G!Fits(p[m], n[rest[m]])
    <3>1. m \in i .. Len(p) /\ m - 1 \in i .. Len(p) BY <1>1
    <3>2. rest[m] = cut[m] /\ rest[m - 1] = cut[m - 1] BY <3>1
    <3> QED BY <1>2, <3>1, <3>2 DEF Cuts
  <2> HIDE DEF rest, k
  <2>8. Cuts(p, n, i + 1, k, rest) BY <1>1, <2>2, <2>5, <2>6, <2>7 DEF Cuts
  <2> QED BY <2>2, <2>3, <2>8 DEF Sense
<1>3. ASSUME NEW k \in 1 .. Len(n) + 1, Segment(p, n, i, j - 1, k - 1),
             NEW rest, Cuts(p, n, i + 1, k, rest)
      PROVE  Sense(p, n, i, j)
  <2> DEFINE cut == [m \in i - 1 .. Len(p) |-> IF m = i - 1 THEN j - 1 ELSE rest[m]]
  <2>1. rest \in [i .. Len(p) -> 0 .. Len(n)] /\ rest[i] = k - 1 /\ rest[Len(p)] = Len(n)
    BY <1>1, <1>3 DEF Cuts
  <2>2. \A m \in i - 1 .. Len(p) : m # i - 1 => m \in i .. Len(p) BY <1>1
  <2>3. j - 1 \in 0 .. Len(n) BY <1>1
  <2>4. cut \in [i - 1 .. Len(p) -> 0 .. Len(n)] BY <2>1, <2>2, <2>3
  <2>5. cut[i - 1] = j - 1 /\ cut[i] = k - 1 BY <1>1, <2>1
  <2>6. \A m \in i .. Len(p) : cut[m] = rest[m] BY <1>1
  <2> HIDE DEF cut
  <2>7. ASSUME NEW m \in i .. Len(p)
        PROVE  IF p[m] = "**" THEN cut[m - 1] <= cut[m]
               ELSE cut[m] = cut[m - 1] + 1 /\ G!Fits(p[m], n[cut[m]])
    <3>1. CASE m = i BY <1>3, <2>5, <3>1 DEF Segment
    <3>2. CASE m # i
      <4>1. m \in i + 1 .. Len(p) /\ m - 1 \in i .. Len(p) BY <1>1, <3>2
      <4>2. cut[m] = rest[m] /\ cut[m - 1] = rest[m - 1] BY <2>6, <4>1
      <4> QED BY <1>3, <4>1, <4>2 DEF Cuts
    <3> QED BY <3>1, <3>2
  <2>8. Cuts(p, n, i, j, cut) BY <1>1, <2>1, <2>4, <2>5, <2>6, <2>7 DEF Cuts
  <2> QED BY <2>8 DEF Sense
<1>4. ASSUME Sense(p, n, i, j)
      PROVE  \E k \in 1 .. Len(n) + 1 : Segment(p, n, i, j - 1, k - 1) /\ Sense(p, n, i + 1, k)
  BY <1>2, <1>4 DEF Sense
<1>5. ASSUME NEW k \in 1 .. Len(n) + 1, Segment(p, n, i, j - 1, k - 1), Sense(p, n, i + 1, k)
      PROVE  Sense(p, n, i, j)
  BY <1>3, <1>5 DEF Sense
<1> QED BY <1>4, <1>5

\* is what one step of the recursion makes of the segments after it.
Senses(p, n) == [i \in 1 .. Len(p) + 1 |-> {j \in 1 .. Len(n) + 1 : Sense(p, n, i, j)}]

\* The meaning of a pattern satisfies the recursion of the matcher.
LEMMA SensesMatch ==
    ASSUME NEW p \in Strings, NEW n \in Strings PROVE Matches(p, n, Senses(p, n))
<1> DEFINE f == Senses(p, n)
<1>1. Len(p) \in Nat /\ Len(n) \in Nat BY DEF Strings
<1>2. \A i \in 1 .. Len(p) + 1 : f[i] = {j \in 1 .. Len(n) + 1 : Sense(p, n, i, j)} BY DEF Senses
<1>3. ASSUME NEW i \in 1 .. Len(p) + 1 PROVE f[i] = From(p, n, f, i)
  <2>1. CASE i > Len(p)
    <3>1. i = Len(p) + 1 BY <1>1, <2>1
    <3>2. f[i] = {Len(n) + 1} BY <1>1, <1>2, <3>1, SenseOfNone
    <3> QED BY <2>1, <3>2 DEF From
  <2>2. CASE ~(i > Len(p))
    <3>1. i \in 1 .. Len(p) /\ i + 1 \in 1 .. Len(p) + 1 BY <1>1, <2>2
    <3>2. f[i + 1] = {j \in 1 .. Len(n) + 1 : Sense(p, n, i + 1, j)} BY <1>2, <3>1
    <3>3. \A j \in 1 .. Len(n) + 1 : j \in f[i] <=>
              \E k \in f[i + 1] : Segment(p, n, i, j - 1, k - 1)
      BY <1>2, <3>1, <3>2, SenseOfOne
    <3>4. f[i] \in SUBSET (1 .. Len(n) + 1) /\ f[i + 1] \in SUBSET (1 .. Len(n) + 1)
      BY <1>2, <3>2
    <3> HIDE DEF f
    <3>5. CASE p[i] = "**"
      <4>1. \A j, k \in 1 .. Len(n) + 1 : Segment(p, n, i, j - 1, k - 1) <=> j <= k
        BY <1>1, <3>5 DEF Segment
      <4>2. f[i] = {j \in 1 .. Len(n) + 1 : \E k \in f[i + 1] : j <= k} BY <3>3, <3>4, <4>1
      <4> QED BY <2>2, <3>5, <4>2 DEF From
    <3>6. CASE p[i] # "**"
      <4>1. \A j, k \in 1 .. Len(n) + 1 :
                Segment(p, n, i, j - 1, k - 1) <=> k = j + 1 /\ G!Fits(p[i], n[j])
        BY <1>1, <3>6 DEF Segment
      <4>2. ASSUME NEW j \in 1 .. Len(n) + 1
            PROVE  j \in f[i] <=> j \in 1 .. Len(n) /\ G!Fits(p[i], n[j]) /\ j + 1 \in f[i + 1]
        BY <1>1, <3>3, <3>4, <4>1
      <4>3. 1 .. Len(n) \in SUBSET (1 .. Len(n) + 1) BY <1>1
      <4>4. f[i] = {j \in 1 .. Len(n) : G!Fits(p[i], n[j]) /\ j + 1 \in f[i + 1]}
        BY <3>4, <4>2, <4>3
      <4> QED BY <2>2, <3>6, <4>4 DEF From
    <3> QED BY <3>5, <3>6
  <2> QED BY <2>1, <2>2
<1>4. f = [i \in 1 .. Len(p) + 1 |-> f[i]] BY DEF Senses
<1> QED BY <1>3, <1>4 DEF Matches

\* Nothing else does that,
LEMMA MatchesAgree ==
    ASSUME NEW p \in Strings, NEW n, NEW f, NEW g, Matches(p, n, f), Matches(p, n, g)
    PROVE  f = g
<1> DEFINE l == Len(p)
           Bad == {d \in 0 .. l : f[l + 1 - d] # g[l + 1 - d]}
<1>1. l \in Nat BY DEF Strings
<1>2. /\ \A i \in 1 .. l + 1 : f[i] = From(p, n, f, i) /\ g[i] = From(p, n, g, i)
      /\ f = [i \in 1 .. l + 1 |-> f[i]] /\ g = [i \in 1 .. l + 1 |-> g[i]]
  BY DEF Matches
<1> HIDE DEF l
<1>3. ASSUME Bad # {} PROVE FALSE
  <2>1. Bad \in SUBSET Nat BY <1>1
  <2>2. PICK d \in Bad : \A m \in Bad : d <= m BY <1>3, <2>1, LeastNumber
  <2>3. d \in Nat /\ d <= l /\ l + 1 - d \in 1 .. l + 1 BY <1>1
  <2>4. CASE d = 0
    <3>1. l + 1 - d > l BY <1>1, <2>4
    <3>2. From(p, n, f, l + 1 - d) = From(p, n, g, l + 1 - d) BY <3>1 DEF From, l
    <3> QED BY <1>2, <2>3, <3>2
  <2>5. CASE d # 0
    <3>1. d - 1 \in 0 .. l /\ ~(d <= d - 1) /\ l + 1 - (d - 1) = l + 1 - d + 1 BY <1>1, <2>3, <2>5
    <3>2. d - 1 \notin Bad BY <2>2, <3>1
    <3>3. f[l + 1 - d + 1] = g[l + 1 - d + 1] BY <3>1, <3>2
    <3>4. From(p, n, f, l + 1 - d) = From(p, n, g, l + 1 - d) BY <3>3 DEF From
    <3> QED BY <1>2, <2>3, <3>4
  <2> QED BY <2>4, <2>5
<1>4. ASSUME NEW i \in 1 .. l + 1 PROVE f[i] = g[i]
  <2>1. l + 1 - i \in 0 .. l /\ l + 1 - (l + 1 - i) = i BY <1>1
  <2>2. l + 1 - i \notin Bad BY <1>3
  <2> QED BY <2>1, <2>2
<1> QED BY <1>2, <1>4

\* so that a path matches a pattern when the pattern, in its plain sense,
\* names it.
LEMMA MatchIsPlain ==
    ASSUME NEW p \in Strings, NEW n \in Strings
    PROVE  G!PathMatch(p, n) <=> G!InPlainSense(p, n)
<1>1. Matches(p, n, Senses(p, n)) BY SensesMatch
<1>2. (CHOOSE from : Matches(p, n, from)) = Senses(p, n)
  <2>1. Matches(p, n, CHOOSE from : Matches(p, n, from)) BY <1>1
  <2> QED BY <1>1, <2>1, MatchesAgree
<1>3. G!PathMatch(p, n) <=> 1 \in Senses(p, n)[1] BY <1>2, PathMatchUnfolds
<1>4. Len(p) \in Nat /\ Len(n) \in Nat BY DEF Strings
<1>5. G!PathMatch(p, n) <=> Sense(p, n, 1, 1) BY <1>3, <1>4 DEF Senses
<1>6. Sense(p, n, 1, 1) <=> G!InPlainSense(p, n)
  <2>1. 1 - 1 = 0 OBVIOUS
  <2> QED BY <2>1 DEF Sense, Cuts, G!InPlainSense
<1> QED BY <1>5, <1>6

-----------------------------------------------------------------------------
(* The walk *)

\* What is assumed of the constants (MCLocal: LocalAssumption).
SearchesFit ==
    /\ Path \subseteq Strings \ {<<>>} /\ Pattern \subseteq Strings
    /\ MaxHits \in Nat /\ MaxChanges \in Nat /\ SearchLimits \subseteq Nat \ {0}

\* A path that goes through another.
Starts(a, p) == Len(a) <= Len(p) /\ \A i \in 1 .. Len(a) : a[i] = p[i]

\* The library's prefixes are those by position.
LEMMA PrefixIs ==
    ASSUME NEW a \in Strings, NEW p \in Strings
    PROVE  /\ G!IsPrefix(a, p) <=> Starts(a, p)
           /\ Starts(a, p) /\ Len(a) = Len(p) => a = p
           /\ G!IsStrictPrefix(a, p) <=> Starts(a, p) /\ Len(a) < Len(p)
<1>1. Len(a) \in Nat /\ Len(p) \in Nat BY DEF Strings
<1>2. Starts(a, p) /\ Len(a) = Len(p) => a = p BY DEF Starts, Strings
<1>3. SubSeq(a, 1, Len(a)) = a BY DEF Strings
<1>4. ASSUME Len(a) <= Len(p)
      PROVE  /\ SubSeq(p, 1, Len(a)) \in Strings /\ Len(SubSeq(p, 1, Len(a))) = Len(a)
             /\ \A i \in 1 .. Len(a) : SubSeq(p, 1, Len(a))[i] = p[i]
  <2>1. \A i \in 1 .. Len(a) : i \in 1 .. Len(p) /\ p[i] \in STRING BY <1>1, <1>4 DEF Strings
  <2> QED BY <1>1, <1>4, <2>1 DEF Strings
<1>5. G!IsPrefix(a, p) <=> Starts(a, p)
  <2>1. ASSUME G!IsPrefix(a, p) PROVE Starts(a, p)
    <3>1. Len(a) <= Len(p) /\ a = SubSeq(p, 1, Len(a)) BY <1>3, <2>1 DEF G!IsPrefix
    <3> QED BY <1>4, <3>1 DEF Starts
  <2>2. ASSUME Starts(a, p) PROVE G!IsPrefix(a, p)
    <3>1. Len(a) <= Len(p) BY <2>2 DEF Starts
    <3> DEFINE q == SubSeq(p, 1, Len(a))
    <3>2. q \in Strings /\ Len(q) = Len(a) /\ \A i \in 1 .. Len(a) : q[i] = p[i] BY <1>4, <3>1
    <3> HIDE DEF q
    <3>3. a = q BY <1>1, <2>2, <3>2 DEF Starts, Strings
    <3> QED BY <1>3, <3>1, <3>3 DEF G!IsPrefix, q
  <2> QED BY <2>1, <2>2
<1> QED BY <1>1, <1>2, <1>5 DEF G!IsStrictPrefix, Starts

\* An entry on the way to a path.
Leads(e, p) ==
    Starts(e.path, p) /\ IF Len(e.path) = Len(p) THEN e.kind = "file" ELSE e.kind = "dir"

\* A file that was there when its directory was read.
Seen(p) ==
    ~G!Hidden(p) /\ G!InPlainSense(pattern, p) => G!AtPath(p) \in ever

EntryFits(e) ==
    /\ e = [path |-> e.path, kind |-> e.kind]
    /\ e.path \in Strings /\ Len(e.path) >= 1
    /\ \A i \in 1 .. Len(e.path) - 1 : e.path[i] \notin Skipped
    /\ e.kind = "file" => e.path \in Path /\ Seen(e.path)

Before(e, p) == e.kind = "dir" /\ G!IsStrictPrefix(e.path, p)

\* Nothing is come to twice,
OnceOnly ==
    /\ \A e, f \in ahead : ~Before(e, f.path)
    /\ \A e \in ahead, r \in results : ~Before(e, r.path) /\ (e.kind = "file" => e.path # r.path)

\* nothing passed by,
NothingPassed == \A r \in always : r \in results \/ atMost <= Cardinality(results) \/ \E e \in ahead : Leads(e, r.path)

\* and the walk goes on while there is room.
WalkInv ==
    /\ G!TypeOK /\ tool \in {"glob", "grep"} /\ pattern \in Pattern
    /\ \A e \in ahead : EntryFits(e)
    /\ OnceOnly
    /\ NothingPassed
    /\ IsFiniteSet(results) /\ Cardinality(results) <= atMost
    /\ ahead # {} => Cardinality(results) < atMost
    /\ \A r \in results : r \in ever /\ G!AtPath(r.path) \in ever
    /\ always \subseteq G!Answer(tree) /\ G!Held(tree) \subseteq ever
    /\ walk = "done" => ahead = {}

\* The module's Cardinality is the standard one.
LEMMA SearchCounts == ASSUME NEW T PROVE G!Cardinality(T) = Cardinality(T)
BY DEF G!Cardinality, Cardinality, G!IsFiniteSet, IsFiniteSet

\* What there is at a path is known by its type.
LEMMA FilesFit ==
    ASSUME G!TypeOK, NEW p \in Path, MaxHits \in Nat
    PROVE  tree[p].hits \in 0 .. MaxHits
<1>1. tree[p] = G!Absent \/ tree[p] = G!Link \/ tree[p] \in G!File BY DEF G!TypeOK
<1> QED BY <1>1 DEF G!Absent, G!Link, G!File

\* What the answer of the moment has of a path.
LEMMA AnswerHas ==
    ASSUME SearchesFit, G!TypeOK, tool \in {"glob", "grep"}
    PROVE  \A r \in G!Answer(tree) :
              /\ r.path \in Path /\ tree[r.path].kind = "file" /\ ~G!Hidden(r.path)
              /\ G!InPlainSense(pattern, r.path) /\ r = [path |-> r.path, line |-> r.line]
              /\ IF tool = "glob" THEN r.line = 0 ELSE r.line \in 1 .. tree[r.path].hits
<1>1. MaxHits \in Nat BY DEF SearchesFit
<1> SUFFICES ASSUME NEW r \in G!Answer(tree)
             PROVE  /\ r.path \in Path /\ tree[r.path].kind = "file" /\ G!Shown(r.path)
                    /\ r = [path |-> r.path, line |-> r.line]
                    /\ IF tool = "glob" THEN r.line = 0 ELSE r.line \in 1 .. tree[r.path].hits
  BY DEF G!Shown
<1>2. CASE tool = "glob"
  <2>1. PICK p \in Path : tree[p].kind = "file" /\ G!Shown(p) /\ r = G!AtPath(p)
    BY <1>2 DEF G!Answer, G!Files
  <2> QED BY <1>2, <2>1 DEF G!AtPath
<1>3. CASE tool # "glob"
  <2>1. /\ r \in [path : {p \in Path : G!Shown(p)}, line : 1 .. MaxHits]
        /\ r.line <= tree[r.path].hits /\ tree[r.path].kind = "file"
    BY <1>3 DEF G!Answer, G!Lines
  <2>2. r.path \in Path /\ G!Shown(r.path) /\ r.line \in 1 .. MaxHits
        /\ r = [path |-> r.path, line |-> r.line]
    BY <2>1
  <2>3. tree[r.path].hits \in 0 .. MaxHits BY <1>1, <2>2, FilesFit
  <2>4. r.line \in 1 .. tree[r.path].hits BY <1>1, <2>1, <2>2, <2>3
  <2> QED BY <1>3, <2>1, <2>2, <2>4
<1> QED BY <1>2, <1>3

\* What there is at the moment has the answer, and every path and line.
LEMMA HeldHas ==
    ASSUME SearchesFit, G!TypeOK
    PROVE  /\ G!Answer(tree) \subseteq G!Held(tree)
           /\ \A p \in Path : ~G!Hidden(p) /\ G!InPlainSense(pattern, p) =>
                 /\ tree[p].kind = "file" => G!AtPath(p) \in G!Held(tree)
                 /\ tool # "glob" => \A i \in 1 .. tree[p].hits :
                                         [path |-> p, line |-> i] \in G!Held(tree)
<1>1. G!Answer(tree) \subseteq G!Held(tree) BY DEF G!Answer, G!Held
<1>2. ASSUME NEW p \in Path, ~G!Hidden(p), G!InPlainSense(pattern, p)
      PROVE  /\ tree[p].kind = "file" => G!AtPath(p) \in G!Held(tree)
             /\ tool # "glob" => \A i \in 1 .. tree[p].hits :
                                     [path |-> p, line |-> i] \in G!Held(tree)
  <2>1. G!Shown(p) BY <1>2 DEF G!Shown
  <2>2. tree[p].kind = "file" => G!AtPath(p) \in G!Files(tree) BY <2>1 DEF G!Files
  <2>3. ASSUME NEW i \in 1 .. tree[p].hits PROVE [path |-> p, line |-> i] \in G!Lines(tree)
    <3>1. tree[p].hits \in 0 .. MaxHits /\ MaxHits \in Nat BY FilesFit DEF SearchesFit
    <3>2. i \in 1 .. MaxHits /\ i <= tree[p].hits BY <3>1
    <3> QED BY <2>1, <3>2 DEF G!Lines
  <2> QED BY <2>2, <2>3 DEF G!Held
<1> QED BY <1>1, <1>2

\* What is read of a directory that is not hidden,
LEMMA ReadDirFits ==
    ASSUME SearchesFit, G!TypeOK, G!Held(tree) \subseteq ever,
           NEW dir \in Strings,
           \A i \in 1 .. Len(dir) : dir[i] \notin Skipped, NEW f \in G!ReadDir(dir)
    PROVE  EntryFits(f) /\ Len(f.path) = Len(dir) + 1 /\ G!IsStrictPrefix(dir, f.path)
<1>1. PICK q \in Path : tree[q] # G!Absent /\ G!IsStrictPrefix(dir, q) /\ f = G!EntryOf(q, Len(dir))
  BY DEF G!ReadDir
<1>2. q \in Strings /\ Len(q) \in Nat /\ Len(dir) \in Nat BY DEF SearchesFit, Strings
<1>3. Starts(dir, q) /\ Len(dir) < Len(q) BY <1>1, <1>2, PrefixIs
<1> DEFINE d == Len(dir) + 1
<1>4. d \in Nat /\ d >= 1 /\ d <= Len(q) BY <1>2, <1>3
<1> DEFINE a == SubSeq(q, 1, d)
<1>5. a \in Strings /\ Len(a) = d /\ \A i \in 1 .. d : a[i] = q[i]
  <2> HIDE DEF d
  <2>1. \A i \in 1 .. d : i \in 1 .. Len(q) /\ q[i] \in STRING BY <1>2, <1>4 DEF Strings
  <2> QED BY <1>2, <1>4, <2>1 DEF Strings
<1>6. f = [path |-> a, kind |-> IF Len(q) = d THEN tree[q].kind ELSE "dir"]
  BY <1>1 DEF G!EntryOf
<1>7. Len(q) = d => a = q
  <2>1. Starts(a, q) BY <1>4, <1>5 DEF Starts
  <2> QED BY <1>2, <1>5, <2>1, PrefixIs
<1> HIDE DEF a
<1>8. f.path = a /\ f = [path |-> f.path, kind |-> f.kind] BY <1>6
<1>9. Starts(dir, a) BY <1>2, <1>3, <1>5 DEF Starts
<1>10. G!IsStrictPrefix(dir, a) BY <1>2, <1>5, <1>9, PrefixIs
<1>11. \A i \in 1 .. d - 1 : a[i] \notin Skipped BY <1>2, <1>5, <1>9 DEF Starts
<1>12. ASSUME f.kind = "file" PROVE a \in Path /\ Seen(a)
  <2>1. Len(q) = d /\ tree[q].kind = "file" BY <1>6, <1>12
  <2>2. a = q BY <1>7, <2>1
  <2>3. ASSUME ~G!Hidden(a), G!InPlainSense(pattern, a)
        PROVE  G!AtPath(a) \in ever
    <3>1. G!AtPath(q) \in G!Held(tree)
      BY <2>1, <2>2, <2>3, HeldHas
    <3> QED BY <2>2, <3>1
  <2> QED BY <2>2, <2>3 DEF Seen
<1> QED BY <1>4, <1>5, <1>8, <1>10, <1>11, <1>12 DEF EntryFits

\* and that it leads on to every file below it.
LEMMA ReadDirLeads ==
    ASSUME SearchesFit, NEW dir \in Strings, NEW p \in Path, tree[p].kind = "file",
           Starts(dir, p), Len(dir) < Len(p)
    PROVE  \E f \in G!ReadDir(dir) : Leads(f, p)
<1>1. p \in Strings /\ Len(p) \in Nat /\ Len(dir) \in Nat BY DEF SearchesFit, Strings
<1>2. tree[p] # G!Absent BY DEF G!Absent
<1>3. G!IsStrictPrefix(dir, p) BY <1>1, PrefixIs
<1> DEFINE f == G!EntryOf(p, Len(dir))
           d == Len(dir) + 1
           a == SubSeq(p, 1, d)
<1>4. f \in G!ReadDir(dir) BY <1>2, <1>3 DEF G!ReadDir
<1>5. d \in Nat /\ d >= 1 /\ d <= Len(p) BY <1>1
<1>6. Len(a) = d /\ \A i \in 1 .. d : a[i] = p[i]
  <2> HIDE DEF d
  <2>1. \A i \in 1 .. d : i \in 1 .. Len(p) /\ p[i] \in STRING BY <1>1, <1>5 DEF Strings
  <2> QED BY <1>1, <1>5, <2>1 DEF Strings
<1>7. f.path = a /\ f.kind = IF Len(p) = d THEN tree[p].kind ELSE "dir" BY DEF G!EntryOf
<1> HIDE DEF f, a, d
<1>8. Leads(f, p) BY <1>5, <1>6, <1>7 DEF Leads, Starts
<1> QED BY <1>4, <1>8

\* A walk begins with the entries of the root ahead of it and no result.
LEMMA WalkStarts == ASSUME SearchesFit, G!Init PROVE WalkInv
<1>1. /\ tool \in {"glob", "grep"} /\ pattern \in Pattern /\ atMost \in SearchLimits
      /\ tree \in [Path -> {G!Absent, G!Link, [kind |-> "file", hits |-> MaxHits]}]
      /\ always = G!Answer(tree) /\ ever = G!Held(tree) /\ ahead = G!ReadDir(<<>>)
      /\ results = {} /\ walk = "walking" /\ changes = 0
  BY DEF G!Init
<1>2. [kind |-> "file", hits |-> MaxHits] \in G!File BY DEF G!File, SearchesFit
<1>3. G!TypeOK
  <2>1. tree \in [Path -> {G!Absent, G!Link} \cup G!File] BY <1>1, <1>2
  <2> QED BY <1>1, <2>1 DEF G!TypeOK, SearchesFit
<1>4. <<>> \in Strings /\ Len(<<>>) = 0 BY DEF Strings
<1>5. \A e \in ahead : EntryFits(e) /\ Len(e.path) = 1
  <2>1. \A i \in 1 .. Len(<<>>) : <<>>[i] \notin Skipped BY <1>4
  <2>2. G!Held(tree) \subseteq ever BY <1>1
  <2>3. ASSUME NEW e \in G!ReadDir(<<>>) PROVE EntryFits(e) /\ Len(e.path) = Len(<<>>) + 1
    BY <1>1, <1>3, <1>4, <2>1, <2>2, ReadDirFits
  <2> QED BY <1>1, <1>4, <2>3
<1>6. OnceOnly
  <2>1. ASSUME NEW e \in ahead, NEW f \in ahead, Before(e, f.path) PROVE FALSE
    <3>1. e.path \in Strings /\ f.path \in Strings /\ Len(e.path) = 1 /\ Len(f.path) = 1
      BY <1>5 DEF EntryFits
    <3>2. Len(e.path) < Len(f.path) BY <2>1, <3>1, PrefixIs DEF Before
    <3> QED BY <3>1, <3>2
  <2> QED BY <1>1, <2>1 DEF OnceOnly
<1>7. NothingPassed
  <2>1. ASSUME NEW r \in always PROVE \E e \in ahead : Leads(e, r.path)
    <3>1. r.path \in Path /\ tree[r.path].kind = "file" BY <1>1, <1>3, AnswerHas
    <3>2. Starts(<<>>, r.path) /\ Len(<<>>) < Len(r.path)
      BY <1>4, <3>1 DEF Starts, SearchesFit, Strings
    <3> QED BY <1>1, <1>4, <3>1, <3>2, ReadDirLeads
  <2> QED BY <2>1 DEF NothingPassed
<1>8. IsFiniteSet(results) /\ Cardinality(results) = 0 BY <1>1, FS_EmptySet
<1>9. atMost \in Nat /\ atMost > 0 BY <1>1 DEF SearchesFit
<1> QED BY <1>1, <1>3, <1>5, <1>6, <1>7, <1>8, <1>9 DEF WalkInv

Walking == UNCHANGED <<tool, pattern, atMost, tree, ever, changes>>

\* What a step of the walk leaves as it was.
LEMMA WalkingKeeps ==
    ASSUME Walking
    PROVE  /\ \A e : EntryFits(e)' <=> EntryFits(e)
           /\ G!Answer(tree)' = G!Answer(tree) /\ G!Held(tree)' = G!Held(tree)
BY DEF Walking, EntryFits, Seen, G!Answer, G!Held, G!Files, G!Lines, G!Shown

\* Strictly longer and longer again.
LEMMA LongerAgain ==
    ASSUME NEW a \in Strings, NEW b \in Strings, NEW c \in Strings,
           G!IsStrictPrefix(a, b), G!IsStrictPrefix(b, c)
    PROVE  G!IsStrictPrefix(a, c)
<1>1. Starts(a, b) /\ Len(a) < Len(b) /\ Starts(b, c) /\ Len(b) < Len(c) BY PrefixIs
<1>2. Len(a) \in Nat /\ Len(b) \in Nat /\ Len(c) \in Nat BY DEF Strings
<1>3. Starts(a, c) /\ Len(a) < Len(c) BY <1>1, <1>2 DEF Starts
<1> QED BY <1>3, PrefixIs

\* Of two paths that go through the same directory, and one that is deeper
\* than the other, the other is no deeper than the directory.
LEMMA OneDeeper ==
    ASSUME NEW a \in Strings, NEW b \in Strings, NEW c \in Strings,
           G!IsStrictPrefix(a, b), G!IsStrictPrefix(c, b), Len(b) = Len(a) + 1
    PROVE  c = a \/ G!IsStrictPrefix(c, a)
<1>1. Starts(a, b) /\ Starts(c, b) /\ Len(c) < Len(b) BY PrefixIs
<1>2. Len(a) \in Nat /\ Len(b) \in Nat /\ Len(c) \in Nat BY DEF Strings
<1>3. Starts(c, a) /\ Len(c) <= Len(a) BY <1>1, <1>2 DEF Starts
<1>4. CASE Len(c) = Len(a) BY <1>3, <1>4, PrefixIs
<1>5. CASE Len(c) < Len(a) BY <1>3, <1>5, PrefixIs
<1> QED BY <1>2, <1>3, <1>4, <1>5

\* Entering a directory puts what is in it ahead.
LEMMA EnterKeeps ==
    ASSUME SearchesFit, WalkInv, Walking, NEW e \in ahead, G!Enter(e) PROVE WalkInv'
<1> DEFINE new == G!ReadDir(e.path)
<1>1. /\ e.kind = "dir" /\ e.path[Len(e.path)] \notin Skipped
      /\ UNCHANGED <<always, results, walk>>
      /\ ahead' = (ahead \ {e}) \cup new
  BY DEF G!Enter, G!Entered, G!Last
<1>2. EntryFits(e) BY DEF WalkInv
<1>3. e.path \in Strings /\ Len(e.path) \in Nat BY <1>2 DEF EntryFits, Strings
<1>4. \A i \in 1 .. Len(e.path) : e.path[i] \notin Skipped BY <1>1, <1>2, <1>3 DEF EntryFits
<1>5. \A f \in new : EntryFits(f) /\ Len(f.path) = Len(e.path) + 1 /\ G!IsStrictPrefix(e.path, f.path)
  BY <1>3, <1>4, ReadDirFits DEF WalkInv
<1> HIDE DEF new
<1>6. \A f \in ahead \cup new : EntryFits(f) BY <1>5 DEF WalkInv
<1>7. \A f \in ahead \cup new : f.path \in Strings BY <1>6 DEF EntryFits
<1>8. OnceOnly'
  <2>1. ASSUME NEW f \in ahead', NEW g \in ahead', Before(f, g.path) PROVE FALSE
    <3>1. f.path \in Strings /\ g.path \in Strings /\ f.kind = "dir"
          /\ G!IsStrictPrefix(f.path, g.path)
      BY <1>1, <1>7, <2>1 DEF Before
    <3>2. CASE f \in ahead /\ g \in ahead BY <2>1, <3>2 DEF WalkInv, OnceOnly
    <3>3. CASE f \in new /\ g \in ahead
      <4>1. G!IsStrictPrefix(e.path, g.path) BY <1>3, <1>5, <3>1, <3>3, LongerAgain
      <4> QED BY <1>1, <3>3, <4>1 DEF WalkInv, OnceOnly, Before
    <3>4. CASE f \in ahead \ {e} /\ g \in new
      <4>1. f.path = e.path \/ G!IsStrictPrefix(f.path, e.path)
        BY <1>3, <1>5, <3>1, <3>4, OneDeeper
      <4>2. EntryFits(f) BY <1>6, <3>4
      <4>3. f.path # e.path BY <1>1, <1>2, <3>1, <3>4, <4>2 DEF EntryFits
      <4> QED BY <3>1, <3>4, <4>1, <4>3 DEF WalkInv, OnceOnly, Before
    <3>5. CASE f \in new /\ g \in new
      <4>1. Len(f.path) < Len(g.path) BY <3>1, PrefixIs
      <4> QED BY <1>3, <1>5, <3>5, <4>1
    <3> QED BY <1>1, <3>2, <3>3, <3>4, <3>5
  <2>2. ASSUME NEW f \in ahead', NEW r \in results'
        PROVE  ~Before(f, r.path) /\ (f.kind = "file" => f.path # r.path)
    <3>1. CASE f \in ahead BY <1>1, <3>1 DEF WalkInv, OnceOnly
    <3>2. CASE f \in new
      <4>1. r \in results BY <1>1
      <4>2. r.path \in Strings BY <4>1 DEF WalkInv, G!TypeOK, SearchesFit
      <4>3. ~G!IsStrictPrefix(e.path, r.path) BY <1>1, <4>1 DEF WalkInv, OnceOnly, Before
      <4>4. f.path \in Strings /\ G!IsStrictPrefix(e.path, f.path) BY <1>5, <1>7, <3>2
      <4>5. ~G!IsStrictPrefix(f.path, r.path) BY <1>3, <4>2, <4>3, <4>4, LongerAgain
      <4>6. f.path # r.path BY <4>3, <4>4
      <4> QED BY <4>5, <4>6 DEF Before
    <3> QED BY <1>1, <3>1, <3>2
  <2> QED BY <2>1, <2>2 DEF OnceOnly, Before
<1>9. NothingPassed'
  <2>1. ASSUME NEW r \in always PROVE r \in results \/ atMost <= Cardinality(results) \/ \E f \in ahead' : Leads(f, r.path)
    <3>1. SUFFICES ASSUME Leads(e, r.path) PROVE \E f \in ahead' : Leads(f, r.path)
      BY <1>1 DEF WalkInv, NothingPassed
    <3>2. r.path \in Path /\ tree[r.path].kind = "file" BY AnswerHas DEF WalkInv
    <3>3. Starts(e.path, r.path) /\ Len(e.path) < Len(r.path)
      <4>1. Len(r.path) \in Nat BY <3>2 DEF SearchesFit, Strings
      <4> QED BY <1>1, <1>3, <3>1, <4>1 DEF Leads, Starts
    <3>4. \E f \in new : Leads(f, r.path) BY <1>3, <3>2, <3>3, ReadDirLeads DEF new
    <3> QED BY <1>1, <3>4
  <2> QED BY <1>1, <2>1 DEF Walking, NothingPassed, Leads
<1>10. \A f \in ahead' : EntryFits(f)' BY <1>1, <1>6, WalkingKeeps
<1>11. G!TypeOK' BY <1>1 DEF WalkInv, Walking, G!TypeOK
<1> QED BY <1>1, <1>8, <1>9, <1>10, <1>11, WalkingKeeps DEF WalkInv, Walking

\* An entry that is passed over leads to nothing that would be an answer.
LEMMA PassKeeps ==
    ASSUME SearchesFit, WalkInv, Walking, NEW e \in ahead, G!Pass(e) PROVE WalkInv'
<1>1. ~G!Entered(e) /\ ~G!Visited(e) /\ UNCHANGED <<always, results, walk>> /\ ahead' = ahead \ {e}
  BY DEF G!Pass
<1>2. EntryFits(e) BY DEF WalkInv
<1>3. ASSUME NEW r \in always PROVE ~Leads(e, r.path)
  <2>1. SUFFICES ASSUME Leads(e, r.path) PROVE FALSE OBVIOUS
  <2>2. r.path \in Path /\ ~G!Hidden(r.path) BY AnswerHas DEF WalkInv
  <2>3. r.path \in Strings /\ e.path \in Strings BY <1>2, <2>2 DEF SearchesFit, EntryFits
  <2>4. Len(e.path) \in Nat /\ Len(e.path) >= 1 /\ Len(r.path) \in Nat
    BY <1>2, <2>3 DEF EntryFits, Strings
  <2>5. Len(e.path) \in 1 .. Len(r.path) /\ r.path[Len(e.path)] = e.path[Len(e.path)]
    BY <2>1, <2>4 DEF Leads, Starts
  <2>6. Len(e.path) \in DOMAIN r.path BY <2>3, <2>5 DEF Strings
  <2>7. G!Last(e.path) \notin Skipped BY <2>2, <2>5, <2>6 DEF G!Last, G!Hidden
  <2>8. e.kind = "file" \/ e.kind = "dir" BY <2>1 DEF Leads
  <2> QED BY <1>1, <2>7, <2>8 DEF G!Entered, G!Visited
<1>4. NothingPassed'
  <2>1. \A r \in always : r \in results \/ atMost <= Cardinality(results) \/ \E f \in ahead' : Leads(f, r.path)
    BY <1>1, <1>3 DEF WalkInv, NothingPassed
  <2> QED BY <1>1, <2>1 DEF Walking, NothingPassed, Leads
<1>5. OnceOnly' BY <1>1 DEF WalkInv, OnceOnly, Before
<1>6. \A f \in ahead' : EntryFits(f)' BY <1>1, WalkingKeeps DEF WalkInv
<1>7. G!TypeOK' BY <1>1 DEF WalkInv, Walking, G!TypeOK
<1> QED BY <1>1, <1>4, <1>5, <1>6, <1>7, WalkingKeeps DEF WalkInv, Walking

\* Nor is there anything to answer below a directory that cannot be read.
LEMMA UnreadableKeeps ==
    ASSUME SearchesFit, WalkInv, Walking, NEW e \in ahead, G!Unreadable(e) PROVE WalkInv'
<1>1. /\ e.kind = "dir" /\ UNCHANGED <<results, walk>> /\ ahead' = ahead \ {e}
      /\ always' = {r \in always : ~G!IsStrictPrefix(e.path, r.path)}
  BY DEF G!Unreadable, G!Entered
<1>2. EntryFits(e) BY DEF WalkInv
<1>3. ASSUME NEW r \in always' PROVE r \in always /\ ~Leads(e, r.path)
  <2>1. r \in always /\ ~G!IsStrictPrefix(e.path, r.path) BY <1>1
  <2>2. r.path \in Strings /\ e.path \in Strings
    BY <1>2, <2>1, AnswerHas DEF WalkInv, SearchesFit, EntryFits
  <2>3. Len(e.path) \in Nat /\ Len(r.path) \in Nat BY <2>2 DEF Strings
  <2>4. ~(Starts(e.path, r.path) /\ Len(e.path) < Len(r.path)) BY <2>1, <2>2, PrefixIs
  <2>5. ~Leads(e, r.path) BY <1>1, <2>3, <2>4 DEF Leads, Starts
  <2> QED BY <2>1, <2>5
<1>4. NothingPassed'
  <2>1. \A r \in always' : r \in results \/ atMost <= Cardinality(results) \/ \E f \in ahead' : Leads(f, r.path)
    BY <1>1, <1>3 DEF WalkInv, NothingPassed
  <2> QED BY <1>1, <2>1 DEF Walking, NothingPassed, Leads
<1>5. OnceOnly' BY <1>1 DEF WalkInv, OnceOnly, Before
<1>6. \A f \in ahead' : EntryFits(f)' BY <1>1, WalkingKeeps DEF WalkInv
<1>7. G!TypeOK' BY <1>1 DEF WalkInv, Walking, G!TypeOK
<1> QED BY <1>1, <1>3, <1>4, <1>5, <1>6, <1>7, WalkingKeeps DEF WalkInv, Walking

\* No name of the path of a file that is visited is skipped.
LEMMA VisitedShows ==
    ASSUME NEW e, EntryFits(e), G!Visited(e) PROVE ~G!Hidden(e.path)
<1>1. e.path \in Strings /\ Len(e.path) \in Nat BY DEF EntryFits, Strings
<1>2. e.path[Len(e.path)] \notin Skipped BY DEF G!Visited, G!Last
<1>3. ASSUME NEW i \in DOMAIN e.path PROVE e.path[i] \notin Skipped
  <2>1. i \in 1 .. Len(e.path) BY <1>1 DEF Strings
  <2>2. i = Len(e.path) \/ i \in 1 .. Len(e.path) - 1 BY <1>1, <2>1
  <2> QED BY <1>2, <2>2 DEF EntryFits
<1> QED BY <1>3 DEF G!Hidden

\* A visit finds what there is in a file, as far as there is room for it.
LEMMA VisitFileKeeps ==
    ASSUME SearchesFit, WalkInv, Walking, NEW e \in ahead, NEW more, G!Visit(e, more),
           more \subseteq [path : {e.path}, line : 0 .. MaxHits],
           IsFiniteSet(more), Cardinality(more) <= atMost - Cardinality(results),
           G!PathMatch(pattern, e.path) =>
              /\ more \subseteq ever
              /\ \A r \in always : r.path = e.path =>
                    r \in more \/ Cardinality(more) = atMost - Cardinality(results)
    PROVE  WalkInv'
<1>1. /\ e.kind = "file" /\ G!Last(e.path) \notin Skipped /\ UNCHANGED <<always, walk>>
      /\ results' = (IF G!PathMatch(pattern, e.path) THEN results \cup more ELSE results)
      /\ ahead' = IF G!Cardinality(results') >= atMost THEN {} ELSE ahead \ {e}
  BY DEF G!Visit, G!Visited
<1>2. EntryFits(e) /\ e.path \in Path /\ e.path \in Strings /\ Seen(e.path)
  BY <1>1 DEF WalkInv, EntryFits
<1>3. /\ IsFiniteSet(results) /\ Cardinality(results) \in Nat /\ Cardinality(more) \in Nat
      /\ atMost \in Nat /\ Cardinality(results) < atMost
  BY FS_CardinalityType DEF WalkInv, G!TypeOK, SearchesFit
<1>4. results \cap more = {}
  <2>1. \A r \in results : r.path # e.path BY <1>1 DEF WalkInv, OnceOnly
  <2>2. \A r \in more : r.path = e.path OBVIOUS
  <2> QED BY <2>1, <2>2
<1>5. /\ IsFiniteSet(results \cup more)
      /\ Cardinality(results \cup more) = Cardinality(results) + Cardinality(more)
  <2>1. Cardinality(results \cap more) = 0 BY <1>4, FS_EmptySet
  <2>2. /\ IsFiniteSet(results \cup more)
        /\ Cardinality(results \cup more)
              = Cardinality(results) + Cardinality(more) - Cardinality(results \cap more)
    BY <1>3, FS_Union
  <2> QED BY <1>3, <2>1, <2>2
<1>6. IsFiniteSet(results') /\ Cardinality(results') \in Nat /\ Cardinality(results') <= atMost
  BY <1>1, <1>3, <1>5
<1>7. /\ ahead' \in SUBSET (ahead \ {e})
      /\ Cardinality(results') < atMost => ahead' = ahead \ {e}
      /\ ahead' # {} => Cardinality(results') < atMost
  <2>1. ahead' = IF Cardinality(results') >= atMost THEN {} ELSE ahead \ {e}
    <3> DEFINE later == results'
    <3>1. ahead' = IF G!Cardinality(later) >= atMost THEN {} ELSE ahead \ {e} BY <1>1
    <3> HIDE DEF later
    <3>2. ahead' = IF Cardinality(later) >= atMost THEN {} ELSE ahead \ {e} BY <3>1, SearchCounts
    <3> QED BY <3>2 DEF later
  <2> QED BY <1>3, <1>6, <2>1
<1>8. results \subseteq results' /\ results' \subseteq results \cup more BY <1>1
<1>9. /\ results' \subseteq [path : Path, line : 0 .. MaxHits]
      /\ \A r \in results' : r \in ever /\ G!AtPath(r.path) \in ever
  <2>1. results' \subseteq [path : Path, line : 0 .. MaxHits] BY <1>1, <1>2 DEF WalkInv, G!TypeOK
  <2>2. ASSUME NEW r \in results' PROVE r \in ever /\ G!AtPath(r.path) \in ever
    <3>1. CASE r \in results BY <3>1 DEF WalkInv
    <3>2. CASE r \notin results
      <4>1. r \in more /\ G!PathMatch(pattern, e.path) BY <1>1, <3>2
      <4>2. r.path = e.path /\ r \in ever BY <4>1
      <4>3. G!InPlainSense(pattern, e.path)
        BY <1>2, <4>1, MatchIsPlain DEF SearchesFit, WalkInv
      <4>4. ~G!Hidden(e.path) BY <1>2, VisitedShows DEF G!Visit
      <4> QED BY <1>2, <4>2, <4>3, <4>4 DEF Seen
    <3> QED BY <3>1, <3>2
  <2> QED BY <2>1, <2>2
<1>10. OnceOnly'
  <2>1. ASSUME NEW f \in ahead', NEW g \in ahead' PROVE ~Before(f, g.path)
    BY <1>7 DEF WalkInv, OnceOnly
  <2>2. ASSUME NEW f \in ahead', NEW r \in results'
        PROVE  ~Before(f, r.path) /\ (f.kind = "file" => f.path # r.path)
    <3>1. f \in ahead /\ f # e BY <1>7
    <3>2. CASE r \in results BY <3>1, <3>2 DEF WalkInv, OnceOnly
    <3>3. CASE r \in more
      <4>1. r.path = e.path BY <3>3
      <4>2. ~Before(f, e.path) BY <3>1 DEF WalkInv, OnceOnly
      <4>3. EntryFits(f) BY <3>1 DEF WalkInv
      <4>4. f.kind = "file" => f.path # e.path BY <1>1, <1>2, <3>1, <4>3 DEF EntryFits
      <4> QED BY <4>1, <4>2, <4>4
    <3> QED BY <1>8, <3>2, <3>3
  <2> QED BY <2>1, <2>2 DEF OnceOnly, Before
<1>11. NothingPassed'
  <2>1. ASSUME NEW r \in always
        PROVE  r \in results' \/ atMost <= Cardinality(results') \/ \E f \in ahead' : Leads(f, r.path)
    <3>1. SUFFICES ASSUME Cardinality(results') < atMost, r \notin results'
                   PROVE  \E f \in ahead' : Leads(f, r.path)
      BY <1>3, <1>6
    <3>2. r \notin results /\ Cardinality(results) < atMost BY <1>3, <1>8, <3>1
    <3>3. PICK f \in ahead : Leads(f, r.path)
      <4>1. ~(atMost <= Cardinality(results)) BY <1>3
      <4> QED BY <3>2, <4>1 DEF WalkInv, NothingPassed
    <3>4. ahead' = ahead \ {e} BY <1>7, <3>1
    <3>5. ASSUME f = e PROVE FALSE
      <4>1. /\ r.path \in Path /\ G!InPlainSense(pattern, r.path)
        BY AnswerHas DEF WalkInv
      <4>2. r.path \in Strings /\ pattern \in Strings BY <4>1 DEF SearchesFit, WalkInv
      <4>3. Starts(e.path, r.path) /\ Len(e.path) = Len(r.path) BY <1>1, <3>3, <3>5 DEF Leads
      <4>4. e.path = r.path BY <1>2, <4>2, <4>3, PrefixIs
      <4>5. G!PathMatch(pattern, e.path) BY <1>2, <4>1, <4>2, <4>4, MatchIsPlain
      <4>6. results' = results \cup more BY <1>1, <4>5
      <4>7. r \notin more BY <3>1, <4>6
      <4>8. Cardinality(more) = atMost - Cardinality(results) BY <4>4, <4>5, <4>7
      <4>9. Cardinality(results') = atMost BY <1>3, <1>5, <4>6, <4>8
      <4> QED BY <1>3, <3>1, <4>9
    <3> QED BY <3>3, <3>4, <3>5
  <2> QED BY <1>1, <2>1 DEF Walking, NothingPassed, Leads
<1>12. \A f \in ahead' : EntryFits(f)' BY <1>7, WalkingKeeps DEF WalkInv
<1>13. G!TypeOK' BY <1>1, <1>9 DEF WalkInv, Walking, G!TypeOK
<1>14. walk' = "done" => ahead' = {} BY <1>1 DEF WalkInv
<1> QED BY <1>1, <1>6, <1>7, <1>9, <1>10, <1>11, <1>12, <1>13, <1>14, WalkingKeeps DEF WalkInv, Walking

\* A file that the pattern matches is taken in once.
LEMMA GlobKeeps ==
    ASSUME SearchesFit, WalkInv, Walking, NEW e \in ahead, G!Glob(e) PROVE WalkInv'
<1> DEFINE more == {G!AtPath(e.path)}
<1>1. tool = "glob" /\ G!Visit(e, more) /\ G!Visited(e) BY DEF G!Glob, G!Visit
<1>2. EntryFits(e) /\ e.path \in Path /\ Seen(e.path)
  BY <1>1 DEF WalkInv, EntryFits, G!Visited
<1>3. IsFiniteSet(more) /\ Cardinality(more) = 1 BY FS_Singleton
<1>4. MaxHits \in Nat /\ atMost \in Nat /\ Cardinality(results) \in Nat /\ Cardinality(results) < atMost
  BY FS_CardinalityType DEF SearchesFit, WalkInv, G!TypeOK
<1>5. more \subseteq [path : {e.path}, line : 0 .. MaxHits] BY <1>4 DEF G!AtPath
<1>6. ASSUME G!PathMatch(pattern, e.path) PROVE more \subseteq ever
  <2>1. G!InPlainSense(pattern, e.path) BY <1>2, <1>6, MatchIsPlain DEF SearchesFit, WalkInv
  <2>2. ~G!Hidden(e.path) BY <1>1, <1>2, VisitedShows
  <2> QED BY <1>1, <1>2, <2>1, <2>2 DEF Seen
<1>7. \A r \in always : r.path = e.path => r \in more BY <1>1, AnswerHas DEF WalkInv, G!AtPath
<1> HIDE DEF more
<1>8. Cardinality(more) <= atMost - Cardinality(results) BY <1>3, <1>4
<1> QED BY <1>1, <1>3, <1>5, <1>6, <1>7, <1>8, VisitFileKeeps

\* So is a file with a line that matches.
LEMMA GrepKeeps ==
    ASSUME SearchesFit, WalkInv, Walking, NEW e \in ahead, G!Grep(e) PROVE WalkInv'
<1> DEFINE budget == atMost - Cardinality(results)
           more == G!GrepFile(e.path, budget)
           hits == tree[e.path].hits
<1>1. tool = "grep" /\ G!Visit(e, more) /\ G!Visited(e) BY SearchCounts DEF G!Grep, G!Visit
<1>2. EntryFits(e) /\ e.path \in Path BY <1>1 DEF WalkInv, EntryFits, G!Visited
<1>3. MaxHits \in Nat /\ atMost \in Nat /\ Cardinality(results) \in Nat /\ Cardinality(results) < atMost
  BY FS_CardinalityType DEF SearchesFit, WalkInv, G!TypeOK
<1>4. budget \in Nat BY <1>3
<1>5. hits \in 0 .. MaxHits BY <1>2, <1>3, FilesFit DEF WalkInv
<1>6. more = {r \in {[path |-> e.path, line |-> i] : i \in 1 .. hits} : r.line <= budget}
  BY DEF G!GrepFile, G!Results
<1> DEFINE n == IF hits <= budget THEN hits ELSE budget
<1> HIDE DEF budget, hits, more
<1>7. n \in Nat BY <1>4, <1>5
<1>8. \A r : r \in more <=> \E i \in 1 .. n : r = [path |-> e.path, line |-> i]
  BY <1>4, <1>5, <1>6
<1>9. IsFiniteSet(more) /\ Cardinality(more) = n
  <2> DEFINE f == [i \in 1 .. n |-> [path |-> e.path, line |-> i]]
  <2>1. f \in Bijection(1 .. n, more)
    <3> HIDE DEF n
    <3>1. \A i \in 1 .. n : f[i] = [path |-> e.path, line |-> i] /\ f[i] \in more BY <1>8
    <3>2. f \in [1 .. n -> more] BY <3>1
    <3>3. \A i, j \in 1 .. n : f[i] = f[j] => i = j BY <3>1
    <3>4. \A r \in more : \E i \in 1 .. n : f[i] = r BY <1>8, <3>1
    <3> HIDE DEF f
    <3> QED BY <3>2, <3>3, <3>4 DEF Bijection, Injection, Surjection, IsInjective
  <2>2. ExistsBijection(1 .. n, more) BY <2>1 DEF ExistsBijection
  <2>3. IsFiniteSet(1 .. n) /\ Cardinality(1 .. n) = n BY <1>7, FS_Interval
  <2> QED BY <2>2, <2>3, FS_Bijection
<1>10. more \subseteq [path : {e.path}, line : 0 .. MaxHits]
  <2>1. \A i \in 1 .. n : i \in 0 .. MaxHits BY <1>3, <1>4, <1>5
  <2> HIDE DEF n
  <2> QED BY <1>8, <2>1
<1>11. ASSUME G!PathMatch(pattern, e.path) PROVE more \subseteq ever
  <2>1. G!InPlainSense(pattern, e.path) BY <1>2, <1>11, MatchIsPlain DEF SearchesFit, WalkInv, EntryFits
  <2>2. ~G!Hidden(e.path) BY <1>1, <1>2, VisitedShows
  <2>3. ASSUME NEW r \in more PROVE r \in ever
    <3>1. PICK i \in 1 .. n : r = [path |-> e.path, line |-> i] BY <1>8
    <3>2. i \in 1 .. hits BY <1>4, <1>5
    <3>3. r \in G!Held(tree) BY <1>1, <1>2, <2>1, <2>2, <3>1, <3>2, HeldHas DEF WalkInv, hits
    <3> QED BY <3>3 DEF WalkInv
  <2> QED BY <2>3
<1>12. \A r \in always : r.path = e.path => r \in more \/ Cardinality(more) = budget
  <2>1. ASSUME NEW r \in always, r.path = e.path, r \notin more PROVE n = budget
    <3>1. r.line \in 1 .. hits /\ r = [path |-> e.path, line |-> r.line]
      BY <1>1, <2>1, AnswerHas DEF WalkInv, hits
    <3>2. r.line \notin 1 .. n BY <1>8, <2>1, <3>1
    <3> QED BY <1>4, <1>5, <3>1, <3>2
  <2> HIDE DEF n
  <2> QED BY <1>9, <2>1
<1>13. Cardinality(more) <= budget BY <1>4, <1>5, <1>9
<1> HIDE DEF n
<1> QED BY <1>1, <1>9, <1>10, <1>11, <1>12, <1>13, VisitFileKeeps DEF budget

\* A file changes: `always` has less, `ever` more.
LEMMA ChangeKeeps == ASSUME SearchesFit, WalkInv, G!Change PROVE WalkInv'
<1>1. /\ walk = "walking" /\ changes' = changes + 1 /\ changes < MaxChanges
      /\ always' = always \cap G!Answer(tree)' /\ ever' = ever \cup G!Held(tree)'
      /\ UNCHANGED <<tool, pattern, atMost, ahead, results, walk>>
  BY DEF G!Change, G!Answer, G!Held, G!Files, G!Lines, G!Shown
<1>2. PICK p \in Path, f \in {G!Absent, G!Link} \cup G!File : tree' = [tree EXCEPT ![p] = f]
  BY DEF G!Change
<1>3. tree' \in [Path -> {G!Absent, G!Link} \cup G!File] BY <1>2 DEF WalkInv, G!TypeOK
<1>4. G!TypeOK' BY <1>1, <1>3 DEF WalkInv, G!TypeOK, SearchesFit
<1>5. ASSUME NEW e \in ahead' PROVE EntryFits(e)'
  <2>1. EntryFits(e) BY <1>1 DEF WalkInv
  <2>2. Seen(e.path) => Seen(e.path)' BY <1>1 DEF Seen
  <2> QED BY <2>1, <2>2 DEF EntryFits
<1>6. OnceOnly' BY <1>1 DEF WalkInv, OnceOnly, Before
<1>7. NothingPassed'
  <2>1. \A r \in always : r \in results \/ atMost <= Cardinality(results) \/ \E e \in ahead : Leads(e, r.path)
    BY DEF WalkInv, NothingPassed
  <2>2. always' \in SUBSET always BY <1>1
  <2> QED BY <1>1, <2>1, <2>2 DEF NothingPassed, Leads
<1>8. \A r \in results' : r \in ever' /\ G!AtPath(r.path) \in ever'
  <2>1. \A r \in results : r \in ever /\ G!AtPath(r.path) \in ever BY DEF WalkInv
  <2>2. results' = results /\ \A x \in ever : x \in ever' BY <1>1
  <2> QED BY <2>1, <2>2
<1> QED BY <1>1, <1>4, <1>5, <1>6, <1>7, <1>8 DEF WalkInv

\* A walk that stands still, or ends with nothing ahead, has passed nothing by.
LEMMA StandKeeps ==
    ASSUME WalkInv, UNCHANGED <<tool, pattern, atMost, tree, always, ever, ahead, results, changes>>,
           walk' \in {walk, "done"}, walk' = "done" => ahead = {}
    PROVE  WalkInv'
<1>1. Walking BY DEF Walking
<1>2. \A f \in ahead' : EntryFits(f)' BY <1>1, WalkingKeeps DEF WalkInv
<1>3. G!TypeOK' BY DEF WalkInv, G!TypeOK
<1>4. OnceOnly' /\ NothingPassed' BY DEF WalkInv, OnceOnly, Before, NothingPassed, Leads
<1> QED BY <1>1, <1>2, <1>3, <1>4, WalkingKeeps DEF WalkInv

\* Every step keeps the walk from passing anything by.
LEMMA WalkStep == ASSUME SearchesFit, WalkInv, [G!Next]_(G!vars) PROVE WalkInv'
<1>1. CASE G!Walk
  <2>1. Walking BY <1>1 DEF G!Walk, Walking
  <2>2. PICK e \in ahead : G!Enter(e) \/ G!Unreadable(e) \/ G!Pass(e) \/ G!Glob(e) \/ G!Grep(e)
    BY <1>1 DEF G!Walk
  <2> QED BY <2>1, <2>2, EnterKeeps, UnreadableKeeps, PassKeeps, GlobKeeps, GrepKeeps
<1>2. CASE G!Done BY <1>2, StandKeeps DEF G!Done
<1>3. CASE G!Change BY <1>3, ChangeKeeps
<1>4. CASE UNCHANGED G!vars
  <2>1. UNCHANGED <<tool, pattern, atMost, tree, always, ever, ahead, results, changes>> /\ walk' = walk
    BY <1>4 DEF G!vars
  <2> QED BY <2>1, StandKeeps DEF WalkInv
<1> QED BY <1>1, <1>2, <1>3, <1>4 DEF G!Next

\* The invariant gives the properties that the runs check of a search.
LEMMA WalkIsComplete == ASSUME SearchesFit, WalkInv PROVE G!SearchInv
<1>1. /\ Cardinality(results) \in Nat /\ atMost \in Nat /\ G!Cardinality(results) = Cardinality(results)
  BY FS_CardinalityType, SearchCounts DEF WalkInv, G!TypeOK, SearchesFit
<1>2. ASSUME walk = "done", ~G!Full PROVE always \subseteq results
  <2>1. ~(atMost <= Cardinality(results)) BY <1>1, <1>2 DEF G!Full
  <2>2. ahead = {} BY <1>2 DEF WalkInv
  <2> QED BY <2>1, <2>2 DEF WalkInv, NothingPassed
<1> QED BY <1>1, <1>2 DEF G!SearchInv, G!AnswerComplete, WalkInv

\* An answer of glob or grep that is not cut short has all that the pattern, in
\* its plain sense, names all through the walk, and none has what was never there
\* or is hidden (searchWalk, pathMatch, grepFile), however the tree changes.
THEOREM SearchesAreComplete == ASSUME SearchesFit PROVE G!Spec => []G!SearchInv
<1>1. G!Init => WalkInv BY WalkStarts
<1>2. WalkInv /\ [G!Next]_(G!vars) => WalkInv' BY WalkStep
<1>3. WalkInv => G!SearchInv BY WalkIsComplete
<1> QED BY <1>1, <1>2, <1>3, PTL DEF G!Spec

=============================================================================
