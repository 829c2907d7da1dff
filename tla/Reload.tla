------------------------------- MODULE Reload -------------------------------
(***************************************************************************)
(* SIGHUP in `mininaru serve`: watchReload (cli/serve.go) reconnects the    *)
(* MCP servers (MCPReload, modules/mcpclient.go), re-reads provider.json    *)
(* and agent.json into package variables and swaps the registry's           *)
(* instances (Registry.Reload, core/instance.go), while requests run on     *)
(* the instances they resolved.                                            *)
(*                                                                         *)
(* An edit of a file makes a new version of it.  provider.json and          *)
(* agent.json share their version numbers; agent.json holds the global      *)
(* agent and one other.  An MCP entry is its server's version, 0 when it is  *)
(* absent or disabled; a server has one tool.                               *)
(***************************************************************************)
EXTENDS Naturals, FiniteSets

CONSTANTS
    Server,         \* names of MCP servers
    Request,        \* requests of the HTTP API and of the front ends
    MaxEdits,       \* bound: edits of the configuration
    MaxConns        \* bound: connections dialled

VARIABLES
    file,           \* on disk: [mcp, config, broken]
    hangups,        \* the channel of signals, capacity 1
    hupped,         \* the newest config version a SIGHUP was sent for
    pc,             \* where watchReload is
    todo,           \* servers MCPReload has still to look at
    fresh,          \* the sessions it is putting together
    loaded,         \* modules.MCP.Servers: the version of each entry
    stale,          \* connections it has still to close
    manager,        \* manager.sessions: [conn, entry] of each server
    open,           \* connections that are open
    conns,          \* connections dialled so far
    providers,      \* core.Providers: the version read last
    agents,         \* core.Global and core.Agents, likewise, and their clients
    instance,       \* the registry's instance of an agent: [config, tools]
    failed,         \* the last reload logged an error
    request         \* [at, config, tools, delegated] of each request

mcpVars == <<todo, fresh, loaded, stale, manager, open, conns>>
coreVars == <<providers, agents, instance>>
vars == <<file, hangups, hupped, pc, mcpVars, coreVars, failed, request>>

Version == 0 .. MaxEdits
Conn == 0 .. MaxConns       \* 0: not connected
Session == [conn : Conn, entry : Version]
Absent == [conn |-> 0, entry |-> 0]
Fault == {"none", "mcp", "provider", "agent"}
Instance == [config : Version, tools : [Server -> Conn]]

\* The version of each agent, and which of them have a provider client.
Target == {"global", "other"}
AgentVars == [global : Version, other : Version, clients : SUBSET Target]

TypeOK ==
    /\ file \in [mcp : [Server -> Version], config : Version, broken : Fault]
    /\ hangups \in 0 .. 1
    /\ hupped \in Version
    /\ pc \in {"idle", "load", "dial", "swap", "close", "providers", "agents",
              "assign", "clients", "registry"}
    /\ todo \subseteq Server /\ stale \subseteq Conn
    /\ fresh \in [Server -> Session] /\ manager \in [Server -> Session]
    /\ loaded \in [Server -> Version]
    /\ open \subseteq 1 .. conns /\ conns \in Conn
    /\ providers \in Version /\ agents \in AgentVars
    /\ instance \in Instance
    /\ failed \in BOOLEAN
    /\ request \in [Request -> [at : {"out", "in", "done"}, config : Version,
                                tools : [Server -> Conn], delegated : SUBSET Version]]

\* serve has read the configuration, and connected to no server yet.
Init ==
    /\ file = [mcp |-> [s \in Server |-> 0], config |-> 0, broken |-> "none"]
    /\ hangups = 0 /\ hupped = 0
    /\ pc = "idle"
    /\ todo = {} /\ stale = {} /\ open = {} /\ conns = 0
    /\ fresh = [s \in Server |-> Absent]
    /\ manager = [s \in Server |-> Absent]
    /\ loaded = [s \in Server |-> 0]
    /\ providers = 0
    /\ agents = [global |-> 0, other |-> 0, clients |-> Target]
    /\ instance = [config |-> 0, tools |-> [s \in Server |-> 0]]
    /\ failed = FALSE
    /\ request = [r \in Request |-> [at |-> "out", config |-> 0,
                                     tools |-> [s \in Server |-> 0], delegated |-> {}]]

-----------------------------------------------------------------------------
(* The operator *)

\* Another process saves a file, an entry of mcp.json or the two others, or
\* leaves one of them broken.
Edit ==
    /\ file.config < MaxEdits
    /\ \E mcp \in {file.mcp} \cup
                  {[file.mcp EXCEPT ![s] = v] : s \in Server, v \in {0, file.config + 1}},
          broken \in Fault :
          file' = [mcp |-> mcp, config |-> file.config + 1, broken |-> broken]
    /\ UNCHANGED <<hangups, hupped, pc, mcpVars, coreVars, failed, request>>

\* signal.Notify drops what the channel has no room for.
Hangup ==
    /\ hupped < file.config
    /\ hupped' = file.config
    /\ hangups' = 1
    /\ UNCHANGED <<file, pc, mcpVars, coreVars, failed, request>>

-----------------------------------------------------------------------------
(* watchReload *)

Take ==
    /\ pc = "idle" /\ hangups = 1
    /\ hangups' = 0
    /\ pc' = "load"
    /\ failed' = FALSE
    /\ UNCHANGED <<file, hupped, mcpVars, coreVars, request>>

\* MCPLoad and the snapshot of the manager.  A file that cannot be read ends
\* MCPReload, not the reload.
LoadMCP ==
    /\ pc = "load"
    /\ IF file.broken = "mcp"
       THEN /\ pc' = "providers"
            /\ failed' = TRUE
            /\ loaded' = [s \in Server |-> 0]
            /\ UNCHANGED <<todo, fresh>>
       ELSE /\ pc' = "dial"
            /\ loaded' = file.mcp
            /\ todo' = Server
            /\ fresh' = [s \in Server |-> Absent]
            /\ UNCHANGED failed
    /\ UNCHANGED <<file, hangups, hupped, stale, manager, open, conns, coreVars, request>>

\* The entry is the one the session was made for.
Reuses(s) == manager[s].conn # 0 /\ manager[s].entry = loaded[s]

\* One enabled server of the file: its session is kept, or dialled, which can
\* fail; a disabled or absent one gets none.
Dial(s) ==
    /\ pc = "dial" /\ s \in todo
    /\ todo' = todo \ {s}
    /\ IF loaded[s] = 0 THEN UNCHANGED <<fresh, open, conns>>
       ELSE IF Reuses(s)
       THEN /\ fresh' = [fresh EXCEPT ![s] = manager[s]]
            /\ UNCHANGED <<open, conns>>
       ELSE \/ /\ fresh' = [fresh EXCEPT ![s] = [conn |-> 0, entry |-> loaded[s]]]
               /\ UNCHANGED <<open, conns>>
            \/ /\ conns < MaxConns
               /\ conns' = conns + 1
               /\ open' = open \cup {conns + 1}
               /\ fresh' = [fresh EXCEPT ![s] = [conn |-> conns + 1, entry |-> loaded[s]]]
    /\ UNCHANGED <<file, hangups, hupped, pc, loaded, stale, manager, coreVars, failed, request>>

Used(sessions) == {sessions[s].conn : s \in Server} \ {0}

\* Broken: only what is connected again is closed.
StaleReplaced(old, new) ==
    {old[s].conn : s \in {t \in Server : new[t].conn # 0}} \ (Used(new) \cup {0})

\* Sessions of the snapshot that were not reused.
Stale(old, new) == Used(old) \ Used(new)

Swap ==
    /\ pc = "dial" /\ todo = {}
    /\ manager' = fresh
    /\ stale' = Stale(manager, fresh)
    /\ pc' = "close"
    /\ UNCHANGED <<file, hangups, hupped, todo, fresh, loaded, open, conns, coreVars, failed, request>>

Close(c) ==
    /\ pc = "close" /\ c \in stale
    /\ open' = open \ {c}
    /\ stale' = stale \ {c}
    /\ UNCHANGED <<file, hangups, hupped, pc, todo, fresh, loaded, manager, conns, coreVars,
                   failed, request>>

MCPDone ==
    /\ pc = "close" /\ stale = {}
    /\ pc' = "providers"
    /\ UNCHANGED <<file, hangups, hupped, mcpVars, coreVars, failed, request>>

\* ProviderInit.  An entry that does not validate is found after Providers
\* has been replaced.
ReadProviders ==
    /\ pc = "providers"
    /\ IF file.broken = "provider"
       THEN /\ pc' = "idle" /\ failed' = TRUE
            /\ providers' \in {providers, file.config}
       ELSE /\ pc' = "agents"
            /\ providers' = file.config
            /\ UNCHANGED failed
    /\ UNCHANGED <<file, hangups, hupped, mcpVars, agents, instance, request>>

\* AgentInit: the global agent is replaced first,
ReadAgents ==
    /\ pc = "agents"
    /\ IF file.broken = "agent"
       THEN /\ pc' = "idle" /\ failed' = TRUE
            /\ UNCHANGED agents
       ELSE /\ pc' = "assign"
            /\ agents' = [agents EXCEPT !.global = file.config, !.clients = @ \ {"global"}]
            /\ UNCHANGED failed
    /\ UNCHANGED <<file, hangups, hupped, mcpVars, providers, instance, request>>

\* then the list of the others, as read from the same file,
AssignAgents ==
    /\ pc = "assign"
    /\ agents' = [agents EXCEPT !.other = agents.global, !.clients = {}]
    /\ pc' = "clients"
    /\ UNCHANGED <<file, hangups, hupped, mcpVars, providers, instance, failed, request>>

\* and one after the other is given the client of its provider.
ConfigureAgentClients ==
    /\ pc = "clients"
    /\ LET more == IF "global" \in agents.clients THEN Target ELSE {"global"}
       IN  /\ agents' = [agents EXCEPT !.clients = more]
           /\ pc' = IF more = Target THEN "registry" ELSE "clients"
    /\ UNCHANGED <<file, hangups, hupped, mcpVars, providers, instance, failed, request>>

\* SafeTools: the tools of the sessions the manager has now.
SafeTools == [s \in Server |-> manager[s].conn]

\* Broken: the signals that came during the reload are taken to be served.
PublishAndDrain ==
    /\ pc = "registry"
    /\ instance' = [config |-> agents.global, tools |-> SafeTools]
    /\ hangups' = 0
    /\ pc' = "idle"
    /\ UNCHANGED <<file, hupped, mcpVars, providers, agents, failed, request>>

\* New instances, with the safe tools of the manager, under the write lock.
Publish ==
    /\ pc = "registry"
    /\ instance' = [config |-> agents.global, tools |-> SafeTools]
    /\ pc' = "idle"
    /\ UNCHANGED <<file, hangups, hupped, mcpVars, providers, agents, failed, request>>

Watch ==
    \/ Take \/ LoadMCP \/ Swap \/ MCPDone
    \/ \E s \in Server : Dial(s)
    \/ \E c \in stale : Close(c)
    \/ ReadProviders \/ ReadAgents \/ AssignAgents \/ ConfigureAgentClients \/ Publish

-----------------------------------------------------------------------------
(* Requests *)

Resolve(r) ==
    /\ request[r].at = "out"
    /\ request' = [request EXCEPT ![r] =
          [at |-> "in", config |-> instance.config, tools |-> instance.tools,
           delegated |-> {}]]
    /\ UNCHANGED <<file, hangups, hupped, pc, mcpVars, coreVars, failed>>

\* agent_call looks its target up in core.Global and core.Agents; a target that
\* has no client yet is refused.
Delegate(r) ==
    /\ request[r].at = "in"
    /\ \E t \in agents.clients :
          request' = [request EXCEPT ![r].delegated = @ \cup {agents[t]}]
    /\ UNCHANGED <<file, hangups, hupped, pc, mcpVars, coreVars, failed>>

Finish(r) ==
    /\ request[r].at = "in"
    /\ request' = [request EXCEPT ![r].at = "done"]
    /\ UNCHANGED <<file, hangups, hupped, pc, mcpVars, coreVars, failed>>

Next ==
    \/ Edit \/ Hangup \/ Watch
    \/ \E r \in Request : Resolve(r) \/ Delegate(r) \/ Finish(r)

Spec == Init /\ [][Next]_vars

-----------------------------------------------------------------------------
(* Properties *)

\* Between reloads the open connections are those of the manager: none is
\* leaked by a server that changed, vanished or failed to be dialled, and none
\* that is still listed was closed.
OpenAreManaged ==
    pc = "idle" => open = Used(manager)

\* After a reload without an error the tools a new request gets are those of
\* open connections, although they were built from the manager before.
CleanReloadIsUsable ==
    (pc = "idle" /\ ~failed) =>
        \A s \in Server : instance.tools[s] # 0 => instance.tools[s] \in open

\* A signal is not lost: when no reload is under way or due, what was on disk
\* when the last SIGHUP was sent, or something newer, is what requests get,
\* unless a file did not load.  Signals that arrive together, or while a
\* reload runs, are one (the channel of one that signal.Notify fills).
HangupHeard ==
    (pc = "idle" /\ hangups = 0) => (instance.config >= hupped \/ failed)

\* A request that outlives a reload keeps the instance it resolved, but what
\* it delegates to is looked up in the agents as they are by then, between
\* two of their replacements too.  Those are never older than its own: a
\* reload that stops at a broken file leaves the registry behind the agents,
\* not before them.
DelegationsCurrent ==
    \A r \in Request : \A c \in request[r].delegated : c >= request[r].config

\* All of them, with the types: what holds in every state.
ReloadInv ==
    TypeOK /\ OpenAreManaged /\ CleanReloadIsUsable /\ HangupHeard /\ DelegationsCurrent

\* ARCHITECTURE, Reload: only "a request holding an old *Instance may hold
\* Def.Execute closures over a session the reload just closed".  Between
\* reloads, then, a request that arrives has tools that are connected.
ToolsAreUsable ==
    pc = "idle" => \A s \in Server : instance.tools[s] # 0 => instance.tools[s] \in open
=============================================================================
