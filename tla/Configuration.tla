--------------------------- MODULE Configuration ----------------------------
(***************************************************************************)
(* One data directory and the processes that use it: the daemon and every  *)
(* command go through bootstrap (cli/main.go), which migrates the database *)
(* (util/database.go) and reads provider.json, agent.json and bot.json     *)
(* into variables (core/provider.go, agent.go, bot.go).  A command changes *)
(* the variables and writes one file whole, from a copy that may be as old *)
(* as the answers of a prompt (cli/preference.go, bot.go, setup.go); no    *)
(* lock is taken.                                                          *)
(*                                                                         *)
(* Providers, agents and bots are identities with their references; names, *)
(* which a command resolves to one of them, and the fields that nothing    *)
(* refers to are left out; so is the agent of a bot, which is looked up    *)
(* when it is named and never again.                                       *)
(***************************************************************************)
EXTENDS Naturals, Sequences

CONSTANTS
    Process,           \* slots for processes: one that ended is started again
    LastMigration,     \* there are migrations 1 .. LastMigration
    Provider, Agent, Bot,
    None

VARIABLES
    together,  \* whether processes overlap, or begin when the last has ended
    versions,  \* the rows of the table migrations
    schema,    \* how often each migration has been run
    column,    \* token_usage has its column cached_tokens
    present,   \* the files that exist
    files,     \* what they hold
    sessions,  \* the agents that have conversations in the database
    pc,
    applied,   \* what a process has read from the table migrations
    missing,   \* it has found the file it is at missing
    copy       \* its variables Providers, DefaultProvider, Global, Agents, Bots

database == <<versions, schema, column>>
shared == <<database, present, files, sessions>>
vars == <<together, shared, pc, applied, missing, copy>>

Migration == 1 .. LastMigration

\* The variables that are kept in each file.
FieldsOf ==
    [providers |-> {"providers", "default"}, agents |-> {"global", "agents"}, bots |-> {"bots"}]

File == DOMAIN FieldsOf

NoAgent == [id |-> None, provider |-> None]
NoMore == [providers |-> "agents", agents |-> "bots", bots |-> "ready"]

\* What ProviderInit, AgentInit and BotInit write when there is no file.
Empty == [providers |-> <<>>, default |-> None, global |-> NoAgent, agents |-> <<>>, bots |-> {}]

Members(list) == {list[i] : i \in 1 .. Len(list)}

\* AgentAll
AgentAll(c) == (IF c.global = NoAgent THEN {} ELSE {c.global}) \cup Members(c.agents)
AgentIds(c) == {a.id : a \in AgentAll(c)}

\* `c` with the variables of file f as they are in `from`.
With(c, f, from) == [x \in DOMAIN c |-> IF x \in FieldsOf[f] THEN from[x] ELSE c[x]]

TypeOK ==
    /\ versions \subseteq Migration
    /\ schema \in [Migration -> Nat]
    /\ present \subseteq File
    /\ sessions \subseteq Agent
    /\ \A p \in Process :
          /\ pc[p] \in {"off", "migrate", "column", "alter", "ready", "setup", "saving"} \cup File
          /\ applied[p] \subseteq Migration
          /\ missing[p] => pc[p] \in File

\* A directory as an earlier release may have left it, or none: the migrations
\* up to one, the last of them perhaps without the column it has now, and a
\* list of providers without a default.
Init ==
    /\ together \in BOOLEAN
    /\ versions \in {1 .. n : n \in 0 .. LastMigration}
    /\ schema = [m \in Migration |-> IF m \in versions THEN 1 ELSE 0]
    /\ column \in BOOLEAN /\ (column => LastMigration \in versions)
    /\ \/ present = {} /\ files = Empty
       \/ /\ present = {"providers"}
          /\ \E x \in Provider : files = [Empty EXCEPT !.providers = <<x>>]
    /\ sessions = {}
    /\ pc = [p \in Process |-> "off"]
    /\ applied = [p \in Process |-> {}]
    /\ missing = [p \in Process |-> FALSE]
    /\ copy = [p \in Process |-> Empty]

-----------------------------------------------------------------------------
(* bootstrap *)

At(p, here) == pc[p] = here
Goto(p, to) == pc' = [pc EXCEPT ![p] = to]

\* The process is over; what it knew goes with it.
Exit(p) ==
    /\ Goto(p, "off")
    /\ applied' = [applied EXCEPT ![p] = {}]
    /\ missing' = [missing EXCEPT ![p] = FALSE]
    /\ copy' = [copy EXCEPT ![p] = Empty]

\* A process is killed, or a statement or a write of it fails.
Dies(p) ==
    /\ ~At(p, "off")
    /\ Exit(p)
    /\ UNCHANGED <<together, shared>>

\* InitDatabase: the migrations that have been applied are read before the
\* transaction that applies the others.
Start(p) ==
    /\ At(p, "off")
    /\ together \/ \A q \in Process : At(q, "off")
    /\ applied' = [applied EXCEPT ![p] = versions]
    /\ Goto(p, "migrate")
    /\ UNCHANGED <<together, shared, missing, copy>>

Run(todo) ==
    /\ versions' = versions \cup todo
    /\ schema' = [m \in Migration |-> schema[m] + IF m \in todo THEN 1 ELSE 0]
    /\ column' = (column \/ LastMigration \in todo)

\* Broken: a version that is in the table already is no error.
MigrateIgnoring(p) ==
    /\ At(p, "migrate")
    /\ Run(Migration \ applied[p])
    /\ Goto(p, "column")
    /\ applied' = [applied EXCEPT ![p] = {}]
    /\ UNCHANGED <<together, present, files, sessions, missing, copy>>

\* The transaction of migrations.  It inserts the version of each before it
\* runs it; a version that is there by now fails the transaction and the start.
Migrate(p) ==
    /\ At(p, "migrate")
    /\ LET todo == Migration \ applied[p]
       IN  \/ /\ todo \cap versions = {}
              /\ Run(todo)
              /\ Goto(p, "column")
              /\ applied' = [applied EXCEPT ![p] = {}]
              /\ UNCHANGED <<missing, copy>>
           \/ /\ todo \cap versions # {}
              /\ Exit(p)
              /\ UNCHANGED database
    /\ UNCHANGED <<together, present, files, sessions>>

\* ensureTokenUsageCachedTokens looks, and then adds what was missing.
LookForColumn(p) ==
    /\ At(p, "column")
    /\ Goto(p, IF column THEN "providers" ELSE "alter")
    /\ UNCHANGED <<together, shared, applied, missing, copy>>

AddColumn(p) ==
    /\ At(p, "alter")
    /\ column' = TRUE
    /\ \/ ~column /\ Goto(p, "providers") /\ UNCHANGED <<applied, missing, copy>>
       \/ column /\ Exit(p)
    /\ UNCHANGED <<together, versions, schema, present, files, sessions>>

Loads(p, f, loaded) ==
    /\ At(p, f) /\ f \in present /\ ~missing[p]
    /\ copy' = [copy EXCEPT ![p] = With(@, f, loaded)]
    /\ Goto(p, NoMore[f])
    /\ UNCHANGED <<together, shared, applied, missing>>

\* ProviderInit: without a default that exists, the first one is.
ProviderInit(p) ==
    Loads(p, "providers",
        IF files.default \in Members(files.providers) \/ files.providers = <<>>
        THEN files ELSE [files EXCEPT !.default = Head(files.providers)])

AgentInit(p) == Loads(p, "agents", files)
BotInit(p) == Loads(p, "bots", files)

\* A file that is missing is written empty, by the three in the same way.
FindMissing(p) ==
    /\ pc[p] \in File \ present /\ ~missing[p]
    /\ missing' = [missing EXCEPT ![p] = TRUE]
    /\ UNCHANGED <<together, shared, pc, applied, copy>>

CreateEmpty(p) ==
    /\ missing[p]
    /\ present' = present \cup {pc[p]}
    /\ files' = With(files, pc[p], Empty)
    /\ missing' = [missing EXCEPT ![p] = FALSE]
    /\ Goto(p, NoMore[pc[p]])
    /\ UNCHANGED <<together, database, sessions, applied, copy>>

Bootstrap(p) ==
    \/ Start(p) \/ Migrate(p) \/ LookForColumn(p) \/ AddColumn(p)
    \/ ProviderInit(p) \/ AgentInit(p) \/ BotInit(p) \/ FindMissing(p) \/ CreateEmpty(p)

-----------------------------------------------------------------------------
(* The commands *)

\* AgentSave and its like: one file is replaced by what p has, which is now c.
Writes(f, c) ==
    /\ present' = present \cup {f}
    /\ files' = With(files, f, c)

\* A command ends with its file written from its variables, now `c`.
Saves(p, f, c) ==
    /\ At(p, "ready")
    /\ Writes(f, c)
    /\ Exit(p)
    /\ UNCHANGED <<together, database, sessions>>

\* An id that uuid.NewString returns is in nobody's hands yet.
FreshProvider(x) ==
    \A c \in {files} \cup {copy[q] : q \in Process} :
        x \notin Members(c.providers) /\ x \notin {a.provider : a \in AgentAll(c)}

FreshAgent(a) ==
    /\ a \notin sessions
    /\ \A c \in {files} \cup {copy[q] : q \in Process} :
          a \notin AgentIds(c)

\* The list without the entry that holds x, and the loop that keeps all agents
\* but one.
Without(list, x) ==
    LET i == CHOOSE j \in 1 .. Len(list) : list[j] = x
    IN  SubSeq(list, 1, i - 1) \o SubSeq(list, i + 1, Len(list))

WithoutAgent(list, id) ==
    LET remaining[i \in 0 .. Len(list)] ==
            IF i = 0 THEN <<>>
            ELSE IF list[i].id = id THEN remaining[i - 1]
            ELSE Append(remaining[i - 1], list[i])
    IN  remaining[Len(list)]

\* ProviderCreate: the first provider is the default.
Provided(c, x) ==
    [c EXCEPT !.providers = Append(@, x), !.default = IF c.default = None THEN x ELSE @]

ProviderAdd(p, x) ==
    /\ FreshProvider(x)
    /\ Saves(p, "providers", Provided(copy[p], x))

\* setupProvider saves a provider and goes on to its agent.
SetupProvider(p, x) ==
    /\ At(p, "ready") /\ FreshProvider(x)
    /\ copy' = [copy EXCEPT ![p] = Provided(@, x)]
    /\ Writes("providers", copy'[p])
    /\ Goto(p, "setup")
    /\ UNCHANGED <<together, database, sessions, applied, missing>>

\* setupAgent, after a provider was added or with one that was there: the new
\* agent is the global one, and the one before goes to the end of the others.
SetupAgent(p, a, x) ==
    /\ pc[p] \in {"ready", "setup"}
    /\ FreshAgent(a) /\ x \in Members(copy[p].providers)
    /\ LET c == copy[p]
       IN  Writes("agents",
              [c EXCEPT !.global = [id |-> a, provider |-> x],
                        !.agents = IF c.global = NoAgent THEN @ ELSE Append(@, c.global)])
    /\ Exit(p)
    /\ UNCHANGED <<together, database, sessions>>

\* ProviderUpdateConfig, whose changes are to fields that nothing refers to.
ProviderUpdate(p, x) ==
    /\ x \in Members(copy[p].providers)
    /\ Saves(p, "providers", copy[p])

ProviderDefault(p, x) ==
    /\ x \in Members(copy[p].providers)
    /\ Saves(p, "providers", [copy[p] EXCEPT !.default = x])

Unprovided(c, x) ==
    LET rest == Without(c.providers, x)
    IN  [c EXCEPT !.providers = rest,
                  !.default = IF c.default # x THEN @ ELSE IF rest = <<>> THEN None ELSE Head(rest)]

\* Broken: only the global agent is asked for.
ProviderDeleteUnlessGlobal(p, x) ==
    /\ x \in Members(copy[p].providers)
    /\ copy[p].global.provider # x
    /\ Saves(p, "providers", Unprovided(copy[p], x))

\* ProviderDelete refuses what an agent uses, as far as this process knows.
ProviderDelete(p, x) ==
    /\ x \in Members(copy[p].providers)
    /\ \A a \in AgentAll(copy[p]) : a.provider # x
    /\ Saves(p, "providers", Unprovided(copy[p], x))

\* agentAddExecute: the first agent becomes the global one.
AgentCreate(p, a, x) ==
    /\ FreshAgent(a)
    /\ x \in Members(copy[p].providers)
    /\ LET new == [id |-> a, provider |-> x]
       IN  \/ /\ copy[p].global = NoAgent
              /\ Saves(p, "agents", [copy[p] EXCEPT !.global = new])
           \/ /\ copy[p].global # NoAgent
              /\ Saves(p, "agents", [copy[p] EXCEPT !.agents = Append(@, new)])

\* agentApplyUpdate and AgentUpdateFields
AgentUpdate(p, a, x) ==
    /\ a \in AgentIds(copy[p]) /\ x \in Members(copy[p].providers)
    /\ LET Updated(old) == IF old.id = a THEN [old EXCEPT !.provider = x] ELSE old
       IN  Saves(p, "agents",
              [copy[p] EXCEPT !.global = Updated(@),
                              !.agents = [i \in DOMAIN @ |-> Updated(@[i])]])

\* The agent changes places with the global one, which goes to the end.
AgentDefault(p, a) ==
    /\ \E new \in Members(copy[p].agents) :
          /\ new.id = a
          /\ LET rest == WithoutAgent(copy[p].agents, a)
             IN  Saves(p, "agents",
                    [copy[p] EXCEPT !.global = new,
                                    !.agents = IF copy[p].global = NoAgent THEN rest
                                               ELSE Append(rest, copy[p].global)])

\* Broken: nobody takes the place of the global agent.
DismissedAlone(c, a) ==
    [c EXCEPT !.global = IF c.global.id = a THEN NoAgent ELSE @, !.agents = WithoutAgent(@, a)]

\* The variables without agent a: the first of the others takes its place.
Dismissed(c, a) ==
    LET rest == WithoutAgent(c.agents, a)
    IN  IF c.global.id # a THEN [c EXCEPT !.agents = rest]
        ELSE IF rest = <<>> THEN [c EXCEPT !.global = NoAgent, !.agents = rest]
        ELSE [c EXCEPT !.global = Head(rest), !.agents = Tail(rest)]

\* AgentDelete removes the conversations first, and then saves.
AgentDelete(p, a) ==
    /\ At(p, "ready") /\ a \in AgentIds(copy[p])
    /\ sessions' = sessions \ {a}
    /\ copy' = [copy EXCEPT ![p] = Dismissed(@, a)]
    /\ Goto(p, "saving")
    /\ UNCHANGED <<together, database, present, files, applied, missing>>

AgentDeleteSaves(p) ==
    /\ At(p, "saving")
    /\ Writes("agents", copy[p])
    /\ Exit(p)
    /\ UNCHANGED <<together, database, sessions>>

\* BotCreate, of a name that no bot this process knows has.
BotCreate(p, b) ==
    /\ b \notin copy[p].bots
    /\ Saves(p, "bots", [copy[p] EXCEPT !.bots = @ \cup {b}])

BotUpdate(p, b) ==
    /\ b \in copy[p].bots
    /\ Saves(p, "bots", copy[p])

BotDelete(p, b) ==
    /\ b \in copy[p].bots
    /\ Saves(p, "bots", [copy[p] EXCEPT !.bots = @ \ {b}])

\* A conversation is begun with an agent that the process knows, by a command
\* or by the daemon, which goes on (resolveSession, SessionAttach).
Converse(p, a) ==
    /\ At(p, "ready")
    /\ a \in AgentIds(copy[p])
    /\ sessions' = sessions \cup {a}
    /\ UNCHANGED <<together, database, present, files, pc, applied, missing, copy>>

Command(p) ==
    \/ \E x \in Provider :
          ProviderAdd(p, x) \/ ProviderUpdate(p, x) \/ ProviderDefault(p, x) \/ ProviderDelete(p, x)
          \/ SetupProvider(p, x)
    \/ \E a \in Agent, x \in Provider : AgentCreate(p, a, x) \/ AgentUpdate(p, a, x) \/ SetupAgent(p, a, x)
    \/ \E a \in Agent : AgentDefault(p, a) \/ AgentDelete(p, a) \/ Converse(p, a)
    \/ AgentDeleteSaves(p)
    \/ \E b \in Bot : BotCreate(p, b) \/ BotUpdate(p, b) \/ BotDelete(p, b)

Next == \E p \in Process : Bootstrap(p) \/ Command(p) \/ Dies(p)

Spec == Init /\ [][Next]_vars

-----------------------------------------------------------------------------
(* Properties *)

\* Each migration is run once, whoever else starts, fails or is killed at the
\* same time, and a process that is past InitDatabase has the whole schema.
MigratedOnce ==
    /\ \A m \in Migration : schema[m] = IF m \in versions THEN 1 ELSE 0
    /\ \A p \in Process : pc[p] \notin {"off", "migrate", "column", "alter"}
            => versions = Migration /\ column

WellFormed(c) ==
    /\ \A i, j \in 1 .. Len(c.providers) : c.providers[i] = c.providers[j] => i = j
    /\ \A i, j \in 1 .. Len(c.agents) : c.agents[i].id = c.agents[j].id => i = j
    /\ \A i \in 1 .. Len(c.agents) : c.agents[i].id # c.global.id
    /\ c.global = NoAgent => c.agents = <<>>

\* However commands overlap and end, in the files and in every process no id
\* is there twice and there is a global agent as long as there is any, so that
\* a client or a bot that names no agent has one (AgentDelete, AgentDefault).
FilesWellFormed ==
    /\ WellFormed(files)
    /\ \A p \in Process : WellFormed(copy[p])
    /\ \A p \in Process : pc[p] \in {"agents", "bots", "ready", "setup", "saving"} =>
          copy[p].default \in Members(copy[p].providers) \/ copy[p].providers = <<>>

\* When commands do not overlap, what refers to something finds it, even after
\* one that failed or was killed halfway: an agent has its provider, and a
\* conversation its agent (ProviderDelete, AgentDelete).
ReferencesHold ==
    ~together =>
        /\ \A a \in AgentAll(files) : a.provider \in Members(files.providers)
        /\ sessions \subseteq AgentIds(files)

=============================================================================
