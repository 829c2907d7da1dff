# A verification project for mininaru

TLA+ models of the Go program in `src/` (a personal AI agent: a daemon with an
RPC and an HTTP server, Discord bots, a terminal client and local tools), the
configurations TLC checks them with, and proofs checked by TLAPS.

Contents: 1 the system · 2 the modules · 3 the runs · 4 fairness · 5 the
proofs · 6 where code and documents disagree · 7 what is not modelled · 8 the
plan.

## 1. The system

### Components, their state and operations

| Component | State | Operations | Hard because |
|---|---|---|---|
| Sessions and turns (`core/session.go`, `chat.go`, `complete.go`, `tool.go`, `instance.go`) | SQLite rows of sessions, messages, tool calls, usage; one gate (a channel of capacity one) per session, shared by all instances of a registry | chat with or without tools, delete, reload | goroutines of all front ends compete for a session; a local process writes without the gate; a kill, a failing statement, a cancel or a deletion at any point of a turn |
| Context compaction (`core/compact.go`, `usage.go`) | one summary row per session, whose marker is the last message it stands for | automatic at 90% of the window inside a turn; `CompactNow` on request | the request takes no gate; it reads history and summary, asks a model for a minute, then saves |
| Chat RPC (`rpc/service.go`) with its client (`cli/remote.go`) | 16 slots, a receiver goroutine and a channel of one per call, requests for tools to run on the client | Chat, cancel, approve | answers, approvals and cancels share one stream with no order between them; a blocked receiver; the loss of the stream |
| Device pairing and admission (`rpc/pairing.go`, `pairing_service.go`, `auth.go`, `pki.go`) | rows of requests and of clients | begin, watch, approve, deny, revoke, authenticate | several processes write the two tables with a statement at a time; time passes between them |
| Discord turns (`bot/discord/handlers/message.go`, `interaction.go`, `core/session.go`) | a dedupe set, a map from channel to the last queued turn, the channel's row | message, /reset, /agent, stop | each delivery has a goroutine; chains are linked and unlinked concurrently |
| Discord approvals (`bot/discord/handlers/approval.go`) | pending requests, a channel of one answer each, the card | ask, press, expire, cancel | presses, the timer and the cancel race |
| File tools (`modules/file.go`) | a map from path to the revision last read | read, write, edit | a check and a rename around which other programs write |
| Reload (`cli/serve.go`, `modules/mcpclient.go`, `core/instance.go`) | connections, package variables, instances | SIGHUP | three stages that fail separately, with requests under way on what they replace |
| Update and service unit (`cli/update.go`, `daemon.go`) | the executable, a staged file, a cached answer, the systemd unit | update, check, install, uninstall | kills at any step; several updates at once |
| Tool dispatch and delegation (`core/complete.go`, `tool.go`, `subagent.go`, `modules/builtin.go`) | the rounds of a turn, the row of each call, a goroutine of the builtin server per call | call, ask, settle, delegate to another agent | the caller of a tool leaves when its context ends, the tool goes on |
| Interactive client (`cli/tui/client.go`, `cli/remote.go`) | one `Update` loop: input, menu, question, transcript, cancel function | submit, compact, interrupt, answer | a goroutine per turn or compaction sends it messages around every key |
| Configuration (`core/provider.go`, `agent.go`, `bot.go`, `cli/preference.go`, `bot.go`, `setup.go`) and migrations (`util/database.go`) | three JSON files and a copy of them per process; the table `migrations` | start, and every command that adds, changes or deletes | whole files are written from copies as old as the process; nothing is locked |
| The daemon (`cli/serve.go`, `rpc/server.go`, `server/server.go`) and its completion API (`server/completion.go`) | where main and the goroutine of each server are, a channel of results, connected bots, 16 slots | start, listen, fail, signal, drain, force, exit; a completion | two servers and a signal end in any order, around calls that may never end; what systemd does next depends on the exit status |
| Discord users (`core/discord_user.go`, `interaction.go`) | rows of users, roles and ping settings, and of codes | make a code, /pair, /user add, /mention | a command reads a role and writes in another statement, while codes are redeemed and lapse |
| Memory tool (`modules/memory.go`) | rows of facts | add, replace, remove | the total is read in one statement, and the fact written in another |
| Skills (`modules/skill.go`, `skillcreate.go`, `skilltool.go`) | directories of bundles in two roots, and the index a scan of them leaves | scan, load, create, reload | scans, creations, reloads and editors overlap; what may be replaced is decided from the index |
| Keys and certificates (`rpc/pki.go`, `rpc/client.go`, `cli/pair.go`) | four files of the server; three of a device for each address, and `servers.json` | start, pair, dial | one file after another, with kills between and other processes beside |
| Shell tool (`modules/bash.go`, `bashproc_unix.go`) | a shell, its process group, a pipe | run, time out, give up | the shell, its children, the deadline and the pipe end in any order |
| Searches of files (`modules/search.go`) | a walk | glob, grep | the tree changes under the walk; results are cut |
| Client preferences (`config/client.go` and the commands that save it) | `client.json`, a whole copy in each process | start, every command that changes a setting, the client's `/thinking` | older copies are saved over newer files |
| Web search (`modules/web.go`, `webconf.go`, `cli/web.go`) | `web.json`, the copy of the daemon | change, reload, search | the daemon loads the file while commands write it and searches read the copy |
| Replies (`bot/discord/handlers/reply.go`) | none | split an answer into messages | lengths, newlines and code blocks at the cut |
| Rest of the command line, web pages, attachments | | | section 7 |

### How they interact

Every front end (RPC, HTTP, Discord, terminal) ends in `Instance.Chat*`, which
takes the gate of the session and runs the turn: this is `SessionTurns`, and in
the modules of the front ends the turn is one step or a pair of them. Front ends
share the registry, which `Reload` swaps. The Chat RPC and a Discord turn hand
tool approvals to a person on another machine, over a stream or a card. The
command line works on the same database and the same JSON files as the daemon
from processes of its own, which is where most hazards come from: SQLite
statements are atomic, and nothing larger than a transaction is.

### What makes each part correct

* Turns: one at a time in a session; an exchange is stored whole or not at all;
  what a model is shown is every exchange before, verbatim or in the summary.
* Compaction: each message reaches the model, in the summary or in the tail, and
  in both only after a request whose history had been overtaken.
* Chat RPC: a tool a client runs for a turn is run once, and the model goes on with
  the result of that run; no answer to two requests, one terminal event that tells the truth,
  no slot or gate held by a call that ended, and a cancel that works with at
  most one unwanted event ahead of it (section 6: with two it does not).
* Pairing: outcomes are final; a certificate that was shut out stays out; a
  device that waits is told in the end.
* Discord: a channel is a queue of turns that all end; only a press of the right
  person decides, and a card says what happened.
* Files: the tools never replace what nobody saw, except in the window the
  operating system leaves.
* Reload: no connection leaks; a signal is not lost.
* Skills: the index is what a scan of the directories finds, a skill that was
  reported as loaded is offered, and none displaces one of another scope.
* Keys: a device that was told it is paired can connect, to the server it was
  paired with; a server never listens with a chain that does not hold.
* Shell and searches: whole output or an error, nothing of a killed group left; a
  search not marked as cut is complete.
* Preferences and web search: what somebody chose stays chosen, but for an older
  copy; a search is always made with a configuration that can work.
* Replies: no part too long, nothing lost, no code block left open.
* The daemon: it ends when it is told to or a server fails, hung calls or not;
  it ends well only when it was told to; no call is cut short before the time
  its own server gives it; no slot stays taken.
* Discord users: a code makes one admin; nobody is let in by anybody else.
* Memory: a fact is there once, and the total stays bounded (section 6: not by
  the limit, when calls overlap).
* Update: the executable is always a verified build, the daemon ends on it.
* Tools and the client: nothing dangerous runs without an answer that covers it,
  however long it outlives its turn; esc always gives the input back.
* Configuration: a migration runs once; a file is well formed whoever wrote it
  last; without overlap no reference dangles, wherever a command was killed.

The hazards behind these, with their lines, are listed in `PROJECT.json`.

## 2. The modules

A step of a model is what one goroutine or process does between two points where
another can get in: a SQL statement or transaction, a receive or send on a
channel, a call of a model, a file operation. Texts, names and arguments are left
out unless a property tells them apart.

| Module | Models | Correspondence |
|---|---|---|
| `SessionStore` | the tables | a table is a set of rows; each operator is one statement or transaction, and the cascade of a foreign key |
| `SessionTurns` | a turn, from the gate to the commit | `pc[t]` is the place of the turn's goroutine; the module's header lists the places and the function that leads from each to the next. `Local` are the turns of a process that calls `ChatWithApproval` without a gate. Reload, kill, deletion and cancel are steps of the environment |
| `Conversation` | what a session promises | a log of exchanges, each based on all before it |
| `SessionCompaction` | `CompactNow` beside turns | extends `SessionTurns` by requests with three steps: read history, read summary, save |
| `ChatStream` | one `Chat` call | handler, receiver and client of each call, two queues for the two directions of the stream, the channel of one between receiver and handler |
| `RemoteTurn` | what a `Chat` call promises its client | a turn whose tools the client runs; `TurnOf`, `ClientOf` and `GivenTo` of `ChatStream` say which place of handler, client and answers is which of it |
| `Pairing` | requests, approvals and admission | `status`, `clients` are the two tables; `job` is what an approving process holds between its statements; `clock` is the time relative to the five minutes |
| `TurnQueue`, `DiscordTurns` | the turns of a Discord channel, what they promise | a delivery is a handler goroutine and then the turn's; `turns[c]` is the map entry, `previous[d]` the channel a turn waits on |
| `DiscordApproval` | the card | `response` is the channel of one, `approvals` the map, a press is a handler of its own |
| `FileGuard` | file_read, file_write, file_edit | one path; contents are numbered by who wrote them first, so a hash is its number |
| `SelfUpdate` | update, check, unit | one process per updater and checker; contents of a file are whole, bad, short or partly written |
| `Configuration` | bootstrap and the configuration commands | `pc[p]` is what a process is about to do; `copy[p]` its package variables; a file is written whole from them |
| `Reload` | SIGHUP | `pc` is the place of `watchReload`; connections are numbered; `instance` is what a new request gets |
| `Skills` | the roots, the index, `skill_create` and `skill_load` | `disk` is the bundle in each directory of a root; `scan[s]` what a scan has accepted and which entries are left; `create[c]` what a creator is about to do; `basis` is when the scan behind the index began |
| `Identity` | the files of both ends | `start[p]` and `pair[d]` are the places of a starting server and of a pairing device between two files; a key stands for its fingerprint |
| `PairingIntake` | how many requests are taken | `rates` is the map of windows; a call is allowed, swept, counted and inserted in four steps |
| `Shell` | one `bash_exec` | the shell, its children and the context move by themselves; the call waits for the shell, then for the pipe, as os/exec does |
| `FileSearch` | glob and grep | `todo` is what the walk has yet to visit; a directory is read once, when it is entered |
| `Preferences` | `client.json` | `kept` is the file, `mine[p]` the copy of a process |
| `WebSearch` | `web.json` and a search | `web` is the daemon's copy, `buffer` what it has read of the file, `draft` a command's |
| `Replies` | `splitReply` | a text grows by a character; a step splits it afresh |
| `Serve` | `mininaru serve` | `main` is the place of serveExecute and serveAll, `server[s]` that of each server's goroutine, `results` the channel between them; a call is running or has got what its client sees |
| `DiscordUsers` | the users of each bot | `role`, `mention` are the columns of one table, `codes` the other; `adding` is what a handler of /user add holds between its statements |
| `Memory` | the memory tool | `memories` is the table, `write[w]` what a call holds between its statements |
| `ToolLoop` | rounds and calls of a turn, delegation | two loops, the turn's and that of a delegated run in a builtin goroutine; `job[n]` is the goroutine of a call |
| `TuiClient` | the client around `ToolLoop` | `Update` is one step per message; a send to the program is a rendezvous with it |

`MCSessionTurns`, `MCSessionCompaction` add symmetry. `MCRpc`, `MCDiscord`
and `MCLocal` each put components that share no state into one run: a variable,
chosen at the start, says which of them moves, the others stay in one initial
state. A behaviour of the union restricted to one component is a behaviour of
that component, so a property of one component's variables holds of it exactly
when it holds of the union, and a run can ask several questions of unrelated parts.
In `MCLocal` the parts other than the file tools even share sixteen variables,
which stand for those of the part that moves, since a part that does not move
has no state worth keeping.
To a call, the end of the daemon is the loss of its stream; to the daemon, a call
runs or has ended; a role is looked up when a message arrives.
Fairness of each is stated for its part. No interaction is lost, because there
is none in the models: where two components do interact, one module extends the
other (`SessionCompaction` and `SessionTurns`, `TuiClient` and `ToolLoop`).

Operators marked "Broken" in the modules are plausible bugs; no specification
uses them. Each stands for an operator right below it, and with that operator
replaced TLC finds the property named in `PROJECT.json` violated, which shows
that the property is not true of whatever the code might do.

## 3. The runs

| Run | Module | Bounds | Question |
|---|---|---|---|
| `turns` | `MCSessionTurns` | 1 session, 3 turns, 1 round, 1 call, every turn over the threshold, 1 reload, 1 kill, failing statements | exclusion, whole and contiguous exchanges, the summary is a prefix, `ImplementsConversation` |
| `turns_live` | `MCSessionTurns` | 3 turns, one of another process, 1 kill | every turn ends; a waiter leaves though the turn inside hangs |
| `compaction` | `MCSessionCompaction` | 2 turns, 2 requests, 2 rounds, calls with and without ids, 1 kill | each message reaches the model, and once (`EachMessageOnce`); completed turns have settled calls |
| `rpc` | `MCRpc` | 2 calls and 1 slot, 2 requests for tools, 2 events nobody asked for; 2 pairing requests, 2 keys, 2 operators, 2 certificates; 2 bots, 2 servers, 2 chats, 2 completions and 1 slot | a call is a turn run by its client (`ImplementsRemoteTurn`); answers, terminal events, loss and cancel; outcomes, admission, the end of a watch; the daemon ends, says how, keeps nothing and cuts nothing short |
| `discord` | `MCDiscord` | 3 deliveries, 3 messages, 1 stranger, 2 agents, 1 command, a dedupe set of one; 2 requests, 2 users, 2 presses; 2 bots, 2 users, 2 codes, 2 additions at once | the queue of a channel, its conversations; the card; who is let in |
| `local` | `MCLocal` | 2 callers, 4 contents, 1 outside write, 1 restart; 2 updaters, 1 checker, 2 releases, 2 installs or uninstalls; 2 processes (started again for ever), 2 migrations, 2 providers, 2 agents, 1 bot; 2 servers, 1 request, 2 edits, 3 connections; 2 writers of memory, 4 facts, a limit of 2, 3 ids; the parts added to it are listed below | lost updates; the executable and the daemon; migrations, files, references; a reload leaks no connection and loses no signal; the total of memory; the catalog of skills; whom a device trusts; the limits of pairing; a shell and its group; searches; settings; the parts of a reply |
| `tui` | `TuiClient` | 2 pieces of work, 2 calls at once, 2 rounds, one dangerous tool, one call id for all, runs here or on a server | permission, transcript, interrupt |
| `pairing_twice` | `Pairing` | 1 request, 2 operators | violated: `ApprovedIsRegistered` (section 6) |
| `reload_tools` | `Reload` | 1 server, 2 edits | violated: `ToolsAreUsable` |
| `rpc_cancel` | `MCRpc` | 1 call that asks nothing, 3 unwanted events | violated: `CancelCancels` |
| `tui_question` | `TuiClient` | as `tui` | violated: `QuestionHasTurn` |
| `tui_delegate` | `TuiClient` | as `tui`, all kinds of agents | violated: `DelegationReaches` |

The bounds, and why they are enough to be worth something:

* Two of what competes, and three where a queue has a middle: three turns at a
  gate or in a channel's chain are one inside, one that leaves and one behind it.
* Counters that only have to be reached once: one kill, one reload, one outside
  write. A second kill comes to a state in which the first left nothing but rows,
  which the model already has as the rows of an earlier turn.
* Limits are small so that they are met: one slot for two calls (16 in the code),
  a dedupe set of one (2048), two rounds (8), two migrations (14), memory for two
  characters (4096), with facts of one and of two.
* The smaller parts of `local`: 2 creators, 2 names and 2 other changes around
  scans of skills; 2 starters and 2 devices, 2 addresses, 4 keys of servers and 2
  of devices, 2 processes at once; 1 host, 4 requests, 1 place, 2 requests in a
  window of 2; one shell with a child that writes, one that does not and one that
  left its group; 4 files at three depths, 4 patterns, 2 hits a file, 1 change of
  the tree; 2 programs and 3 writes of preferences; 1 command, 1 search and 2
  writes of `web.json`; every text of up to 9 characters against parts of 4, so
  of three parts, with fences of two backquotes and a longest opening line of 3.
  Fences, limits and windows are shrunk together, so that a cut can fall before,
  in and behind a fence.
* Levels is `{"high"}` where compaction matters: every turn that can compact does.
  With "low" no turn has more behaviours than with compaction off, which
  `turns_live` has.
* `ImplementsConversation` and the pairing properties need one session, as no
  statement reads another session's rows; the theorems of section 5 are for any
  number.
* Identical ids from a provider are the hard case of the transcript, so `tui`
  gives every call the same one.
* Larger instances were explored once and gave no other result: three calls in
  `tui`, four deliveries on two channels in `discord`, three turns beside one
  request in `compaction`, and the parts of `local` one at a time with larger bounds.
  They take longer than is of use for a run.
* A deadlock is no error in any run: turns, updates and calls are finite in
  number, and when all have ended nothing is left to do. That nothing waits for
  ever is what the liveness properties say.

## 4. Fairness

* `turns_live`: weak fairness of `Acquire` and `GiveUp` only, a goroutine parked
  in a `select` with a ready arm. `WaiterLeaves` holds with that alone, a model that
  hangs included. `TurnsEnd` also assumes every step of a turn, as models and
  tools return or their context ends; the assumption is part of the property.
* `rpc`: the goroutines of the server, except that a model may take for ever as
  long as its context is alive; nothing of the client or the network. The watch
  of a pairing polls, and time passes.
  For `DaemonEnds`: main, the goroutine of each server, and the timers of their
  shutdown. Nothing of calls, which may hang; nothing of `Drained`, which may
  never come.
* `discord`: for `WaitsEnd`, every goroutine of a turn, which is under a ten minute timeout; the
  goroutine of an approval, which has a timer of five; handlers of presses.
* `tui`: the goroutines of a turn and of a tool, not a model that is still
  answering and not the user.
* `local`: none; everything asked there is safety. That a call of the shell tool
  ends is the invariant `CallGoesOn`: over its deadline it can always go on. That
  no SIGHUP is lost is `HangupHeard`, a part of `ReloadInv`: with the goroutine of `watchReload` idle and no signal
  waiting, what the files said at the last signal is in use, or the reload failed.

Strong fairness is assumed nowhere.

## 5. The proofs

The theorems hold for every value of the constants: any sets of sessions, turns,
conversations, calls, deliveries, processes, devices, requests or updates, any
bound, with failing statements and kills wherever the modules have them. Each is
an invariant of a specification, or a refinement or an action property that rests
on one; it is proved from one that is inductive, which is what the list names,
since that is where the reason lies.

Two arguments recur. That a finite list or set of ids has the first element some
step looks for is shown by a least counterexample (the numbers are well founded),
as no induction rule can be used here. And what is proved of a part is carried to
the run that puts it beside others (`MCRpc`, `MCDiscord`, `MCLocal`): a behaviour
of the whole is one of each part that moves in it (the lemmas named `...Alone`),
and where a part is declared twice, once in the run and once where its proofs are,
both name the same thing (the lemmas named `Same...`).

Sessions and turns (`SessionProofs`):

* `TypesHold`: `TypeInv` adds to `TypeOK` that every row is
  numbered below the counter (so that the rowid of the next is new and `Newest`
  exists: `NewestRow`), and that a turn that summarizes or runs a call has
  something to summarize or run.
* `TurnsExcludeEachOther`: `GateInv` adds to
  `OneTurnPerSession` that there is one lock table, which is what
  `Registry.Reload` keeping `locks` is for, and that whoever is inside holds the
  token.
* `ExchangesStayWhole`: `WholeInv` adds where rows lie, that ids are unique, and
  what a turn that still runs has in the table: a pending question and nothing
  else. It needs no gate, so it covers a second process too.
* `CompletedAreReplayed`: `CallsInv` says that a turn records no call before its
  row, is at one call at a time, and leaves none pending unless it fails. It needs
  no gate either.
* `ExchangesStayContiguous`: if every turn
  takes the gate (`Local = {}`). `ContiguousInv` says that nothing completes behind
  the question of a turn that still runs, which is where exclusion is used. Without
  the assumption the theorem is false: see section 6.
* `SummariesArePrefixes`: with `Local = {}`, what a turn has read of its session is
  all there is (`HistoryFresh`), since nothing completes there while it is inside;
  so the summary and the tail it holds are the whole history (`ShownAll`), the tail
  its end (`TailLast`), and what is saved stands for all up to the last message.
* `TurnsImplementConversation`: the refinement. By `ShownAll` a turn that completes
  has seen every exchange there is, so its step is an answer of `Conversation`; the
  exchanges logged before keep what they have seen, as a turn that is over does not
  change its context (`ContextSettled`); a deletion empties the log, and every other
  step is a stutter.
* `MessagesReachOnce`: with requests beside the turns, which take no gate, a
  summary may be older than the one it replaces, so `SummariesArePrefixes` need not
  hold. What does is `FoldInv`: a history that was read stays a beginning of what
  there is (`Prefix`), what is held to be folded covers all before any message of
  its tail, however much is added since (`Foldable`), and so a saved summary covers
  at least what lies before its marker (`MarkerInv`). Both survive the growth of the
  history because new messages lie behind all that were there (`NextGrows`), which
  is what the gate gives. So nothing is dropped. That nothing is sent twice is
  true of a session until a request reads a summary saved after it had read its
  history, from which on the session counts as `overtaken`: `OnceInv` says that
  until then whoever is about to save folds in only what its old summary does not
  cover (`Ahead`), and that a summary covers exactly what lies up to its marker
  (`MarkedEnd`).

Chat streams, pairing and the daemon (`RpcProofs`):

* `TurnsRunRemotely`: the refinement of `RemoteTurn`, for any number of calls,
  slots, requests and unwanted events, whenever the stream breaks. It needs three
  things besides the invariants below. `TurnInv`: the model of a turn inside is at
  work only with the result of what it last asked for, unless nobody waits for the
  turn any more, and a turn is stored as completed only behind that. `RequestInv`:
  the requests on their way to a client are the ones next after those it has taken,
  in order, and none is missing while the stream lives. `HonestInv`: of a client that
  has said nothing but its results, all it has said, wherever it is by now (in the
  stream, in the receiver, in the channel of one), is of tools it has run, and is no
  cancel. So what the handler takes as an answer to its request is the result of
  that request. TLC checked the three before they were proved, on two calls with two
  slots and two requests. A lemma for each action, or for two that are alike, says
  which step of `RemoteTurn` it is, or that it is none (a receive, a push, an answer
  that is dropped). `ServerRunsRemotely` carries it to `MCRpc`.
* `EachAnswerOnce`: `AnswersInv` says that the answers a turn has had are in
  order, all of calls it had asked for, and that a turn that waits has had none of
  the call it waits for. The run checks `AnswersInOrder` as a part of `RpcInv`.
* `OneTerminalEvent`: `TerminalInv` says that a stored turn is one stored as
  completed, and that nothing is handled of a call its client has not made.
* `NothingHeldBehind`: `HoldInv` says where the handler of a call is while it has
  its slot and while its turn is inside the gate.
* `SettledRequestsStay`, `CertificatesStayRefused`: action properties. `PairInv`
  says that the serial of a certificate that is signed and not yet committed is
  nobody else's, and that a device which holds its certificate has ended its watch.
  So what is registered for a key is only ever replaced by a certificate no device
  holds yet, and a refused one stays refused although the mark on its key is
  cleared.
* `DaemonServes`: `ServeLife` ties the place of main to those of the servers'
  goroutines, each of which puts one result into the channel; `CallsInv` says that
  nothing drains before a stop, and `SlotsInv` who has a slot.

Discord (`DiscordProofs`):

* `DiscordTypes`, `EmptyIsIdle`, `ConversationsOnlyAdvance`,
  `DuplicatesAreDropped`. `ChainInv` is what the chain of a
  channel means: while the bot lives a turn waits for the one right before it, or
  all before it have ended; one that has begun has only ended ones before it,
  after the stop as well. `BoundInv` says that the row a channel is bound to is
  the only one and no older than a conversation of its turns: a turn that takes a
  row is then the newest, and those queued behind it have none yet. `SeenInv` says
  that the set of messages holds the last ones taken, in their order.
* `OnlyTheOwnerDecides`, `ClosedCardsAreRight`.
  `DecideInv` says that an answer still in the channel was given by the owner too,
  and that a press past the lookup is the owner's; `ClosedInv` that a card is
  closed only after a verdict that is no answer and does not change.
* `UsersLetInByOwner`: `UsersKept` adds to `UsersInv` that codes written down or
  redeemed were minted, so that no later one is the same, and that `/user add` is
  under way only with bots that have been paired with.
* `TurnsImplementQueue`: the refinement. `PlacedInv` says that a turn that was
  queued is in the chain of its channel. With `ChainInv` at most one of a channel
  answers, and it is the first that has not ended: its step begins or ends the head
  of the queue of `TurnQueue`; every other step is a stutter.

Local parts (`LocalProofs` for the file tools and replies, the others where named):

* `FileTypes`: `TypeOK` is inductive; a conversation is writing exactly when it
  holds the mutex.
* `UpdatesAreKept`: `CheckedIsThere` says that what a writer has checked is still
  there, or another program wrote.
* `ReplacedContentsWereSeen`: `SeenInv` says that what the map holds, and what a
  writer has checked against it, was shown to some conversation. A read that has
  not yet remembered what it read is not counted, which is why the map may be
  behind the file and never ahead of what was shown.
* `ExecutableStaysVerified` (`InstallationProofs`): `StagedInv` says what a staged
  file is before and after its comparison. `FailuresLeaveNothing`: `LeavesInv` says
  at which places there is one. `ReleasesHold`: `ReleaseInv` adds to the types that
  a file is staged only of the release that was found. `DaemonEndsOnTarget`:
  `UnitInv` says that a daemon on an older build has an update that owes it a
  restart, or outlived its unit; and
  that one without a unit did.
* `IdentityHolds`, `PairedDevicesConnect` (`InstallationProofs`): `UsedInv` says
  that keys in use have been made and whom a pairing under way talks to;
  `ServerInv` which of the server's files there are at each step of a start, as
  long as no two first starts raced; `SavedInv` which of a device's files agree
  with what it was issued at each step of saving them, as long as no two pairings
  ran at once.
* `IntakeIsLimited` (`InstallationProofs`): `WindowFits` says that the window of a
  host began with a request of it, has counted those since, and follows a time of
  its length with fewer than the limit; so no time of that length has twice the
  limit. `PendingKept` says that whoever has counted and not inserted is among the
  most there were at once.
* `ConfigurationHolds` (`ConfigurationProofs`), with its parts `MigrationsRunOnce`,
  `FilesStayWellFormed` and `ReferencesStay`: `MigrateInv` says that a migration and
  its entry in the list are one transaction; `FilesInv` what a process holds at each
  place of a start or a command, so that what it writes is well formed whoever wrote
  since; `AloneInv` that the copy of a process that is the only one is what its
  command has made of the files, which is why an order of two writes that a kill
  separates leaves references whole.
* `PreferencesStay` (`ConfigurationProofs`): `CopyInv` says of the copy of
  each program that runs which fields are what was chosen last: all but those that
  were chosen since it read the file, those it has changed itself, and those that
  were undone before.
* `SearchesStayConfigured` (`ConfigurationProofs`): `WebKept` says that
  what a load has read is something the file offered, and that the daemon's
  configuration can work at each step of a load, so that a copy of it can. What a search
  collects is a recursive function over the results of a page; that it is defined,
  and that it ends with all that are good, up to the limit, is shown by a least
  counterexample.
* `ReloadHolds` (`ReloadProofs`): `ConnsInv` says to whom each connection belongs at
  each step of a reload, `VersionsInv` which version of a file may be ahead of which
  while the agents are replaced one after the other, and which of them have a client.
* `SkillsHold`, `ScopeStays` (`ReloadProofs`): `Follows` says of a scan that it has
  taken what is listed of the directories behind it, which it does as long as
  nothing has changed since it began (`ScanKept`). `CallKept` says of a call of
  `skill_create` that was told it may write that it still may while nothing has
  changed (first that the name is free, then that there is room), and that every scan since its write sees what it wrote when no other was
  under way. `WriteListed` is what a write does to the list: it adds a name, or
  replaces one in its place, and takes no other out, since the limit counts names;
  `RootsKept` and `FreeWhereItIsPut` that this is so too where both roots are one
  directory.
* `MemoryStaysBounded` (`ReloadProofs`): a call writes what it found room for in a
  table that may have changed since. `TotalsKept` therefore speaks of every table
  that what is there and what is about to be written can make, each id once: none
  exceeds the bound. A call adds to these only such as hold its own fact, which are
  what it counted, that fact, and one of each other writer. Sums over a set are the
  recursive function of the library; that they exist, split and grow is shown by
  smallest counterexamples (`SumExists`, `TotalOfBoth`, `TotalAtMost`).
* `ShellCallsHold` (`ReloadProofs`): `CallInv` says what of the shell, its children
  and the error there is at each step of a call, so that an output with no error is
  one after which nothing was killed. `OverdueCallsMayStep` is `CallGoesOn` without
  `ENABLED`: the guard of some step of the call holds once its context is over.
* `SearchesAreComplete` (`ReloadProofs`): `NothingPassed` says that what every
  moment of the walk agreed on is found already or lies below an entry that is to be
  visited, a directory that could not be read apart; `HeldHas` that what is found
  was there at some moment; and `OnceOnly` that no directory to be visited lies above
  another entry or above what was found. `MatchIsPlain`
  is why what the walk finds is what was asked for: `pathMatch`, a
  recursive function over the segments of the pattern, names what the plain sense of
  the pattern does, for any pattern and path.
* `RepliesStay` (`LocalProofs`): the invariant speaks of one text, so the proof is
  about the functions that cut it, each defined by recursion over positions. That
  they exist is `RecursionExists`; what holds of them at every position is shown by
  a least counterexample. The chunks of a text are not empty and no longer than the
  limit less the reserve, and the places they can end at, one behind the other or
  behind a newline, reach the end of the text, so nothing is lost. What a chunk is
  made of by its fences is bounded by the reserve: a line that opens a
  block and is longer than `MaxFence` is not repeated but replaced by backquotes, and
  the mark is counted. `FenceJoins` says that reading two texts
  joined by a newline is reading the second with what the first left open: so a part
  with its own fences around it leaves none open, and what was code in the answer is
  in a block in its part.
* The theorems of `LocalProofs` named `Local...` carry these to `MCLocal`.

Client (`TuiClientProofs`):

* `RunsAreAllowed`: the invariant follows a permission from the answer to the
  effect: a call that was sent, runs or has run is permitted, whether or not the
  loop that sent it still waits for it; a question on the screen is about a call
  nobody has decided on; and a call is decided on at most once, as each loop is at
  one call at a time. It is the interrupted turns and the delegated runs left
  behind that make this more than a check before the call.
* `ClientIsWellFormed`, `TranscriptIsTrue`: `ScreenInv` ties the screen to what runs.
  `ShapeInv` is the form of each piece of the state, `OneAtATime` that a turn or a
  compaction runs and not both, `RowsInv` where the rows of a turn lie, and
  `TranscriptInv` which entry of the transcript belongs to which call.

The assumptions on constants are `TurnsAssumption`, `FileAssumption`,
`ChatAssumption`, `DiscordAssumption`, `LoopAssumption`, `RpcAssumption` and
`LocalAssumption`: sets are subsets of what they should be, bounds are numbers, the
values that mark "none" are no members. The runs evaluate them. Where a module of
proofs has no module of a run to take them from, the theorem states what it uses
(`ConstantsFit`, `BoundsFit`, `KeysFit`, `UpdatesFit`, `LimitsFit`, `PagesFit`,
`NamesFit`, `FactsFit`, `SearchesFit`, `RepliesFit`), and `LocalProofs` discharges it.
`RepliesFit` asks of the constants of a reply what those of the code satisfy:
messages of at most 2000 characters, 64 of them reserved for a fence of at most 32 and
its newline, a newline and three backquotes, and the mark, which begins with two
newlines.

Only checked by TLC, on the instances above:

* all liveness (`TurnsEnd`, `WaiterLeaves`, `ReceiverHears`, `WatchEnds`,
  `DaemonEnds`, `WaitsEnd`, `InterruptEnds`): the installed provers do not reason
  about fairness;
* `CallGoesOn`, that a call of the shell over its deadline can go on: it says
  `ENABLED`, which they do not expand either, and it is an invariant of its own in
  `local` for that reason. `Shell` has no constants and finitely many states, so
  what TLC explores there is all there is; and that the guard of a step holds is
  proved (`OverdueCallsMayStep`).

## 6. Where code and documents disagree

With a run that shows it:

* `pairing_twice`: two approvals of one code that overlap register one
  certificate and hand out the other (`rpc/pairing.go`, `PairingApprove`).
* `reload_tools`: after a reload that fails in `Registry.Reload`, all new requests
  get tools of closed connections (`cli/serve.go`).
* `rpc_cancel`: two events that nobody takes, such as answers to a request already
  settled, stop the goroutine that reads the stream, and a cancel behind them is
  not read (`rpc/service.go`, `receiveChat`; `docs/ARCHITECTURE.md:754-755`).
* `tui_question`: a delegated run that outlives an interrupted turn leaves a
  question on the screen that swallows every key (`cli/tui/client.go`, `finish`).
* `tui_delegate`: `agent_call` is refused to and from agents with a native
  Anthropic provider, and for clients of a server (`core/subagent.go`).

Met while modelling, with no run of their own. The models behave as the code:

* Overlapping calls of the memory tool, each of which finds room, take the total
  past the limit (`docs/ARCHITECTURE.md:332-333`: it "rejects writes beyond a
  4096-character total"; `README.md:477`: "capped"). `MemoryBounded` says by
  how much.
* `/user add` makes a regular user of an admin, also of one who has just been told
  "You are the admin now." by a `/pair` that came between its two statements
  (`core/discord_user.go`, `DiscordUserAdd`).
* When completions outlast the five seconds of a shutdown, `server.Serve` returns
  an error, so a daemon that was stopped by a signal exits with a failure status;
  a gRPC server that had to cut chats short says nothing of it. No document
  promises either.
* `CompactNow` takes no gate, so two compactions may save in either order. One that
  read its history before another saved the summary it reads does not find the
  marker in it, folds all of its history in once more and moves the marker back:
  from then on messages that the summary covers are also sent verbatim. For one
  turn `docs/ARCHITECTURE.md:473-476` accepts that ("a duplicated turn is a cheaper
  failure"); by `:465` the marker is the newest message the summary covers, which is
  then no longer so. `EachMessageOnce` holds as long as no request was `overtaken`.
* A process without the gate can put an exchange inside another; the history is
  then replayed with two questions in a row.
* An approval that commits after the request expired registers the key
  (`docs/ARCHITECTURE.md:785-786` says a code expires after five minutes).
* `/agent` can be lost to a turn that looked the agent up before it
  (`README.md:911`: it "switches it").
* A stranger's mention is answered (`README.md:858-860`: "ignored without a
  reply"; `message.go` calls `accessDenied` first).
* File revisions are shared by all conversations of a process, and a write by
  another program between the check and the rename is overwritten
  (`README.md:449-451`).
* A delegation after a reload uses the new configuration (`README.md:760`:
  requests "finish against the configuration they started with"):
  `DelegationsCurrent` says which one.
* `updateStage` drops the error of `Close`, so the checksum is that of the bytes
  read and not of those written (`README.md:121-122`); a failed `Chmod` leaves the
  staged file (`docs/ARCHITECTURE.md:658-659`); the notice may offer an older
  release from the cache (`README.md:140`).
* An interrupt of a remote turn is shown as an error and the text so far is lost
  (`cli/tui/client.go:474`).
* Of two processes that start on a new database at once, one fails with a
  uniqueness error on `migrations`; nothing is applied twice (`MigratedOnce`).
* `ProviderInit`, `AgentInit` and `BotInit` write an empty file after finding
  none, without looking again: a file another process has written in between is
  emptied. Overlapping commands lose each other's changes in the same way, so an
  agent can be left without its provider, or a conversation without its agent;
  `ReferencesHold` is stated for commands that do not overlap.
* `mininaru agent update <name> --model m` fails: `agentUpdateExecute` hands the
  argument to `AgentUpdateFields`, which compares ids only (`cli/preference.go:128`:
  "Update an agent by id or name.").

* A shell that ends by itself within the two seconds before its deadline, with a
  child that keeps the pipe, is answered as timed out while nobody kills its group
  (`README.md:465-468`: "a backgrounded child cannot outlive the call");
  `GroupIsKilled` is stated for shells that were killed.
* A skill whose directory has another name than it declares is found under the
  declared one, so `skill_create` with the name of the directory replaces it
  without `overwrite`, in any scope the directory is in (`README.md:606-609`:
  needs `overwrite`, "only within the same scope"). A scan that began before a
  creation and ends after it takes the new skill out of the catalog again, after
  the creator was told it is loaded.
* In the home directory without `NARU_PATH` both roots are one directory
  (`docs/ARCHITECTURE.md:150-152`). A skill created there in the scope `user` is
  reported so, is found as one of the project, and can no longer be replaced in the
  scope it was created in.
* `grep` reads what is behind a link that has been put in the place of a file since
  the directory was read (`README.md:457-458`: "never follow a symlink out of it");
  a directory that cannot be read is passed over, and the answer does not say so.
* A start of the server that is killed after `ca.crt` and before `ca.key`, or
  between its own certificate and key, leaves files that no later start can use
  or mends, until `pki/` is removed. Two first starts at once can leave a chain
  that does not hold; two pairings saved at once, in a list each had read before,
  leave one record out.
* The limit of waiting pairing requests is passed by as many as were between the
  count and the insert, and a window of the rate limit begins with a request, so
  that nearly twice the limit fits into a window's length around its end.
* `client.json` is saved whole: the chat client, or a command that asks first,
  undoes what others chose since it started, a pairing at a first start included.
* `web provider searxng` before `web endpoint` is refused, in this order in
  `README.md:514-515`. A `web.json` that is no JSON stops a program that starts
  (`README.md:528-530`: "falls back to DuckDuckGo"); only a daemon that is running
  falls back. While the daemon loads the file, searches use the default. A switch
  of provider keeps the endpoint of the last.
* A line of a reply cut in two may have its second half taken for a fence, or the
  halves of a fence for none; `CodeStaysCode` is stated for replies cut at
  newlines.

## 7. What is not modelled

* Not yet (section 8): user-installed Discord commands, attachments, the unary
  calls of the service and the client's side of them, the counting of usage.
* Data with no state of its own: the translation between the OpenAI and Anthropic
  wire formats, schemas of tools, HTML conversion, rendering, argument parsing,
  printing, logging. What a front matter says is a choice in `Skills`; which bytes
  are text, and lines longer than a limit, are left out of `FileSearch`, as is a base
  that is no directory. The text of a message in the client and the row of its call
  are one step in `TuiClient`, which reads no rows while it runs.
* Stateless requests: fetching a web page and the check of its address. The
  variant of the shell tool for systems without process groups.
* External: SQLite (a statement or a transaction is atomic, a foreign key
  cascades), systemd, GitHub, the Discord gateway (delivers at least once, in any
  order), MCP servers, models (any answer, any error, or none).
* Generated protocol code and developer scripts.

## 8. The plan

1. Done: sessions, turns, compaction; RPC and pairing; the daemon and its
   servers; Discord turns, approvals and users; file tools, memory, update,
   configuration; reload; the client and its tools; skills, keys, the intake of
   pairing, shell, searches, preferences, web search, replies; the theorems of
   section 5.
2. More of the system, in this order: the unary calls of the service with the
   remote backend; user-installed Discord commands; attachments.
3. Proofs: every safety property of a passing run but `CallGoesOn` is proved, the
   refinements of `Conversation`, `TurnQueue` and `RemoteTurn` among them.
   What is added under 2 gets its theorems with it.
