----------------------------- MODULE Preferences -----------------------------
(***************************************************************************)
(* client.json (config/client.go) and the programs that keep it: each      *)
(* reads it once when it starts, works on a copy of the whole, and writes  *)
(* that copy when one of the settings is changed.  The chat client stays   *)
(* and may do so many times; the commands thinking, tools, context, pair   *)
(* and setup do it once.                                                   *)
(*                                                                         *)
(* Settings that are changed the same way are modelled once: the level     *)
(* stands also for the shown stream, the tools also for compaction, the    *)
(* server for the address and the mode: whether a server is used.          *)
(***************************************************************************)
EXTENDS Naturals, FiniteSets

CONSTANTS
    Program,        \* whoever reads client.json
    MaxWrites       \* bound: how often the file is written

VARIABLES
    kept,           \* client.json
    writes,         \* how often it has been written
    running,        \* what each program is doing
    mine,           \* the copy each works on: config.Client
    changed,        \* the settings each has changed and not written
    older,          \* the settings chosen by others since each read the file
    wanted,         \* each setting as somebody last chose it
    undone          \* the settings written over with an older copy since

vars == <<kept, writes, running, mine, changed, older, wanted, undone>>

Level == {"off", "high"}
Field == {"level", "tools", "server"}
Settings == [level : Level \cup {"bad"}, tools : BOOLEAN, server : {"none", "paired"}]
defaultClient == [level |-> "off", tools |-> TRUE, server |-> "none"]

Missing == [level |-> "missing", tools |-> FALSE, server |-> "none"]
Garbled == [Missing EXCEPT !.level = "garbled"]

\* Broken: the file is read but what is in it is not taken over.
AcceptsNothing(s) == defaultClient

\* ClientInit, of a file that it can read.
Accepted(s) == IF s.level \in Level THEN s ELSE [s EXCEPT !.level = defaultClient.level]

TypeOK ==
    /\ kept \in Settings \cup {Missing, Garbled}
    /\ running \in [Program -> {"no", "creating", "yes"}]
    /\ mine \in [Program -> Settings]
    /\ changed \in [Program -> SUBSET Field] /\ older \in [Program -> SUBSET Field]
    /\ wanted \in Settings
    /\ undone \subseteq Field

Init ==
    /\ kept \in {Missing, defaultClient}
    /\ writes = 0
    /\ running = [p \in Program |-> "no"]
    /\ mine = [p \in Program |-> defaultClient]
    /\ changed = [p \in Program |-> {}]
    /\ older = [p \in Program |-> {}]
    /\ wanted = defaultClient
    /\ undone = {}

-----------------------------------------------------------------------------

\* What each program that runs has not seen once somebody has chosen fs.
Unseen(fs) ==
    [q \in Program |-> IF running[q] = "no" THEN {} ELSE older[q] \cup fs]

\* A program is over, and its copy with it.
Leave(p) ==
    /\ running' = [running EXCEPT ![p] = "no"]
    /\ mine' = [mine EXCEPT ![p] = defaultClient]
    /\ changed' = [changed EXCEPT ![p] = {}]

\* It goes on with a copy in which fs are not written yet.
Stay(p, copy, fs) ==
    /\ running' = [running EXCEPT ![p] = "yes"]
    /\ mine' = [mine EXCEPT ![p] = copy]
    /\ changed' = [changed EXCEPT ![p] = fs]

\* WriteFileAtomic of a copy in which the program has changed fs.
Written(p, copy, fs) ==
    /\ writes < MaxWrites /\ writes' = writes + 1
    /\ kept' = copy
    /\ older' = [Unseen(fs) EXCEPT ![p] = {}]
    /\ wanted' = [f \in Field |-> IF f \in fs THEN copy[f] ELSE wanted[f]]
    /\ undone' = (undone \cup older[p]) \ fs

NotWritten == UNCHANGED <<kept, writes, older, wanted, undone>>

\* ClientInit finds the file.  With one that is no JSON nothing starts.
Start(p) ==
    /\ running[p] = "no" /\ kept \in Settings
    /\ Stay(p, Accepted(kept), {})
    /\ older' = [older EXCEPT ![p] = {}]
    /\ UNCHANGED <<kept, writes, wanted, undone>>

\* ClientInit finds no file, and writes one.
StartFirst(p) ==
    /\ running[p] = "no" /\ kept = Missing
    /\ running' = [running EXCEPT ![p] = "creating"]
    /\ UNCHANGED <<mine, changed>>
    /\ NotWritten

Create(p) ==
    /\ running[p] = "creating"
    /\ Stay(p, defaultClient, {})
    /\ Written(p, defaultClient, {})

\* The copy with the settings fs as they are in new, saved or not.
Copy(p, new, fs) == [f \in Field |-> IF f \in fs THEN new[f] ELSE mine[p][f]]

\* /thinking and Ctrl-T in the chat client, which keeps the change when
\* ClientSave fails and writes it the next time.
Thinking(p) ==
    /\ running[p] = "yes"
    /\ \E l \in Level :
          LET copy == Copy(p, [defaultClient EXCEPT !.level = l], {"level"})
              fs == changed[p] \cup {"level"}
          IN  \/ Written(p, copy, fs) /\ Stay(p, copy, {})
              \/ NotWritten /\ Stay(p, copy, fs)

\* A command that changes fs, saves them and is over; one that fails to save
\* has changed nothing.
Command(p, new, fs) ==
    /\ running[p] = "yes" /\ changed[p] = {}
    /\ Written(p, Copy(p, new, fs), fs)
    /\ Leave(p)

\* mininaru thinking
SetLevel(p) == \E l \in Level : Command(p, [defaultClient EXCEPT !.level = l], {"level"})

\* mininaru tools, and context.
Tools(p) == \E on \in BOOLEAN : Command(p, [defaultClient EXCEPT !.tools = on], {"tools"})

\* pairWithServer, once the server has approved.
Pair(p) == Command(p, [defaultClient EXCEPT !.server = "paired"], {"server"})

\* setupServer, which leaves the mode to setupPreferences to save: no server is
\* used from then on, whatever its address.
Setup(p) ==
    \E l \in Level, on \in BOOLEAN :
        Command(p, [level |-> l, tools |-> on, server |-> "none"], Field)

Quit(p) ==
    /\ running[p] = "yes"
    /\ Leave(p)
    /\ older' = [older EXCEPT ![p] = {}]
    /\ UNCHANGED <<kept, writes, wanted, undone>>

\* Somebody edits the file, or removes it.
EditByHand ==
    /\ writes < MaxWrites /\ writes' = writes + 1
    /\ \E s \in {[defaultClient EXCEPT !.level = "bad"], [defaultClient EXCEPT !.server = "paired"],
                 Missing, Garbled} :
          /\ kept' = s
          /\ wanted' = IF s \in Settings THEN Accepted(s) ELSE defaultClient
    /\ older' = Unseen(Field)
    /\ undone' = {}
    /\ UNCHANGED <<running, mine, changed>>

Next ==
    \/ \E p \in Program :
          \/ Start(p) \/ StartFirst(p) \/ Create(p)
          \/ Thinking(p) \/ SetLevel(p) \/ Tools(p) \/ Pair(p) \/ Setup(p) \/ Quit(p)
    \/ EditByHand

Spec == Init /\ [][Next]_vars

-----------------------------------------------------------------------------
(* Properties *)

(***************************************************************************)
(* A setting somebody chose is the one the next program starts with, until *)
(* a program writes that had read the file before the choice: such a one   *)
(* writes all of its older copy back.  Nobody runs with a level that there *)
(* is not.                                                                 *)
(***************************************************************************)
SettingsKept ==
    /\ kept \in Settings => \A f \in Field \ undone : Accepted(kept)[f] = wanted[f]
    /\ \A p \in Program : running[p] = "yes" => mine[p].level \in Level

PreferencesInv == TypeOK /\ SettingsKept

=============================================================================
