------------------------------- MODULE Memory -------------------------------
(***************************************************************************)
(* The memory tool (modules/memory.go): facts that all conversations of    *)
(* all processes share, in a table with unique contents and a limit on     *)
(* their total.  A call that writes sums up what is there in one statement *)
(* and writes in another.  The tool is offered to the admin's Discord      *)
(* turns and to local clients, whose calls overlap.                        *)
(***************************************************************************)
EXTENDS Naturals, FiniteSets, FiniteSetsExt

CONSTANTS
    Writer,         \* conversations that call the tool
    Fact,        \* what can be remembered
    Length,         \* the length of each
    Limit,          \* memoryMaxChars
    MaxIds          \* bound: entries ever added

VARIABLES
    memories,       \* the table: [id, content]
    ids,            \* ids given out
    write           \* what a call is about to write

vars == <<memories, ids, write>>

Id == 1 .. MaxIds
Entry == [id : Id, content : Fact]
NoWrite == [kind |-> "none"]

TypeOK ==
    /\ memories \subseteq Entry
    /\ ids \in 0 .. MaxIds
    /\ write \in [Writer -> {NoWrite} \cup [kind : {"add", "replace"}, entry : Entry]]

Init ==
    /\ memories = {}
    /\ ids = 0
    /\ write = [w \in Writer |-> NoWrite]

Total(entries) == MapThenSumSet(LAMBDA m : Length[m.content], entries)
Holds(entries, content) == \E m \in entries : m.content = content

-----------------------------------------------------------------------------

\* Broken: the sum is compared without what is to be added.
RoomWithoutIt(entries, content) == Total(entries) <= Limit

\* memoryUsage and the test that follows it.
Room(entries, content) == Total(entries) + Length[content] <= Limit

\* add, under an id of its own.
CheckAdd(w, content) ==
    /\ write[w] = NoWrite /\ ids < MaxIds
    /\ Room(memories, content)
    /\ ids' = ids + 1
    /\ write' = [write EXCEPT ![w] =
                    [kind |-> "add", entry |-> [id |-> ids + 1, content |-> content]]]
    /\ UNCHANGED memories

\* replace: the entry does not count, nor need it be there.
CheckReplace(w, id, content) ==
    /\ write[w] = NoWrite
    /\ Room({m \in memories : m.id # id}, content)
    /\ write' = [write EXCEPT ![w] =
                    [kind |-> "replace", entry |-> [id |-> id, content |-> content]]]
    /\ UNCHANGED <<memories, ids>>

\* INSERT OR IGNORE: a fact that is there already is no error.
Insert(w) ==
    /\ write[w].kind = "add"
    /\ memories' = memories \cup
          {e \in {write[w].entry} : ~Holds(memories, e.content)}
    /\ write' = [write EXCEPT ![w] = NoWrite]
    /\ UNCHANGED ids

\* UPDATE: an error when the entry is gone or another holds the fact.
Update(w) ==
    LET new == write[w].entry
        others == {m \in memories : m.id # new.id}
    IN  /\ write[w].kind = "replace"
        /\ memories' = IF others = memories \/ Holds(others, new.content)
                       THEN memories ELSE others \cup {new}
        /\ write' = [write EXCEPT ![w] = NoWrite]
        /\ UNCHANGED ids

\* The process is killed between the two statements.
Killed(w) ==
    /\ write[w] # NoWrite
    /\ write' = [write EXCEPT ![w] = NoWrite]
    /\ UNCHANGED <<memories, ids>>

Remove(id) ==
    /\ \E m \in memories : m.id = id
    /\ memories' = {m \in memories : m.id # id}
    /\ UNCHANGED <<ids, write>>

Next ==
    \/ \E w \in Writer :
          \/ Insert(w) \/ Update(w) \/ Killed(w)
          \/ \E content \in Fact :
                CheckAdd(w, content) \/ \E id \in 1 .. ids : CheckReplace(w, id, content)
    \/ \E id \in 1 .. ids : Remove(id)

Spec == Init /\ [][Next]_vars

-----------------------------------------------------------------------------
(* Properties *)

Longest == Max({Length[content] : content \in Fact})

\* A fact is there once.  The total passes the limit by no more than what the
\* other writers of the moment may have checked, so it stays within it
\* (docs/ARCHITECTURE.md:332-333) as long as calls do not overlap.
MemoryBounded ==
    /\ \A m, n \in memories : m.id = n.id \/ m.content = n.content => m = n
    /\ Total(memories) <= Limit + (Cardinality(Writer) - 1) * Longest

=============================================================================
