----------------------------- MODULE FileGuard -----------------------------
(***************************************************************************)
(* The file tools' guard against writing over what nobody has read:        *)
(* file_read, file_write and file_edit (modules/file.go).                  *)
(*                                                                         *)
(* A process remembers for each path the hash of the content last read or  *)
(* written through the tools, one map for all its conversations.  A read   *)
(* takes the content first and the mutex after it; a write holds the mutex *)
(* from its check to its rename.  Other programs, editors and other        *)
(* mininaru processes among them, write the file without any of this.      *)
(*                                                                         *)
(* Paths do not interact, so there is one file.  Contents are numbered in  *)
(* the order in which they were first written; 0 is no file.               *)
(***************************************************************************)
EXTENDS Naturals

CONSTANTS
    Caller,         \* conversations that call the tools
    None,           \* no caller
    MaxContents,    \* bound: contents ever written
    MaxOutside,     \* bound: writes by other programs
    MaxRestarts     \* bound: restarts of the process

ASSUME FileAssumption ==
    /\ None \notin Caller
    /\ MaxContents \in Nat \ {0} /\ MaxOutside \in Nat /\ MaxRestarts \in Nat

VARIABLES
    disk,           \* the content of the file
    foreign,        \* another program wrote it last
    revision,       \* fileRevisions[path]; 0 when the map has no entry
    mutex,          \* who holds fileRevisionMu for a write
    pc,             \* where a caller is
    before,         \* the content a caller has taken from the disk
    seen,           \* contents a conversation was shown or wrote itself
    written,        \* writes by the tools: [content, by, checked, replaced, foreign]
    contents,       \* contents written so far
    outside,
    restarts

vars == <<disk, foreign, revision, mutex, pc, before, seen, written, contents,
          outside, restarts>>

Content == 0 .. MaxContents
Write == [content : Content, by : Caller, checked : Content, replaced : Content,
          foreign : BOOLEAN]

TypeOK ==
    /\ disk \in Content
    /\ foreign \in BOOLEAN
    /\ revision \in Content
    /\ mutex \in Caller \cup {None}
    /\ pc \in [Caller -> {"idle", "reading", "writing"}]
    /\ \A c \in Caller : pc[c] = "writing" <=> mutex = c
    /\ before \in [Caller -> Content]
    /\ seen \in [Caller -> SUBSET Content]
    /\ written \subseteq Write
    /\ contents \in Content
    /\ outside \in 0 .. MaxOutside
    /\ restarts \in 0 .. MaxRestarts

Init ==
    /\ disk \in 0 .. 1
    /\ contents = disk
    /\ foreign = TRUE
    /\ revision = 0
    /\ mutex = None
    /\ pc = [c \in Caller |-> "idle"]
    /\ before = [c \in Caller |-> 0]
    /\ seen = [c \in Caller |-> {}]
    /\ written = {}
    /\ outside = 0
    /\ restarts = 0

Goto(c, to) == pc' = [pc EXCEPT ![c] = to]

-----------------------------------------------------------------------------
(* file_read *)

\* readTextFile; the mutex is not held.
Read(c) ==
    /\ pc[c] = "idle" /\ disk # 0
    /\ before' = [before EXCEPT ![c] = disk]
    /\ Goto(c, "reading")
    /\ UNCHANGED <<disk, foreign, revision, mutex, seen, written, contents, outside, restarts>>

\* rememberFileRevision, and the content, or a part of it, is the result.
Remember(c) ==
    /\ pc[c] = "reading" /\ mutex = None
    /\ revision' = before[c]
    /\ seen' = [seen EXCEPT ![c] = @ \cup {before[c]}]
    /\ Goto(c, "idle")
    /\ UNCHANGED <<disk, foreign, mutex, before, written, contents, outside, restarts>>

-----------------------------------------------------------------------------
(* file_write and file_edit *)

\* Broken: a path that is not in the map passes.
PassesUnread(content) == revision = 0 \/ revision = content

\* requireFileRevision
Passes(content) == revision # 0 /\ revision = content

\* Broken: the mutex is taken only around the accesses to the map.
CheckUnlocked(c) ==
    /\ pc[c] = "idle"
    /\ disk = 0 \/ Passes(disk)
    /\ before' = [before EXCEPT ![c] = disk]
    /\ mutex' = c
    /\ Goto(c, "writing")
    /\ UNCHANGED <<disk, foreign, revision, seen, written, contents, outside, restarts>>

\* The mutex is taken, the content read and compared.  A file that is not
\* there is created by file_write without a check and refused by file_edit.
Check(c) ==
    /\ pc[c] = "idle" /\ mutex = None
    /\ disk = 0 \/ Passes(disk)
    /\ before' = [before EXCEPT ![c] = disk]
    /\ mutex' = c
    /\ Goto(c, "writing")
    /\ UNCHANGED <<disk, foreign, revision, seen, written, contents, outside, restarts>>

\* WriteFileAtomic renames a new content into place and the map follows.
Replace(c) ==
    /\ pc[c] = "writing"
    /\ contents < MaxContents
    /\ contents' = contents + 1
    /\ disk' = contents + 1
    /\ revision' = contents + 1
    /\ seen' = [seen EXCEPT ![c] = @ \cup {contents + 1}]
    /\ written' = written \cup
          {[content |-> contents + 1, by |-> c,
            checked |-> before[c], replaced |-> disk, foreign |-> foreign]}
    /\ foreign' = FALSE
    /\ mutex' = None
    /\ Goto(c, "idle")
    /\ UNCHANGED <<before, outside, restarts>>

\* The text to edit is not there exactly once, or the write fails.
Abandon(c) ==
    /\ pc[c] = "writing"
    /\ mutex' = None
    /\ Goto(c, "idle")
    /\ UNCHANGED <<disk, foreign, revision, before, seen, written, contents, outside, restarts>>

-----------------------------------------------------------------------------
(* Everything else *)

\* Another program writes something new, or something the file once held.
OutsideWrite ==
    /\ outside < MaxOutside
    /\ outside' = outside + 1
    /\ foreign' = TRUE
    /\ \/ /\ contents < MaxContents
          /\ contents' = contents + 1
          /\ disk' = contents + 1
       \/ /\ disk' \in 0 .. contents
          /\ UNCHANGED contents
    /\ UNCHANGED <<revision, mutex, pc, before, seen, written, restarts>>

\* The map lives in memory, and so do the turns.
Restart ==
    /\ restarts < MaxRestarts
    /\ restarts' = restarts + 1
    /\ revision' = 0
    /\ mutex' = None
    /\ pc' = [c \in Caller |-> "idle"]
    /\ UNCHANGED <<disk, foreign, before, seen, written, contents, outside>>

Next ==
    \/ OutsideWrite \/ Restart
    \/ \E c \in Caller :
          Read(c) \/ Remember(c) \/ Check(c) \/ Replace(c) \/ Abandon(c)

Spec == Init /\ [][Next]_vars

-----------------------------------------------------------------------------
(* Properties *)

\* What a write of the tools replaced had been shown to some conversation or
\* written by one, so that no content made by another program goes unseen by
\* everybody; a read that remembers late, and a restart, do not change that.
ReplacedWasSeen ==
    \A w \in written :
        w.checked # 0 => \E c \in Caller : w.checked \in seen[c]

\* Writes of the tools do not lose each other: when a write replaces something
\* else than what it checked, it was another program that put it there
\* (fileRevisionMu, held from the check to the rename).
NoLostUpdate ==
    \A w \in written : w.replaced # w.checked => w.foreign
=============================================================================
