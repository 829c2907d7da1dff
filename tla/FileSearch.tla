----------------------------- MODULE FileSearch -----------------------------
(***************************************************************************)
(* The search tools glob and grep (modules/search.go): one walk through    *)
(* the tree below the root, while other tools and programs change it.      *)
(*                                                                         *)
(* The walk reads a directory when it enters it and a file when it comes   *)
(* to it, so that its answer is about no single moment.  It goes through a *)
(* directory in the order of the names; here in any order, since nothing   *)
(* below depends on it.  A file is the number of its lines that match the  *)
(* expression of grep, none of them when it is binary, too large or cannot *)
(* be read; of a link, the number is that of the file it leads to.         *)
(***************************************************************************)
EXTENDS Naturals, Sequences, FiniteSets, SequencesExt

CONSTANTS
    Path,           \* the paths of files, as sequences of names
    Skipped,        \* the names searchSkip passes over
    Pattern,        \* the patterns asked for, as sequences of segments
    MaxHits,        \* bound: lines of a file that match
    Limits,         \* the values of max_results asked for
    MaxChanges      \* bound: changes of the tree during a walk

VARIABLES
    tool,           \* "glob" or "grep"
    pattern,        \* the pattern, of paths in both
    limit,          \* max_results
    tree,           \* tree[path]: the file there, or none, now
    always,         \* what every moment agreed on, of what can be read
    ever,           \* what some moment of the walk held
    todo,           \* entries read and not visited yet
    found,          \* files, or lines of files
    pc,
    changes

vars == <<tool, pattern, limit, tree, always, ever, todo, found, pc, changes>>

Absent == [kind |-> "none", hits |-> 0]
File == [kind : {"file"}, hits : 0 .. MaxHits]
Link == [kind |-> "link", hits |-> MaxHits]

\* filepath.Match on one segment.
Fits(segment, name) == segment = "*" \/ segment = name

\* Broken: ** stands for one directory at least.
PathMatchSome(p, n) ==
    LET from[i \in 1 .. Len(p) + 1] ==
            IF i > Len(p) THEN {Len(n) + 1}
            ELSE IF p[i] = "**" THEN {j \in 1 .. Len(n) + 1 : \E k \in from[i + 1] : j < k}
            ELSE {j \in 1 .. Len(n) : Fits(p[i], n[j]) /\ j + 1 \in from[i + 1]}
    IN  1 \in from[1]

\* pathMatch; from[i] has the names from which on segmentMatch matches the
\* segments from the i-th on.
PathMatch(p, n) ==
    LET from[i \in 1 .. Len(p) + 1] ==
            IF i > Len(p) THEN {Len(n) + 1}
            ELSE IF p[i] = "**" THEN {j \in 1 .. Len(n) + 1 : \E k \in from[i + 1] : j <= k}
            ELSE {j \in 1 .. Len(n) : Fits(p[i], n[j]) /\ j + 1 \in from[i + 1]}
    IN  1 \in from[1]

\* searchSkip on a name of the path hides all that is below it.
Hidden(path) == \E i \in DOMAIN path : path[i] \in Skipped

\* The entry of a directory through which a path goes, and what kind it has.
EntryOf(path, depth) ==
    [path |-> SubSeq(path, 1, depth + 1),
     kind |-> IF Len(path) = depth + 1 THEN tree[path].kind ELSE "dir"]

\* os.ReadDir
ReadDir(dir) ==
    {EntryOf(p, Len(dir)) : p \in {q \in Path : tree[q] # Absent /\ IsStrictPrefix(dir, q)}}

Results(path) == {[path |-> path, line |-> i] : i \in 1 .. tree[path].hits}

\* The plain sense of a pattern: ** stands for any number of names, another
\* segment for one name that fits it.
InPlainSense(p, n) ==
    \E cut \in [0 .. Len(p) -> 0 .. Len(n)] :
        /\ cut[0] = 0 /\ cut[Len(p)] = Len(n)
        /\ \A i \in 1 .. Len(p) :
              IF p[i] = "**" THEN cut[i - 1] <= cut[i]
              ELSE cut[i] = cut[i - 1] + 1 /\ Fits(p[i], n[cut[i]])

Shown(p) == ~Hidden(p) /\ InPlainSense(pattern, p)

\* A path as a result.
AtPath(p) == [path |-> p, line |-> 0]

\* The paths shown that are files,
Files(t) == {AtPath(p) : p \in {q \in Path : t[q].kind = "file" /\ Shown(q)}}

\* and the lines that match behind any path shown, a link followed.
Lines(t) == {r \in [path : {p \in Path : Shown(p)}, line : 1 .. MaxHits] : r.line <= t[r.path].hits}

\* What a walk that was over at once should answer, without a limit.
Answer(t) ==
    IF tool = "glob" THEN Files(t) ELSE {r \in Lines(t) : t[r.path].kind = "file"}

\* What there is at one moment.
Held(t) == Files(t) \cup (IF tool = "glob" THEN {} ELSE Lines(t))

TypeOK ==
    /\ limit \in Limits
    /\ tree \in [Path -> {Absent, Link} \cup File]
    /\ found \subseteq [path : Path, line : 0 .. MaxHits]
    /\ pc \in {"walking", "done"}
    /\ changes \in 0 .. MaxChanges

Init ==
    /\ tool \in {"glob", "grep"}
    /\ pattern \in Pattern
    /\ limit \in Limits
    /\ tree \in [Path -> {Absent, Link, [kind |-> "file", hits |-> MaxHits]}]
    /\ always = Answer(tree)
    /\ ever = Held(tree)
    /\ todo = ReadDir(<<>>)
    /\ found = {}
    /\ pc = "walking"
    /\ changes = 0

-----------------------------------------------------------------------------

Full == Cardinality(found) >= limit

\* searchWalk: names passed over, and what is no regular file, are left out.
Visited(e) == e.kind = "file" /\ Last(e.path) \notin Skipped

Entered(e) == e.kind = "dir" /\ Last(e.path) \notin Skipped

Enter(e) ==
    /\ Entered(e)
    /\ todo' = (todo \ {e}) \cup ReadDir(e.path)
    /\ UNCHANGED <<always, found, pc>>

\* A directory that cannot be read is passed over without a word.
Unreadable(e) ==
    /\ Entered(e)
    /\ todo' = todo \ {e}
    /\ always' = {r \in always : ~IsStrictPrefix(e.path, r.path)}
    /\ UNCHANGED <<found, pc>>

Pass(e) ==
    /\ ~Entered(e) /\ ~Visited(e)
    /\ todo' = todo \ {e}
    /\ UNCHANGED <<always, found, pc>>

\* grepFile reads what is at the path now, a link followed, and stops at the
\* budget.
GrepFile(path, budget) == {r \in Results(path) : r.line <= budget}

\* The visit of a file in which there is `more`; the limit ends the walk.
Visit(e, more) ==
    /\ Visited(e)
    /\ found' = IF PathMatch(pattern, e.path) THEN found \cup more ELSE found
    /\ todo' = IF Cardinality(found') >= limit THEN {} ELSE todo \ {e}
    /\ UNCHANGED <<always, pc>>

Glob(e) == tool = "glob" /\ Visit(e, {AtPath(e.path)})

Grep(e) == tool = "grep" /\ Visit(e, GrepFile(e.path, limit - Cardinality(found)))

Walk ==
    /\ \E e \in todo : Enter(e) \/ Unreadable(e) \/ Pass(e) \/ Glob(e) \/ Grep(e)
    /\ UNCHANGED <<tool, pattern, limit, tree, ever, changes>>

Done ==
    /\ pc = "walking" /\ todo = {}
    /\ pc' = "done"
    /\ UNCHANGED <<tool, pattern, limit, tree, always, ever, todo, found, changes>>

\* Another tool or program writes or removes a file, or puts a link there.
Change ==
    /\ pc = "walking" /\ changes < MaxChanges
    /\ \E p \in Path, f \in {Absent, Link} \cup File :
          tree[p] # f /\ tree' = [tree EXCEPT ![p] = f]
    /\ always' = always \cap Answer(tree')
    /\ ever' = ever \cup Held(tree')
    /\ changes' = changes + 1
    /\ UNCHANGED <<tool, pattern, limit, todo, found, pc>>

Next == Walk \/ Done \/ Change

Spec == Init /\ [][Next]_vars

-----------------------------------------------------------------------------
(* Properties *)

(***************************************************************************)
(* An answer not marked as cut short is complete: what the pattern, taken  *)
(* in its plain sense, names all through the walk is in it, as far as the  *)
(* directories above can be read.  Nothing is in an answer that was not    *)
(* there at some moment, that searchSkip hides, or whose path was never a  *)
(* file of its own: a link that is there from the first is not followed.   *)
(* No answer is longer than was asked for.                                 *)
(***************************************************************************)
AnswerComplete ==
    /\ Cardinality(found) <= limit
    /\ \A r \in found : r \in ever /\ AtPath(r.path) \in ever
    /\ pc = "done" /\ ~Full => always \subseteq found

SearchInv == TypeOK /\ AnswerComplete

=============================================================================
