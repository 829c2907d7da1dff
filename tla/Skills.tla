------------------------------- MODULE Skills -------------------------------
(***************************************************************************)
(* The skills: bundles on disk and the catalog read from them              *)
(* (modules/skill.go, skillcreate.go, skilltool.go, core/skilluse.go).     *)
(*                                                                         *)
(* A scan reads the two roots bundle by bundle without a lock and installs *)
(* what it found at the end.  skill_create looks at the catalog, writes a  *)
(* bundle and scans; a SIGHUP scans as well; people edit the roots by      *)
(* hand.  Conversations create skills at the same time, so scans and       *)
(* writes overlap.                                                         *)
(*                                                                         *)
(* Directories and skills are named by numbers, in the order of the names. *)
(* A text is known by who wrote it.                                        *)
(***************************************************************************)
EXTENDS Naturals, FiniteSets

CONSTANTS
    Creator,        \* calls of skill_create
    Names,          \* how many names there are
    Limits,         \* the values of maxSkills looked at
    MaxActs         \* bound: calls, reloads and edits by hand, of all together

VARIABLES
    limit,          \* maxSkills
    oneRoot,        \* the two roots are one directory, as in the home directory
    disk,           \* disk[root][dir]: the bundle, if it can be read
    skills,         \* the catalog in memory
    scan,           \* the scan each process is in
    create,         \* the call of skill_create each creator is in
    use,            \* a call of the skill tool and what was recorded of it
    writes,         \* changes of the disk so far, who made the last
    basis,          \* writes when the scan behind the catalog began
    acts            \* calls, reloads and edits so far

vars == <<limit, oneRoot, disk, skills, scan, create, use, writes, basis, acts>>

Name == 1 .. Names
Root == {"project", "user"}
Reloader == "reload"
Scanner == Creator \cup {Reloader}

NoBundle == [kind |-> "none"]
Place(root) == IF oneRoot THEN "project" ELSE root
Bundle(name, text) == [kind |-> "skill", name |-> name, text |-> text]
Skill(root, dir, b) == [name |-> b.name, text |-> b.text, root |-> root, dir |-> dir]

Texts == Creator \cup {"hand"}
AnyBundle == {Bundle(n, t) : n \in Name, t \in Texts}
AnySkill == {Skill(r, d, b) : r \in Root, d \in Name, b \in AnyBundle}

NoScan == [root |-> "none"]
NoCreate == [pc |-> "idle"]
Failed == [pc |-> "failed"]
NoUse == [pc |-> "none"]
Unused == [pc |-> "off"]

\* The catalog a scan of these roots comes to: of each name the first bundle
\* in the order of the directories, the project before the user, and no more
\* than the limit.
Rank(s) == (IF s.root = "project" THEN 0 ELSE Names) + s.dir

Loadable(on) ==
    {Skill(x[1], x[2], on[x[1]][x[2]]) : x \in {y \in Root \X Name : on[y[1]][y[2]].kind = "skill"}}

FirstOf(found) == {s \in found : \A t \in found : t.name = s.name => Rank(s) <= Rank(t)}

Before(s, found) == {t \in found : Rank(t) < Rank(s)}

Listed(on) ==
    LET first == FirstOf(Loadable(on))
    IN  {s \in first : Cardinality(Before(s, first)) < limit}

-----------------------------------------------------------------------------

Finds(n) == {s \in skills : s.name = n}

TypeOK ==
    /\ limit \in Limits /\ oneRoot \in BOOLEAN
    /\ disk \in [Root -> [Name -> {NoBundle} \cup AnyBundle]]
    /\ skills \subseteq AnySkill
    /\ scan \in [Scanner -> {NoScan} \cup
          [root : Root, left : SUBSET Name, accepted : SUBSET AnySkill, began : Nat]]
    /\ create \in [Creator -> {NoCreate, Failed} \cup
          [pc : {"absent", "checked", "scanning", "scanned", "loaded"}, name : Name, root : Root,
           overwrite : BOOLEAN, basis : Nat, clean : BOOLEAN]]
    /\ acts \in 0 .. MaxActs

\* The directories of a root that hold something.
Entries(on, r) == {d \in Name : on[r][d] # NoBundle}

HandMade == {NoBundle} \cup {Bundle(n, "hand") : n \in Name}

\* Two bundles at most, made by hand, in directories of their own names or not.
\* The conversation that uses a skill is looked at apart from those that create
\* one.
Init ==
    /\ limit \in Limits /\ oneRoot \in BOOLEAN
    /\ disk \in {d \in [Root -> [Name -> HandMade]] :
                   /\ Cardinality({x \in Root \X Name : d[x[1]][x[2]] # NoBundle}) <= 2
                   /\ \A r \in Root : r # Place(r) => Entries(d, r) = {}}
    /\ skills = Listed(disk)
    /\ scan = [p \in Scanner |-> NoScan]
    /\ create = [c \in Creator |-> NoCreate]
    /\ use \in {NoUse, Unused}
    /\ writes = 0
    /\ basis = 0
    /\ acts = 0

-----------------------------------------------------------------------------
(* SkillInitAt *)

\* A scan as it begins, when there have been so many changes.
NewScan(on, changes) ==
    [root |-> "project", left |-> Entries(on, "project"), accepted |-> {}, began |-> changes]

\* Broken: a bundle of a name already seen is taken as well.
AcceptsSeen(accepted, s) == Cardinality(accepted) < limit

\* A name is taken once, and the root is left at the limit.
Accepts(accepted, s) ==
    /\ \A t \in accepted : t.name # s.name
    /\ Cardinality(accepted) < limit

\* skillScan: one bundle of the root, in the order in which ReadDir sorts them;
\* skillParse refuses what it cannot read, and so does Stat when the bundle is
\* gone by now.
Visit(p) ==
    /\ scan[p] # NoScan
    /\ \E d \in scan[p].left :
          LET b == disk[scan[p].root][d]
              s == Skill(scan[p].root, d, b)
          IN  /\ \A e \in scan[p].left : d <= e
              /\ scan' = [scan EXCEPT
                    ![p].left = @ \ {d},
                    ![p].accepted = IF b.kind = "skill" /\ Accepts(@, s) THEN @ \cup {s} ELSE @]
    /\ UNCHANGED <<limit, oneRoot, disk, skills, create, use, writes, basis, acts>>

\* skillRoots: the user's root comes second; nothing is in it when the two
\* are one.
NextRoot(p) ==
    /\ scan[p] # NoScan /\ scan[p].root = "project" /\ scan[p].left = {}
    /\ scan' = [scan EXCEPT ![p].root = "user", ![p].left = Entries(disk, "user")]
    /\ UNCHANGED <<limit, oneRoot, disk, skills, create, use, writes, basis, acts>>

\* The catalog is replaced as a whole.
Install(p) ==
    /\ scan[p] # NoScan /\ scan[p].root = "user" /\ scan[p].left = {}
    /\ skills' = scan[p].accepted
    /\ basis' = scan[p].began
    /\ scan' = [scan EXCEPT ![p] = NoScan]
    /\ create' = IF p = Reloader THEN create ELSE [create EXCEPT ![p].pc = "scanned"]
    /\ UNCHANGED <<limit, oneRoot, disk, use, writes, acts>>

-----------------------------------------------------------------------------
(* SkillCreateResult *)

\* Broken: a skill of the other scope can be overwritten too.
MayReplaceAnyScope(n, root, overwrite) == Finds(n) = {} \/ overwrite

\* skillCreateConflict, of the skill the catalog has under the name.
MayReplace(n, root, overwrite) == \A s \in Finds(n) : overwrite /\ s.root = root

\* The call has valid arguments, and the catalog does not object to its name.
Check(c) ==
    \E n \in Name, root \in Root, overwrite \in BOOLEAN :
        /\ acts < MaxActs
        /\ create[c] = NoCreate /\ use = Unused
        /\ MayReplace(n, root, overwrite)
        /\ create' = [create EXCEPT ![c] =
              [pc |-> IF Finds(n) = {} THEN "absent" ELSE "checked",
               name |-> n, root |-> root, overwrite |-> overwrite,
               basis |-> writes, clean |-> skills = Listed(disk)]]
        /\ acts' = acts + 1
        /\ UNCHANGED <<limit, oneRoot, disk, skills, scan, use, writes, basis>>

\* It asks the catalog again for how many there are.
Count(c) ==
    /\ create[c].pc = "absent"
    /\ create' = IF Cardinality(skills) < limit
                 THEN [create EXCEPT ![c].pc = "checked", ![c].clean = @ /\ skills = Listed(disk)]
                 ELSE [create EXCEPT ![c] = Failed]
    /\ UNCHANGED <<limit, oneRoot, disk, skills, scan, use, writes, basis, acts>>

\* skillWrite puts the document into the directory of that name, whatever
\* skill is there, and SkillInit begins.
Write(c) ==
    /\ create[c].pc = "checked"
    /\ disk' = [disk EXCEPT ![Place(create[c].root)][create[c].name] = Bundle(create[c].name, c)]
    /\ create' = [create EXCEPT ![c].pc = "scanning",
                                  ![c].clean = @ /\ \A p \in Scanner : scan[p] = NoScan]
    /\ writes' = writes + 1
    /\ scan' = [scan EXCEPT ![c] = NewScan(disk', writes + 1)]
    /\ UNCHANGED <<limit, oneRoot, skills, use, basis, acts>>

\* The directory or the file could not be written.
WriteFails(c) ==
    /\ create[c].pc = "checked"
    /\ create' = [create EXCEPT ![c] = Failed]
    /\ UNCHANGED <<limit, oneRoot, disk, skills, scan, use, writes, basis, acts>>

\* After its scan the call looks for its name.
Find(c) ==
    /\ create[c].pc = "scanned"
    /\ create' = IF Finds(create[c].name) # {}
                 THEN [create EXCEPT ![c].pc = "loaded"] ELSE [create EXCEPT ![c] = Failed]
    /\ UNCHANGED <<limit, oneRoot, disk, skills, scan, use, writes, basis, acts>>

-----------------------------------------------------------------------------
(* Reloads, people and the skill tool *)

\* SkillReload, on a SIGHUP.
ReloadSkills ==
    /\ acts < MaxActs
    /\ scan[Reloader] = NoScan
    /\ scan' = [scan EXCEPT ![Reloader] = NewScan(disk, writes)]
    /\ acts' = acts + 1
    /\ UNCHANGED <<limit, oneRoot, disk, skills, create, use, writes, basis>>

\* A bundle is dropped in, removed or made unreadable.
EditByHand ==
    /\ acts < MaxActs
    /\ \E r \in Root, d \in Name, b \in HandMade :
          /\ r = Place(r) /\ disk[r][d] # b
          /\ disk' = [disk EXCEPT ![r][d] = b]
    /\ writes' = writes + 1
    /\ acts' = acts + 1
    /\ UNCHANGED <<limit, oneRoot, skills, scan, create, use, basis>>

\* SkillResult: the body of the catalog's entry.
Load ==
    /\ use = NoUse
    /\ \E s \in skills : use' = [pc |-> "loaded", skill |-> s]
    /\ UNCHANGED <<limit, oneRoot, disk, skills, scan, create, writes, basis, acts>>

\* skillUseRecord looks the name up again; the scope is empty when it is gone.
Record ==
    /\ use.pc = "loaded"
    /\ use' = [pc |-> "recorded", skill |-> use.skill,
               scopes |-> {s.root : s \in Finds(use.skill.name)}]
    /\ UNCHANGED <<limit, oneRoot, disk, skills, scan, create, writes, basis, acts>>

Next ==
    \/ \E p \in Scanner : Visit(p) \/ NextRoot(p) \/ Install(p)
    \/ \E c \in Creator : Check(c) \/ Count(c) \/ Write(c) \/ WriteFails(c) \/ Find(c)
    \/ ReloadSkills \/ EditByHand \/ Load \/ Record

Spec == Init /\ [][Next]_vars

-----------------------------------------------------------------------------
(* Properties *)

(***************************************************************************)
(* The catalog is what the roots hold: when the scan behind it began after *)
(* the last change on disk, its entries are, name by name, the first of    *)
(* the project's bundles or else of the user's, up to the limit, however   *)
(* scans and writes overlapped before.                                     *)
(***************************************************************************)
CatalogCurrent == basis = writes => skills = Listed(disk)

(***************************************************************************)
(* A creator told that its skill is loaded had it loaded: the catalog      *)
(* offers its text under its name from where it was put.  It takes what    *)
(* the code leaves to chance: that nothing else changed the roots          *)
(* meanwhile, that the catalog was current whenever it was asked, that no  *)
(* scan was under way when it wrote (one that ends later takes the skill   *)
(* out of the catalog again), and that no bundle declares a name other     *)
(* than its directory's.                                                   *)
(***************************************************************************)
DirectoriesNamed ==
    \A r \in Root, d \in Name : disk[r][d].kind = "skill" => disk[r][d].name = d

LoadedIsOffered ==
    \A c \in Creator :
        /\ create[c].pc = "loaded" /\ create[c].clean
        /\ writes = create[c].basis + 1
        /\ DirectoriesNamed
        => Skill(Place(create[c].root), create[c].name, Bundle(create[c].name, c)) \in skills

(***************************************************************************)
(* A creator that did not ask to overwrite replaces no skill the user sees *)
(* under that name, and one that did replaces it in its scope only: a      *)
(* project skill does not displace a personal one.  The same is needed,    *)
(* scans under way apart.                                                  *)
(***************************************************************************)
KeepsScope ==
    \A c \in Creator :
        /\ create[c].pc = "checked" /\ create'[c].pc = "scanning"
        /\ create[c].clean /\ writes = create[c].basis /\ DirectoriesNamed
        => \A s \in Listed(disk) \ Listed(disk') :
              s.name = create[c].name /\ s.root = create[c].root /\ create[c].overwrite

ScopeKept == [][KeepsScope]_vars

SkillsInv == TypeOK /\ CatalogCurrent /\ LoadedIsOffered

=============================================================================
