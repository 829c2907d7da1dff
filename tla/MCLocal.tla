------------------------------ MODULE MCLocal -------------------------------
(***************************************************************************)
(* The parts of the system that keep files or run on one machine, in one   *)
(* run: the file tools, the self-update, the commands that keep the        *)
(* configuration and the preferences, the reload in the daemon, skills,    *)
(* the memory, shell and search tools, the keys and requests of pairing,   *)
(* and the parts of a reply.  They share no state, a reload finding only   *)
(* that a file has changed, so what is true of each is found by letting    *)
(* one of them move at a time: `part` says which, and of that one the      *)
(* properties speak.  The file tools have their own variables here; the    *)
(* others take turns in v1 to v16, which stand for the variables of the    *)
(* part that moves, in their order, and hold None when it has fewer.       *)
(***************************************************************************)
EXTENDS FileGuard, Sequences, FiniteSets, TLC

CONSTANTS
    Updater, Checker, MaxRelease, MaxInstalls,
    Process, LastMigration, Provider, Agent, Bot,
    Server, Request, MaxEdits, MaxConns,
    f1, f2, f3, f4, Writer, Limit, MaxIds,
    Creator, Names, MaxActs,
    Starter, Device, Address, MaxBusy, MaxServerKeys, MaxClientKeys,
    Peer, MaxAttempts, MaxPending, RateLimit, RateWindow, Lifetime, MaxTime,
    MaxHits, MaxChanges,
    Program, MaxWrites,
    WebCommand, Search, MaxWebWrites,
    MessageLimit, Reserve, FenceWidth, MaxFence, MarkWidth, MaxText

VARIABLES
    part,
    v1, v2, v3, v4, v5, v6, v7, v8, v9, v10, v11, v12, v13, v14, v15, v16

shared == <<v1, v2, v3, v4, v5, v6, v7, v8, v9, v10, v11, v12, v13, v14, v15, v16>>

\* Short facts and long ones.
FactLength == (f1 :> 1) @@ (f2 :> 1) @@ (f3 :> 2) @@ (f4 :> 2)

\* Files at three depths and one that is passed over; patterns that name some
\* of them by one name, by several, and by both.
Paths == {<<"a">>, <<"d", "a">>, <<"d", "d", "b">>, <<"skip", "a">>}
Patterns == {<<"**", "a">>, <<"*">>, <<"d", "**">>, <<"**", "d", "**">>}

\* Pages with nothing good, something after it, and something on both sides.
WebPages == {<<"bad">>, <<"bad", "good">>, <<"good", "bad", "good">>}

\* What the proofs assume of the constants of the parts, beyond what FileGuard
\* assumes of its own: bounds are numbers, those who act are not also something
\* else, facts have lengths, paths and patterns have names, and pages results, and
\* what a part of a reply keeps free has room for a fence at both ends and the mark.
ASSUME LocalAssumption ==
    /\ LastMigration \in Nat /\ None \notin Provider \cup Agent
    /\ MaxEdits \in Nat /\ MaxConns \in Nat
    /\ MaxServerKeys \in Nat /\ MaxClientKeys \in Nat
    /\ WebPages \subseteq Seq({"good", "bad"})
    /\ Names \in Nat /\ MaxActs \in Nat
    /\ "reload" \notin Creator /\ "hand" \notin Creator
    /\ MaxRelease \in Nat \ {0} /\ MaxInstalls \in Nat /\ Updater \cap Checker = {}
    /\ Limit \in Nat /\ MaxIds \in Nat /\ IsFiniteSet(Writer) /\ Writer # {}
    /\ FactLength \in [DOMAIN FactLength -> Nat]
    /\ \E f \in DOMAIN FactLength : \A g \in DOMAIN FactLength : FactLength[g] <= FactLength[f]
    /\ MaxAttempts \in Nat /\ MaxPending \in Nat /\ Lifetime \in Nat /\ MaxTime \in Nat
    /\ RateLimit \in Nat \ {0} /\ RateWindow \in Nat \ {0}
    /\ Paths \subseteq Seq(STRING) \ {<<>>} /\ Patterns \subseteq Seq(STRING)
    /\ MaxHits \in Nat /\ MaxChanges \in Nat
    /\ FenceWidth \in Nat \ {0} /\ MarkWidth \in Nat \ {0, 1}
    /\ MaxFence \in Nat /\ FenceWidth <= MaxFence
    /\ Reserve \in Nat /\ MaxFence + FenceWidth + MarkWidth + 2 <= Reserve
    /\ MessageLimit \in Nat /\ Reserve < MessageLimit /\ MaxText \in Nat

U == INSTANCE SelfUpdate WITH
        newest <- v1, target <- v2, staged <- v3, pc <- v4, own <- v5, found <- v6,
        check <- v7, cache <- v8, unit <- v9, installs <- v10
C == INSTANCE Configuration WITH
        together <- v1, versions <- v2, schema <- v3, column <- v4, present <- v5,
        files <- v6, sessions <- v7, pc <- v8, applied <- v9, missing <- v10, copy <- v11
R == INSTANCE Reload WITH
        file <- v1, hangups <- v2, hupped <- v3, pc <- v4, todo <- v5, fresh <- v6,
        loaded <- v7, stale <- v8, manager <- v9, open <- v10, conns <- v11,
        providers <- v12, agents <- v13, instance <- v14, failed <- v15, request <- v16
M == INSTANCE Memory WITH
        Fact <- DOMAIN FactLength, Length <- FactLength, memories <- v1, ids <- v2,
        write <- v3
K == INSTANCE Skills WITH
        Limits <- {1, 2}, limit <- v1, disk <- v2, skills <- v3, scan <- v4, create <- v5,
        use <- v6, writes <- v7, basis <- v8, acts <- v9, oneRoot <- v10
I == INSTANCE Identity WITH
        pki <- v1, serverKeys <- v2, start <- v3, running <- v4, disk <- v5,
        clientKeys <- v6, pair <- v7, paired <- v8, raced <- v9, collided <- v10
Q == INSTANCE PairingIntake WITH
        now <- v1, rates <- v2, peer <- v3, at <- v4, allowedAt <- v5, expiresAt <- v6,
        peak <- v7
B == INSTANCE Shell WITH
        context <- v1, shell <- v2, children <- v3, cut <- v4, error <- v5, pc <- v6,
        answer <- v7
S == INSTANCE FileSearch WITH
        Path <- Paths, Pattern <- Patterns, Skipped <- {"skip"}, Limits <- {2, 3},
        tool <- v1, pattern <- v2, limit <- v3, tree <- v4, always <- v5, ever <- v6,
        todo <- v7, found <- v8, pc <- v9, changes <- v10
P == INSTANCE Preferences WITH
        kept <- v1, writes <- v2, running <- v3, mine <- v4, changed <- v5, older <- v6,
        wanted <- v7, undone <- v8
W == INSTANCE WebSearch WITH
        Pages <- WebPages, Limits <- {1, 2}, file <- v1, writes <- v2, editing <- v3,
        draft <- v4, up <- v5, loading <- v6, buffer <- v7, web <- v8, garbled <- v9,
        offered <- v10, searching <- v11, config <- v12, answer <- v13
T == INSTANCE Replies WITH
        text <- v1

\* The variables that a part of n has no use for.
Spare(n) ==
    /\ IF n < 1 THEN v1 = None ELSE TRUE
    /\ IF n < 2 THEN v2 = None ELSE TRUE
    /\ IF n < 3 THEN v3 = None ELSE TRUE
    /\ IF n < 4 THEN v4 = None ELSE TRUE
    /\ IF n < 5 THEN v5 = None ELSE TRUE
    /\ IF n < 6 THEN v6 = None ELSE TRUE
    /\ IF n < 7 THEN v7 = None ELSE TRUE
    /\ IF n < 8 THEN v8 = None ELSE TRUE
    /\ IF n < 9 THEN v9 = None ELSE TRUE
    /\ IF n < 10 THEN v10 = None ELSE TRUE
    /\ IF n < 11 THEN v11 = None ELSE TRUE
    /\ IF n < 12 THEN v12 = None ELSE TRUE
    /\ IF n < 13 THEN v13 = None ELSE TRUE
    /\ IF n < 14 THEN v14 = None ELSE TRUE
    /\ IF n < 15 THEN v15 = None ELSE TRUE
    /\ IF n < 16 THEN v16 = None ELSE TRUE

Still(n) ==
    /\ IF n < 1 THEN UNCHANGED v1 ELSE TRUE
    /\ IF n < 2 THEN UNCHANGED v2 ELSE TRUE
    /\ IF n < 3 THEN UNCHANGED v3 ELSE TRUE
    /\ IF n < 4 THEN UNCHANGED v4 ELSE TRUE
    /\ IF n < 5 THEN UNCHANGED v5 ELSE TRUE
    /\ IF n < 6 THEN UNCHANGED v6 ELSE TRUE
    /\ IF n < 7 THEN UNCHANGED v7 ELSE TRUE
    /\ IF n < 8 THEN UNCHANGED v8 ELSE TRUE
    /\ IF n < 9 THEN UNCHANGED v9 ELSE TRUE
    /\ IF n < 10 THEN UNCHANGED v10 ELSE TRUE
    /\ IF n < 11 THEN UNCHANGED v11 ELSE TRUE
    /\ IF n < 12 THEN UNCHANGED v12 ELSE TRUE
    /\ IF n < 13 THEN UNCHANGED v13 ELSE TRUE
    /\ IF n < 14 THEN UNCHANGED v14 ELSE TRUE
    /\ IF n < 15 THEN UNCHANGED v15 ELSE TRUE
    /\ IF n < 16 THEN UNCHANGED v16 ELSE TRUE

LocalInit ==
    /\ Init
    /\ \/ part = "files" /\ Spare(0)
       \/ /\ disk = 0
          /\ \/ part = "update" /\ U!Init /\ Spare(10)
             \/ part = "configuration" /\ C!Init /\ Spare(11)
             \/ part = "reload" /\ R!Init /\ Spare(16)
             \/ part = "memory" /\ M!Init /\ Spare(3)
             \/ part = "skills" /\ K!Init /\ Spare(10)
             \/ part = "identity" /\ I!Init /\ Spare(10)
             \/ part = "intake" /\ Q!Init /\ Spare(7)
             \/ part = "shell" /\ B!Init /\ Spare(7)
             \/ part = "search" /\ S!Init /\ Spare(10)
             \/ part = "preferences" /\ P!Init /\ Spare(8)
             \/ part = "web" /\ W!Init /\ Spare(13)
             \/ part = "replies" /\ T!Init /\ Spare(1)

LocalNext ==
    /\ UNCHANGED part
    /\ \/ part = "files" /\ Next /\ UNCHANGED shared
       \/ part = "update" /\ U!Next /\ Still(10) /\ UNCHANGED vars
       \/ part = "configuration" /\ C!Next /\ Still(11) /\ UNCHANGED vars
       \/ part = "reload" /\ R!Next /\ Still(16) /\ UNCHANGED vars
       \/ part = "memory" /\ M!Next /\ Still(3) /\ UNCHANGED vars
       \/ part = "skills" /\ K!Next /\ Still(10) /\ UNCHANGED vars
       \/ part = "identity" /\ I!Next /\ Still(10) /\ UNCHANGED vars
       \/ part = "intake" /\ Q!Next /\ Still(7) /\ UNCHANGED vars
       \/ part = "shell" /\ B!Next /\ Still(7) /\ UNCHANGED vars
       \/ part = "search" /\ S!Next /\ Still(10) /\ UNCHANGED vars
       \/ part = "preferences" /\ P!Next /\ Still(8) /\ UNCHANGED vars
       \/ part = "web" /\ W!Next /\ Still(13) /\ UNCHANGED vars
       \/ part = "replies" /\ T!Next /\ Still(1) /\ UNCHANGED vars

LocalSpec == LocalInit /\ [][LocalNext]_<<part, vars, shared>>

\* Whoever acts is told apart by nothing but its name, nor are providers and
\* agents.  Only one part moves, so names of several parts can be traded at
\* once.
Trade(pairs) ==
    [x \in UNION pairs |-> CHOOSE y \in UNION pairs : \E s \in pairs : s = {x, y} /\ x # y]

Symmetry ==
    {Trade(pairs) : pairs \in
        {{Caller, Updater, Process, Writer, Creator, Starter, Program},
         {Provider, Device}, {Agent, Address}}}

\* The state of each is well formed: whoever writes holds the mutex, a staged
\* file holds the release it is for, and an update that failed left none.  What
\* is remembered stays within its limit as far as the code keeps it, and what the
\* shell and search tools answer is what they found, and a reply goes out whole, in
\* parts that Discord takes (see Memory, Shell, FileSearch and Replies).
LocalInv ==
    /\ TypeOK
    /\ part = "update" => U!TypeOK /\ U!FailureLeavesNothing
    /\ part = "configuration" => C!TypeOK
    /\ part = "memory" => M!TypeOK /\ M!MemoryBounded
    /\ part = "shell" => B!ShellInv
    /\ part = "search" => S!SearchInv
    /\ part = "replies" => T!RepliesInv

\* The properties of SelfUpdate, Configuration, Reload and Skills (see there).
ExecutableIsVerified == part = "update" => U!ExecutableIsVerified
DaemonRunsTarget == part = "update" => U!DaemonRunsTarget
MigratedOnce == part = "configuration" => C!MigratedOnce
ReferencesHold == part = "configuration" => C!ReferencesHold
ReloadInv == part = "reload" => R!ReloadInv
SkillsInv == part = "skills" => K!SkillsInv
ScopeKept == [][part = "skills" => K!KeepsScope]_<<part, shared>>

\* The files that hold settings: those of the configuration, client.json and
\* web.json, and what runs on them (see Configuration, Preferences, WebSearch).
SettingsInv ==
    /\ part = "configuration" => C!FilesWellFormed
    /\ part = "preferences" => P!PreferencesInv
    /\ part = "web" => W!WebInv

\* What a pairing leaves behind on both ends, and the limits of what asks for one
\* (see Identity and PairingIntake).
PairingInv ==
    /\ part = "identity" => I!IdentityInv /\ I!PairedConnects
    /\ part = "intake" => Q!IntakeInv

\* A call of the shell whose time is over can go on to its answer (see Shell).
CallGoesOn == part = "shell" => B!CallGoesOn

=============================================================================
