----------------------------- MODULE SelfUpdate -----------------------------
(***************************************************************************)
(* `mininaru update`, the background check for a newer release and its      *)
(* notice (cli/update.go), and the systemd user unit they restart           *)
(* (cli/daemon.go).                                                         *)
(*                                                                         *)
(* Several updates and checks may run at once, each a process of its own;   *)
(* any of them can be killed between two steps.  Releases are numbered in    *)
(* the order they were published.                                          *)
(***************************************************************************)
EXTENDS Naturals

CONSTANTS
    Updater,        \* runs of `mininaru update`
    Checker,        \* background checks started by other commands
    MaxRelease,     \* bound: releases ever published
    MaxInstalls     \* bound: runs of `daemon install` and `daemon uninstall`

VARIABLES
    newest,         \* the newest release
    target,         \* the executable: [tag, content]
    staged,         \* the staged file of each updater: [tag, content]
    pc,             \* where an updater is
    own,            \* the version an updater runs
    found,          \* the tag of the release an updater or checker fetched
    check,          \* where a checker is
    cache,          \* update.json: [tag, fresh]; tag 0 when there is none
    unit,           \* the unit: [installed, runs, by, orphan]; runs 0 when it is
                    \* stopped, orphan when it was started before its unit was removed
    installs

updating == <<staged, pc, own>>
vars == <<newest, target, updating, found, check, cache, unit, installs>>

Tag == 0 .. MaxRelease
\* What is in a staged file: a part of the download, one whose checksum will
\* not match, one that will but lost its last write, or the build.
Content == {"none", "part", "bad", "short", "whole"}
NoFile == [tag |-> 0, content |-> "none"]
Active == {"fetched", "staging", "staged", "verified", "replaced", "restarting"}
Ended == {"idle", "done", "failed", "unmoved", "unrestarted", "killed"}

TypeOK ==
    /\ newest \in 1 .. MaxRelease
    /\ target \in [tag : Tag, content : Content]
    /\ staged \in [Updater -> [tag : Tag, content : Content]]
    /\ pc \in [Updater -> Active \cup Ended]
    /\ \A u \in Updater :
          pc[u] \in {"staged", "verified"} => staged[u].tag = found[u]
    /\ own \in [Updater -> Tag]
    /\ found \in [Updater \cup Checker -> Tag]
    /\ check \in [Checker -> {"idle", "asking", "fetched", "done"}]
    /\ cache \in [tag : Tag, fresh : BOOLEAN]
    /\ unit \in [installed : BOOLEAN, runs : Tag, by : {"nobody", "install", "uninstall"},
                orphan : BOOLEAN]
    /\ installs \in 0 .. MaxInstalls

Init ==
    /\ newest = 1
    /\ target = [tag |-> 1, content |-> "whole"]
    /\ staged = [u \in Updater |-> NoFile]
    /\ pc = [u \in Updater |-> "idle"]
    /\ own = [u \in Updater |-> 0]
    /\ found = [p \in Updater \cup Checker |-> 0]
    /\ check = [c \in Checker |-> "idle"]
    /\ cache = [tag |-> 0, fresh |-> FALSE]
    /\ unit \in [installed : {TRUE}, runs : {0, 1}, by : {"nobody"}, orphan : {FALSE}]
    /\ installs = 0

Goto(u, to) == pc' = [pc EXCEPT ![u] = to]

-----------------------------------------------------------------------------
(* The world *)

Publish ==
    /\ newest < MaxRelease
    /\ newest' = newest + 1
    /\ UNCHANGED <<target, updating, found, check, cache, unit, installs>>

\* The cached answer is a day old.
Expire ==
    /\ cache.fresh
    /\ cache' = [cache EXCEPT !.fresh = FALSE]
    /\ UNCHANGED <<newest, target, updating, found, check, unit, installs>>

\* systemd starts the unit again after a crash.
Respawn ==
    /\ unit.runs # 0
    /\ unit' = [unit EXCEPT !.runs = target.tag]
    /\ UNCHANGED <<newest, target, updating, found, check, cache, installs>>

-----------------------------------------------------------------------------
(* updateExecute *)

\* updateFetchRelease: the newest release, or the one of --tag.
Fetch(u) ==
    /\ pc[u] = "idle"
    /\ own' = [own EXCEPT ![u] = target.tag]
    /\ \/ /\ found' = [found EXCEPT ![u] = newest]
          /\ Goto(u, "fetched")
       \/ /\ \E tag \in 1 .. newest : found' = [found EXCEPT ![u] = tag]
          /\ Goto(u, "staging")
       \/ /\ Goto(u, "failed")
          /\ UNCHANGED found
    /\ UNCHANGED <<newest, target, staged, check, cache, unit, installs>>

\* The cache is not written for a pinned tag; --check ends here, and so does
\* an update to the running version without --force.
CacheWrite(u) ==
    /\ pc[u] = "fetched"
    /\ cache' = [tag |-> found[u], fresh |-> TRUE]
    /\ \/ Goto(u, "staging")
       \/ Goto(u, "done")
    /\ UNCHANGED <<newest, target, staged, own, found, check, unit, installs>>

\* Assets or sums that are missing or malformed end it before anything is
\* written; --tag of the running version ends it as well.
Decline(u) ==
    /\ pc[u] = "staging" /\ staged[u] = NoFile
    /\ \/ found[u] = own[u] /\ Goto(u, "done")
       \/ Goto(u, "failed")
    /\ UNCHANGED <<newest, target, staged, own, found, check, cache, unit, installs>>

\* updateStage up to updateExtract: the file is created and written.
Stage(u) ==
    /\ pc[u] = "staging" /\ staged[u] = NoFile
    /\ staged' = [staged EXCEPT ![u] = [tag |-> found[u], content |-> "part"]]
    /\ UNCHANGED <<newest, target, pc, own, found, check, cache, unit, installs>>

\* The download ends and the file is closed; the error of Close is dropped.
Extract(u) ==
    /\ pc[u] = "staging" /\ staged[u].content = "part"
    /\ \/ \E content \in {"bad", "short", "whole"} :
             /\ staged' = [staged EXCEPT ![u].content = content]
             /\ Goto(u, "staged")
       \/ /\ staged' = [staged EXCEPT ![u] = NoFile]
          /\ Goto(u, "failed")
    /\ UNCHANGED <<newest, target, own, found, check, cache, unit, installs>>

\* Broken: a download that does not match is left where it is.
CompareKeeping(u) ==
    /\ pc[u] = "staged"
    /\ Goto(u, IF staged[u].content = "bad" THEN "failed" ELSE "verified")
    /\ UNCHANGED <<newest, target, staged, own, found, check, cache, unit, installs>>

\* Broken: the checksum is compared and the result is only logged.
CompareOnly(u) ==
    /\ pc[u] = "staged"
    /\ Goto(u, "verified")
    /\ UNCHANGED <<newest, target, staged, own, found, check, cache, unit, installs>>

\* The checksum is that of the bytes that were read, not of those on the disk.
Compare(u) ==
    /\ pc[u] = "staged"
    /\ IF staged[u].content = "bad"
       THEN /\ staged' = [staged EXCEPT ![u] = NoFile]
            /\ Goto(u, "failed")
       ELSE /\ Goto(u, "verified")
            /\ UNCHANGED staged
    /\ UNCHANGED <<newest, target, own, found, check, cache, unit, installs>>

\* updateReplace: chmod, then rename; only a failed rename removes the file.
Replace(u) ==
    /\ pc[u] = "verified"
    /\ \/ /\ target' = staged[u]
          /\ staged' = [staged EXCEPT ![u] = NoFile]
          /\ Goto(u, "replaced")
       \/ /\ staged' = [staged EXCEPT ![u] = NoFile]
          /\ Goto(u, "failed")
          /\ UNCHANGED target
       \/ /\ Goto(u, "unmoved")
          /\ UNCHANGED <<staged, target>>
    /\ UNCHANGED <<newest, own, found, check, cache, unit, installs>>

\* Broken: the daemon is left alone when it does not run the version of the
\* updater, as if it had been restarted by somebody else.
LookUpdated(u) ==
    /\ pc[u] = "replaced"
    /\ Goto(u, IF unit.installed /\ unit.runs # own[u] THEN "done" ELSE "restarting")
    /\ UNCHANGED <<newest, target, staged, own, found, check, cache, unit, installs>>

\* daemonInstalled; --no-restart leaves the daemon alone.
Look(u) ==
    /\ pc[u] = "replaced"
    /\ \/ Goto(u, IF unit.installed THEN "restarting" ELSE "done")
       \/ Goto(u, "unrestarted")
    /\ UNCHANGED <<newest, target, staged, own, found, check, cache, unit, installs>>

\* systemctl starts a build, or 0 for none, in place of what runs.
Starts(tag) == unit' = [unit EXCEPT !.runs = tag, !.orphan = FALSE]

\* daemonRestart: systemctl starts what is on the disk now, or fails, and the
\* daemon may be up or down by then.
RestartDaemon(u) ==
    /\ pc[u] = "restarting"
    /\ \/ unit.installed /\ Starts(target.tag) /\ Goto(u, "done")
       \/ /\ UNCHANGED unit \/ (unit.installed /\ \E tag \in {0, target.tag} : Starts(tag))
          /\ Goto(u, "unrestarted")
    /\ UNCHANGED <<newest, target, staged, own, found, check, cache, installs>>

Kill(u) ==
    /\ pc[u] \in Active
    /\ Goto(u, "killed")
    /\ UNCHANGED <<newest, target, staged, own, found, check, cache, unit, installs>>

Update(u) ==
    \/ Fetch(u) \/ CacheWrite(u) \/ Decline(u) \/ Stage(u) \/ Extract(u)
    \/ Compare(u) \/ Replace(u) \/ Look(u) \/ RestartDaemon(u) \/ Kill(u)

-----------------------------------------------------------------------------
(* updateCheckStart *)

\* A command finds its cache too old and starts the goroutine.
CheckStart(c) ==
    /\ check[c] = "idle" /\ ~cache.fresh
    /\ check' = [check EXCEPT ![c] = "asking"]
    /\ UNCHANGED <<newest, target, updating, found, cache, unit, installs>>

\* The request fails, or the command ends before it is answered.
CheckAsk(c) ==
    /\ check[c] = "asking"
    /\ \/ /\ found' = [found EXCEPT ![c] = newest]
          /\ check' = [check EXCEPT ![c] = "fetched"]
       \/ /\ check' = [check EXCEPT ![c] = "done"]
          /\ UNCHANGED found
    /\ UNCHANGED <<newest, target, updating, cache, unit, installs>>

CheckWrite(c) ==
    /\ check[c] = "fetched"
    /\ check' = [check EXCEPT ![c] = "done"]
    /\ \/ cache' = [tag |-> found[c], fresh |-> TRUE]
       \/ UNCHANGED cache
    /\ UNCHANGED <<newest, target, updating, found, unit, installs>>

-----------------------------------------------------------------------------
(* daemon install and daemon uninstall *)

\* The unit is written, then enabled and started, which leaves one that runs
\* alone, and may fail; it is stopped, then removed.
Install ==
    \/ /\ installs < MaxInstalls /\ unit.by = "nobody"
       /\ installs' = installs + 1
       /\ unit' = [unit EXCEPT !.installed = TRUE, !.by = "install"]
    \/ /\ unit.by = "install"
       /\ \/ unit' = [unit EXCEPT !.by = "nobody",
                                  !.runs = IF @ = 0 THEN target.tag ELSE @]
          \/ unit' = [unit EXCEPT !.by = "nobody"]
       /\ UNCHANGED installs

Uninstall ==
    \/ /\ installs < MaxInstalls /\ unit.by = "nobody" /\ unit.installed
       /\ installs' = installs + 1
       /\ unit' = [unit EXCEPT !.runs = 0, !.by = "uninstall", !.orphan = FALSE]
    \/ /\ unit.by = "uninstall"
       /\ unit' = [unit EXCEPT !.installed = FALSE, !.by = "nobody",
                               !.orphan = unit.runs # 0]
       /\ UNCHANGED installs

Daemon ==
    /\ Install \/ Uninstall
    /\ UNCHANGED <<newest, target, updating, found, check, cache>>

Next ==
    \/ Publish \/ Expire \/ Respawn \/ Daemon
    \/ \E u \in Updater : Update(u)
    \/ \E c \in Checker : CheckStart(c) \/ CheckAsk(c) \/ CheckWrite(c)

Spec == Init /\ [][Next]_vars

-----------------------------------------------------------------------------
(* Properties *)

\* Whatever fails, whoever is killed and however many update at once, the
\* executable is one whole download whose checksum matched.  (That what was
\* downloaded is on the disk is another matter: the error of Close is dropped.)
ExecutableIsVerified == target.content \in {"short", "whole"}

\* ARCHITECTURE: "Every failure path deletes the staged file", other than a
\* kill, and a chmod that fails, which leave it.
FailureLeavesNothing ==
    \A u \in Updater : pc[u] \in {"done", "failed", "unrestarted"} => staged[u] = NoFile

\* Once every update has ended, and restarted the daemon when it had to, an
\* installed daemon that runs runs the executable on the disk: no update
\* replaces it behind the restart of another one.  A daemon that an update
\* started between the two steps of `daemon uninstall` is the exception: it runs
\* on without a unit, no update restarts it, and a later `daemon install`
\* leaves it as it is.
DaemonRunsTarget ==
    (/\ \A u \in Updater : pc[u] \in {"idle", "done", "failed", "unmoved"}
     /\ unit.installed /\ unit.runs # 0 /\ ~unit.orphan)
        => unit.runs = target.tag
=============================================================================
