---------------------------- MODULE RemoteUpgrade ----------------------------
(***************************************************************************)
(* Operations the panel orders for a machine (agentcli/remote.go) and the  *)
(* upgrade they and the command line run (upgrade.go, download.go,         *)
(* release_version.go, install_paths.go, runUpgradeWithResult).            *)
(*                                                                         *)
(* The agent writes an operation to disk and launches an executor that is  *)
(* not part of the service, because the operation restarts the service and *)
(* with it the agent, wherever it is.  Executors exclude each other with a *)
(* kernel lock that dies with them, upgrades with a directory that does    *)
(* not.  Any process may die between two steps.  The programs of a release *)
(* are two files (node and xbctl) that are replaced by this code, or one   *)
(* that the embedded installer replaces (external: all or nothing).        *)
(***************************************************************************)
EXTENDS Naturals, Sequences

CONSTANTS
    Operations,   \* operations in the order the panel gives them
    Upgrades,     \* the ones that upgrade; the others restart
    Versions,     \* releases: <<major, minor, patch, yz>>, yz = 0 for none
    MaxDeaths,    \* bound: processes that die
    NoVersion

Workers == Operations \cup {0}      \* executors; 0 is the command line
Files == {"node", "cli"}

ASSUME UpgradeAssumption ==
    /\ Operations \subseteq Nat \ {0} /\ Upgrades \subseteq Operations
    /\ Versions \subseteq Nat \X Nat \X Nat \X Nat /\ NoVersion \notin Versions
    /\ MaxDeaths \in Nat

VARIABLES
    records,    \* the file of each operation: none, or its status
    pointer,    \* the file that names the latest operation, or 0
    agent,      \* startRemote: idle, or before its next step
    overdue,    \* operations past their ExpiresAt
    workers,    \* executors and command line
    execLock,   \* holder of the executors' lock, or none
    lockDir,    \* the directory .install-lock exists
    programs,  \* version and state of each file
    service,    \* version the service runs
    latest,     \* latest release
    unified,    \* releases are one file, fixed
    deaths,
    carried     \* history: how often each operation was carried out

diskVars == <<records, pointer, lockDir, programs>>
upgradeVars == <<diskVars, agent, overdue, workers, execLock, service, latest, unified,
                 deaths, carried>>

\* compareReleaseVersions: a yz revision precedes the release without one.
Older(a, b) ==
    LET first(i) == a[i] # b[i] /\ \A j \in 1..(i - 1) : a[j] = b[j]
    IN  \/ \E i \in 1..3 : first(i) /\ a[i] < b[i]
        \/ first(4) /\ a[4] # 0 /\ (b[4] = 0 \/ a[4] < b[4])

NewWorker == [at |-> "none", target |-> NoVersion, sums |-> TRUE,
              staged |-> [f \in Files |-> TRUE], old |-> NoVersion, replaced |-> {},
              locked |-> FALSE]

UpgradeInit ==
    /\ unified \in BOOLEAN
    /\ \E v \in Versions : /\ programs = [f \in Files |-> [version |-> v, good |-> TRUE]]
                           /\ service = v
    /\ latest \in Versions
    /\ records = [o \in Operations |-> "none"] /\ pointer = 0
    /\ agent = [op |-> 0, at |-> "idle"]
    /\ overdue = {} /\ execLock = "free" /\ lockDir = FALSE
    /\ workers = [w \in Workers |-> NewWorker]
    /\ deaths = 0 /\ carried = [o \in Operations |-> 0]

-----------------------------------------------------------------------------
(* The agent: startRemote under remoteMu                                    *)

AgentTo(o, at) == agent' = [op |-> o, at |-> at]
AgentFrame == UNCHANGED <<lockDir, programs, overdue, execLock, service, latest, unified,
                          deaths, carried>>

\* Mutant: the pointer decides whether the operation is known.
ReceiveByPointer(o) ==
    /\ agent.at = "idle" /\ \A p \in Operations : p < o => records[p] # "none"
    /\ pointer # o /\ o \notin overdue
    /\ AgentTo(o, "save")
    /\ UNCHANGED <<records, pointer, workers>> /\ AgentFrame

\* An operation arrives, for the first time or again.  One that has a file is
\* known; one that expired is refused.
Receive(o) ==
    /\ agent.at = "idle" /\ \A p \in Operations : p < o => records[p] # "none"
    /\ records[o] = "none" /\ o \notin overdue
    /\ AgentTo(o, "save")
    /\ UNCHANGED <<records, pointer, workers>> /\ AgentFrame

\* activateRemote: first the operation's file, then the pointer; a failed
\* write ends the call.  RemoteAvailable may say no.
SaveRecord ==
    /\ agent.at = "save"
    /\ \/ /\ \E s \in {"running", "failed"} : records' = [records EXCEPT ![agent.op] = s]
          /\ AgentTo(agent.op, "point")
       \/ AgentTo(0, "idle") /\ UNCHANGED records
    /\ UNCHANGED <<pointer, workers>> /\ AgentFrame

SavePointer ==
    /\ agent.at = "point"
    /\ \/ /\ pointer' = agent.op
          /\ IF records[agent.op] = "running" THEN AgentTo(agent.op, "launch")
             ELSE AgentTo(0, "idle")
       \/ AgentTo(0, "idle") /\ UNCHANGED pointer
    /\ UNCHANGED <<records, workers>> /\ AgentFrame

\* launchRemote, and launch_failed.
LaunchRemote ==
    /\ agent.at = "launch"
    /\ \/ /\ workers' = [workers EXCEPT ![agent.op] = [NewWorker EXCEPT !.at = "read"]]
          /\ UNCHANGED records
       \/ /\ records' = [records EXCEPT ![agent.op] = "failed"]
          /\ UNCHANGED workers
    /\ AgentTo(0, "idle")
    /\ UNCHANGED pointer /\ AgentFrame

-----------------------------------------------------------------------------
(* The executor: runRemoteWith                                              *)

Goto(w, at) == workers' = [workers EXCEPT ![w].at = at]
WorkerFrame == UNCHANGED <<pointer, agent, overdue, latest, unified, deaths>>
Active(o) == pointer = o /\ records[o] = "running"

\* finish, and the end of the process: the locks are given back.
Finish(w, status) ==
    /\ workers' = [workers EXCEPT ![w] = NewWorker]
    /\ records' = IF w = 0 THEN records ELSE [records EXCEPT ![w] = status]
    /\ execLock' = IF execLock = "held" /\ w # 0 /\ workers[w].at \notin {"read", "lock"}
                   THEN "free" ELSE execLock
    /\ lockDir' = (lockDir /\ ~workers[w].locked)

ReadRecord(w) ==
    /\ workers[w].at = "read"
    /\ IF Active(w) THEN Goto(w, "lock") ELSE workers' = [workers EXCEPT ![w] = NewWorker]
    /\ UNCHANGED <<records, lockDir, programs, execLock, service, carried>> /\ WorkerFrame

\* The executors' lock, and the record once more under it.
LockExecution(w) ==
    /\ workers[w].at = "lock"
    /\ \/ execLock = "held" /\ Finish(w, "failed")
       \/ /\ execLock = "free" /\ execLock' = "held"
          /\ Goto(w, "recheck") /\ UNCHANGED <<records, lockDir>>
    /\ UNCHANGED <<programs, service, carried>> /\ WorkerFrame

Recheck(w) ==
    /\ workers[w].at = "recheck"
    /\ IF ~Active(w) THEN Finish(w, records[w]) /\ UNCHANGED carried
       ELSE IF w \in overdue THEN Finish(w, "failed") /\ UNCHANGED carried
       ELSE /\ Goto(w, "install")
            /\ carried' = [carried EXCEPT ![w] = @ + 1]
            /\ UNCHANGED <<records, lockDir, execLock>>
    /\ UNCHANGED <<programs, service>> /\ WorkerFrame

\* lockInstallation, for an upgrade and for a restart.
LockInstallation(w) ==
    /\ workers[w].at = "install"
    /\ \/ lockDir /\ Finish(w, "failed")
       \/ /\ ~lockDir /\ lockDir' = TRUE
          /\ workers' = [workers EXCEPT ![w].locked = TRUE,
                         ![w].at = IF w \in Upgrades \cup {0} THEN "plan" ELSE "restart"]
          /\ UNCHANGED <<records, execLock>>
    /\ UNCHANGED <<programs, service, carried>> /\ WorkerFrame

-----------------------------------------------------------------------------
(* runUpgradeWithResult and upgradeBinaries                                 *)

CallUpgrade ==
    /\ workers[0].at = "none"
    /\ workers' = [workers EXCEPT ![0] = [NewWorker EXCEPT !.at = "install"]]
    /\ UNCHANGED <<records, lockDir, programs, execLock, service, carried>> /\ WorkerFrame

\* A step of the upgrade that changes nothing but its worker.
StaysWithin(w) == UNCHANGED <<records, lockDir, programs, execLock, service,
                              carried>> /\ WorkerFrame
Abort(w) == Finish(w, "failed") /\ UNCHANGED <<programs, service, carried>> /\ WorkerFrame

\* planLatestUpgrade: the target is fixed here; a release that is not newer
\* ends the upgrade.
Plan(v, release) == IF Older(v, release) THEN release ELSE NoVersion

PlanUpgrade(w) ==
    LET goal == Plan(programs["node"].version, latest) IN
    /\ workers[w].at = "plan"
    /\ \/ Abort(w)
       \/ /\ goal = NoVersion
          /\ Finish(w, "succeeded") /\ UNCHANGED <<programs, service, carried>> /\ WorkerFrame
       \/ /\ goal # NoVersion
          /\ workers' = [workers EXCEPT ![w].at = "download", ![w].target = goal,
                                        ![w].old = programs]
          /\ StaysWithin(w)

\* downloadChecksums: GitHub is asked first, after a timeout the mirrors; it may
\* be that nobody has the list.
ChecksumsFound == BOOLEAN

\* download: whatever a source hands out; a damaged file may still report its
\* version.  verifyReleaseChecksum is skipped without a list.
Downloaded == [Files -> BOOLEAN]
Verified(sums, good) == sums => \A f \in Files : good[f]

\* The files of the release and their checks; a release of one file is handed
\* to its installer.
Download(w) ==
    /\ workers[w].at = "download"
    /\ \/ Abort(w)
       \/ /\ \E sums \in ChecksumsFound, good \in Downloaded :
                /\ Verified(sums, good)
                /\ unified => good["cli"]
                /\ workers' = [workers EXCEPT ![w].sums = sums, ![w].staged = good,
                               ![w].at = IF unified THEN "migrate" ELSE "swap"]
          /\ StaysWithin(w)

StagedFile(w, f) == [version |-> workers[w].target, good |-> workers[w].staged[f]]

\* migrateInstallation: the installer replaces, restarts and rolls back.
Migrate(w) ==
    /\ workers[w].at = "migrate"
    /\ \/ Abort(w)
       \/ /\ programs' = [f \in Files |-> StagedFile(w, "node")]
          /\ service' = workers[w].target
          /\ agent' = [op |-> 0, at |-> "idle"]
          /\ Goto(w, "verify")
          /\ UNCHANGED <<records, pointer, lockDir, execLock, overdue, latest, unified,
                         deaths, carried>>

\* The node first, then xbctl; old names stay as links until the end.
Swap(w) ==
    LET f == IF workers[w].replaced = {} THEN "node" ELSE "cli" IN
    /\ workers[w].at = "swap"
    /\ \/ /\ programs' = [programs EXCEPT ![f] = StagedFile(w, f)]
          /\ workers' = [workers EXCEPT ![w].replaced = @ \cup {f},
                                        ![w].at = IF f = "cli" THEN "restart" ELSE "swap"]
       \/ /\ Goto(w, "rollback") /\ UNCHANGED programs
    /\ UNCHANGED <<records, lockDir, execLock, service, carried>> /\ WorkerFrame

\* restart of the service manager, by the upgrade or for the operation: the
\* agent ends wherever it is.  It may also fail.
Restart(w) ==
    /\ workers[w].at = "restart"
    /\ \/ /\ service' = programs["node"].version
          /\ agent' = [op |-> 0, at |-> "idle"]
          /\ IF w \in Upgrades \cup {0} THEN Goto(w, "verify") /\ UNCHANGED <<records,
                                                                              execLock, lockDir>>
             ELSE Finish(w, "succeeded")
          /\ UNCHANGED programs
       \/ /\ IF w \in Upgrades \cup {0} THEN Goto(w, "rollback") /\ UNCHANGED <<records,
                                                                                execLock, lockDir>>
             ELSE Finish(w, "failed")
          /\ UNCHANGED <<service, agent, programs>>
    /\ UNCHANGED <<pointer, overdue, latest, unified, deaths, carried>>

\* The files that were replaced are put back, xbctl first; one that cannot be
\* put back is kept aside for the operator (counted with the deaths).
Rollback(w) ==
    /\ workers[w].at = "rollback"
    /\ \/ /\ workers[w].replaced = {}
          /\ Goto(w, "undone") /\ UNCHANGED <<programs, deaths>>
       \/ LET f == IF "cli" \in workers[w].replaced THEN "cli" ELSE "node" IN
          /\ workers[w].replaced # {}
          /\ workers' = [workers EXCEPT ![w].replaced = @ \ {f}]
          /\ \/ /\ programs' = [programs EXCEPT ![f] = workers[w].old[f]]
                /\ UNCHANGED deaths
             \/ /\ deaths < MaxDeaths /\ deaths' = deaths + 1
                /\ UNCHANGED programs
    /\ UNCHANGED <<records, lockDir, execLock, service, carried, pointer, agent, overdue,
                   latest, unified>>

\* The restart after a rollback may fail as well.
Undone(w) ==
    /\ workers[w].at = "undone"
    /\ Finish(w, "failed")
    /\ \/ service' = programs["node"].version /\ agent' = [op |-> 0, at |-> "idle"]
       \/ UNCHANGED <<service, agent>>
    /\ UNCHANGED <<programs, carried, pointer, overdue, latest, unified, deaths>>

\* readInstalledUpgradeVersion; an error is reported although the files are new.
Verify(w) ==
    /\ workers[w].at = "verify"
    /\ \/ Finish(w, "failed")
       \/ programs["node"].version = workers[w].target /\ Finish(w, "succeeded")
    /\ UNCHANGED <<programs, service, carried>> /\ WorkerFrame

-----------------------------------------------------------------------------
(* The environment                                                          *)

\* A process dies: the kernel lock goes with it, the directory stays.
WorkerDies(w) ==
    /\ workers[w].at # "none" /\ deaths < MaxDeaths
    /\ deaths' = deaths + 1
    /\ workers' = [workers EXCEPT ![w] = NewWorker]
    /\ execLock' = IF w # 0 /\ workers[w].at \notin {"read", "lock"} THEN "free" ELSE execLock
    /\ UNCHANGED <<diskVars, agent, overdue, service, latest, unified, carried>>

AgentDies ==
    /\ agent.at # "idle" /\ deaths < MaxDeaths
    /\ deaths' = deaths + 1 /\ AgentTo(0, "idle")
    /\ UNCHANGED <<diskVars, overdue, workers, execLock, service, latest, unified, carried>>

Expires(o) ==
    /\ o \notin overdue /\ records[o] = "running"
    /\ overdue' = overdue \cup {o}
    /\ UNCHANGED <<diskVars, agent, workers, execLock, service, latest, unified, deaths,
                   carried>>

\* A new release, or the latest one withdrawn.
Released(v) ==
    /\ v # latest /\ latest' = v
    /\ UNCHANGED <<diskVars, agent, overdue, workers, execLock, service, unified, deaths,
                   carried>>

WorkerSteps(w) ==
    \/ LockInstallation(w) \/ PlanUpgrade(w) \/ Download(w)
    \/ Migrate(w) \/ Swap(w) \/ Restart(w) \/ Rollback(w) \/ Undone(w) \/ Verify(w) \/ WorkerDies(w)

UpgradeNext ==
    \/ \E o \in Operations : \/ Receive(o) \/ Expires(o)
                             \/ ReadRecord(o) \/ LockExecution(o) \/ Recheck(o)
    \/ SaveRecord \/ SavePointer \/ LaunchRemote \/ CallUpgrade \/ AgentDies
    \/ \E w \in Workers : WorkerSteps(w)
    \/ \E v \in Versions : Released(v)

UpgradeSpec == UpgradeInit /\ [][UpgradeNext]_upgradeVars

-----------------------------------------------------------------------------
(* Properties                                                               *)

FilesSettled == \A w \in Workers : workers[w].at = "none"

\* Whatever dies, is ordered again or comes late: an operation is carried out
\* at most once and not after another one replaced it, and at most one process
\* replaces files or restarts the service.
CarriedOutOnce ==
    /\ \A o \in Operations : carried[o] <= 1
    /\ \A v, w \in Workers : workers[v].locked /\ workers[w].locked => v = w
    /\ \A w \in Workers : workers[w].locked => lockDir

\* Both files are of one release once nobody works on them, unless a process
\* died or a file could not be put back; a file was compared with the list of
\* checksums if one was to be had; the version never falls.
FilesAgree ==
    /\ FilesSettled /\ deaths = 0 => programs["node"].version = programs["cli"].version
    /\ \A w \in Workers : workers[w].target # NoVersion =>
           /\ Older(workers[w].old["node"].version, workers[w].target)
           /\ workers[w].sums => \A f \in workers[w].replaced : programs[f].good

\* Once nobody works on the files the service runs what is installed, whether
\* the upgrade succeeded, failed or was undone.
ServiceIsInstalled == FilesSettled /\ deaths = 0 => service = programs["node"].version

\* The properties of remote operations and upgrades, together.
RemoteHolds == CarriedOutOnce /\ FilesAgree /\ ServiceIsInstalled

-----------------------------------------------------------------------------
(* Types, and why the properties hold.                                      *)

Statuses == {"none", "running", "failed", "succeeded"}
Programs == [Files -> [version : Versions, good : BOOLEAN]]
LockedSteps == {"plan", "download", "migrate", "swap", "restart", "rollback", "undone", "verify"}
Steps == {"none", "read", "lock", "recheck", "install"} \cup LockedSteps
Executors == [at : Steps, target : Versions \cup {NoVersion}, sums : BOOLEAN,
              staged : [Files -> BOOLEAN], old : Programs \cup {NoVersion},
              replaced : SUBSET Files, locked : BOOLEAN]

\* Type invariant.
UpgradeTypeOK ==
    /\ unified \in BOOLEAN /\ programs \in Programs
    /\ service \in Versions /\ latest \in Versions
    /\ records \in [Operations -> Statuses] /\ pointer \in Workers
    /\ agent \in [op : Workers, at : {"idle", "save", "point", "launch"}]
    /\ agent.at # "idle" => agent.op \in Operations
    /\ overdue \subseteq Operations /\ execLock \in {"free", "held"} /\ lockDir \in BOOLEAN
    /\ workers \in [Workers -> Executors]
    /\ deaths \in Nat /\ carried \in [Operations -> Nat]

\* An operation is launched once: whoever has it in hand is the first.
LaunchedOnce ==
    /\ agent.at = "save" => records[agent.op] = "none"
    /\ agent.at \in {"point", "launch"} =>
           records[agent.op] # "none" /\ workers[agent.op].at = "none" /\ carried[agent.op] = 0
    /\ \A o \in Operations :
           /\ carried[o] <= 1
           /\ records[o] = "none" => workers[o].at = "none" /\ carried[o] = 0
           /\ workers[o].at \in {"read", "lock", "recheck"} => carried[o] = 0

\* The directory is there while a worker changes files, and for one worker.
OneWorker ==
    /\ \A w \in Workers : /\ workers[w].locked <=> workers[w].at \in LockedSteps
                          /\ workers[w].locked => lockDir
    /\ \A v, w \in Workers : workers[v].locked /\ workers[w].locked => v = w

\* What an upgrade has planned, checked and replaced.
Replaces(w) ==
    \/ workers[w].at \in {"download", "migrate", "swap", "rollback", "undone", "verify"}
    \/ workers[w].at = "restart" /\ w \in Upgrades \cup {0}

PlannedWell(w) ==
    /\ Replaces(w) => workers[w].target # NoVersion
    /\ Replaces(w) \/ workers[w].at = "plan" => w \in Upgrades \cup {0}
    /\ workers[w].target # NoVersion =>
           /\ workers[w].old \in Programs
           /\ Older(workers[w].old["node"].version, workers[w].target)
    /\ workers[w].sums => /\ \A f \in Files : workers[w].staged[f]
                          /\ \A f \in workers[w].replaced : programs[f].good
    /\ workers[w].at = "swap" => workers[w].replaced \subseteq {"node"}
    /\ IF workers[w].at = "restart" /\ w \in Upgrades \cup {0} THEN workers[w].replaced = Files
       ELSE workers[w].at \notin {"swap", "rollback", "verify"} => workers[w].replaced = {}

\* Files and service while no process has died.
Agreed == programs["cli"].version = programs["node"].version /\ service = programs["node"].version

Between(w) ==
    /\ workers[w].old["cli"].version = workers[w].old["node"].version
    /\ service = workers[w].old["node"].version
    /\ \A f \in Files : IF f \in workers[w].replaced
                         THEN programs[f].version = workers[w].target
                         ELSE programs[f] = workers[w].old[f]

Follows(w) == IF Replaces(w) /\ workers[w].at # "verify" THEN Between(w) ELSE Agreed

FilesFollow ==
    deaths = 0 =>
        /\ (\A w \in Workers : ~workers[w].locked) => Agreed
        /\ \A w \in Workers : workers[w].locked => Follows(w)

UpgradeInv ==
    /\ LaunchedOnce /\ OneWorker /\ FilesFollow
    /\ \A w \in Workers : PlannedWell(w)
=============================================================================
