---------------------------- MODULE AgentProcess ----------------------------
(***************************************************************************)
(* The agent's process around its services: the watcher of config.yml with *)
(* its debounce, the mailbox for one reload, the restart of all services   *)
(* with a newer configuration, and the protection that writes config.yml   *)
(* in its sealed or its plain form while the process, the editor of the    *)
(* owner and the command line use the same file.                           *)
(*                                                                         *)
(* A configuration is its text and whether the instance the panel may ask  *)
(* to protect is sealed; other instances run beside it. A text is Good, or *)
(* loads but does not fit the startup layout (Misfit), or does not load    *)
(* (Broken). A loaded root says of which file it is (text and sealed stand *)
(* for sourceHash), whether the protected instance failed (PrivacyError)   *)
(* and whether it is PrivacyReady.                                         *)
(***************************************************************************)
EXTENDS Naturals, FiniteSets

CONSTANTS Good, Misfit, Broken, First, Slots, NoRoot, MaxWrites

ASSUME AgentAssumption ==
    /\ Good \cap Broken = {} /\ First \in Good \cup Misfit \cup Broken
    /\ Slots \cap {"main", "cli", "free"} = {}
    /\ MaxWrites \in Nat

VARIABLES file, edited,    \* config.yml; the editor wrote it while it was locked
          writes,          \* bound: an edit counts one, a save of the command line two
          lock,            \* .private-config-lock
          cli,             \* the command line: what it loaded, and its step
          pc, root,        \* runWithReload and its configuration
          next,            \* newRoot while the services stop
          serving,         \* services of some configuration run
          reloadCh, watching, notice, read, \* the mailbox, the watcher
          prep, held,      \* PreparePrivacy of each caller and its root
          guard,           \* WatchPrivacy of a generation: its step, flags
          keyHeld,         \* the panel's key is in this process
          unseen, undone   \* history: no watcher saw an edit; a save is lost

agentVars == <<file, edited, writes, lock, cli, pc, root, next, serving,
               reloadCh, watching, notice, read, prep, held, guard,
               keyHeld, unseen, undone>>
fileVars == <<file, writes, cli, unseen, undone>>
mainVars == <<pc, root, next, serving>>
watchVars == <<reloadCh, watching, notice, read>>
lockVars == <<lock, edited>>
prepVars == <<prep, held, lockVars, keyHeld>>

Texts == Good \cup Misfit \cup Broken
Callers == {"main"} \cup Slots
Off == [step |-> "off", failed |-> FALSE, cancelled |-> FALSE]

Root(f, failed) == [text |-> f.text, sealed |-> f.sealed,
                    failed |-> failed, ready |-> FALSE]
Of(r) == [text |-> r.text, sealed |-> r.sealed]

(* openInstance: whether the sealed instance opens, with a key of the       *)
(* process or one the panel gives.                                          *)
Opens == IF keyHeld THEN {[failed |-> FALSE, key |-> TRUE]}
         ELSE {[failed |-> FALSE, key |-> TRUE], [failed |-> TRUE, key |-> FALSE]}

(* LoadRoot: what it may return for the file.                               *)
Loads(f) ==
    IF f.text \in Broken THEN {}
    ELSE IF ~f.sealed THEN {[root |-> Root(f, FALSE), key |-> keyHeld]}
    ELSE {[root |-> Root(f, o.failed), key |-> o.key] : o \in Opens}

(* NormalizeInstances and ValidateStartupLayout; of an instance that did    *)
(* not open nothing is known.                                               *)
FitsLayout(r) == r.failed \/ r.text \in Good

AgentInit ==
    /\ file \in [text : {First}, sealed : BOOLEAN]
    /\ edited = FALSE /\ writes = 0 /\ lock = "free"
    /\ cli = NoRoot
    /\ pc = "down" /\ root = NoRoot /\ next = NoRoot /\ serving = FALSE
    /\ reloadCh = NoRoot /\ watching = FALSE
    /\ notice = FALSE /\ read = NoRoot
    /\ prep = [c \in Callers |-> "none"] /\ held = [c \in Callers |-> NoRoot]
    /\ guard = [s \in Slots |-> Off]
    /\ keyHeld = FALSE /\ unseen = FALSE /\ undone = FALSE

-----------------------------------------------------------------------------
(* Writers of config.yml. A running watcher sees every write.               *)
FileChanges(f) == file' = f /\ notice' = watching

(* The owner's editor takes no lock and knows nothing of sealed forms.      *)
Edit(t) ==
    /\ writes < MaxWrites /\ writes' = writes + 1
    /\ t # file.text
    /\ FileChanges([text |-> t, sealed |-> FALSE])
    /\ edited' = (lock # "free")
    /\ unseen' = (unseen \/ (pc # "down" /\ ~watching))
    /\ UNCHANGED <<lock, cli, mainVars, reloadCh, watching, read,
                   prep, held, guard, keyHeld, undone>>

LoadWritableRoot ==
    /\ cli = NoRoot /\ writes + 2 <= MaxWrites /\ file.text \notin Broken
    /\ writes' = writes + 2
    /\ cli' = [base |-> file, step |-> "loaded"]
    /\ UNCHANGED <<file, lockVars, mainVars, watchVars, prep, held,
                   guard, keyHeld, unseen, undone>>

(* WriteRootData up to the key: the lock, then the file must be as loaded.  *)
SaveBegins ==
    /\ cli # NoRoot /\ cli.step = "loaded" /\ lock = "free"
    /\ IF file = cli.base
         THEN lock' = "cli" /\ cli' = [cli EXCEPT !.step = "locked"]
         ELSE UNCHANGED lock /\ cli' = NoRoot
    /\ UNCHANGED <<file, edited, writes, mainVars, watchVars, prep, held,
                   guard, keyHeld, unseen, undone>>

(* The rest: a protected file keeps its form or takes the panel's policy;   *)
(* without a key nothing is written.                                        *)
SaveEnds(t, sealed) ==
    /\ cli # NoRoot /\ cli.step = "locked"
    /\ sealed => cli.base.sealed
    /\ FileChanges([text |-> t, sealed |-> sealed])
    /\ undone' = (undone \/ (file # cli.base /\ ~edited))
    /\ unseen' = (unseen \/ (pc # "down" /\ ~watching))
    /\ lock' = "free" /\ edited' = FALSE /\ cli' = NoRoot
    /\ UNCHANGED <<writes, mainVars, reloadCh, watching, read,
                   prep, held, guard, keyHeld>>

SaveFails ==
    /\ cli # NoRoot /\ cli' = NoRoot
    /\ IF cli.step = "locked" THEN lock' = "free" /\ edited' = FALSE
                              ELSE UNCHANGED <<lock, edited>>
    /\ UNCHANGED <<file, writes, mainVars, watchVars, prep, held,
                   guard, keyHeld, unseen, undone>>

-----------------------------------------------------------------------------
(* PreparePrivacy of the main goroutine or of a generation's WatchPrivacy.  *)
Cancelled(c) == c # "main" /\ guard[c].cancelled

Ends(c, how) ==
    /\ prep' = [prep EXCEPT ![c] = how]
    /\ lock' = "free" /\ edited' = FALSE

(* ConfigLock, and the file must still be the one the root was loaded from. *)
PrepareChecks(c) ==
    /\ prep[c] = "begin" /\ lock = "free"
    /\ IF Of(held[c]) = file
         THEN prep' = [prep EXCEPT ![c] = "checked"] /\ lock' = c /\ UNCHANGED edited
         ELSE Ends(c, "error")
    /\ UNCHANGED <<fileVars, mainVars, reloadCh, watching, notice, read, held,
                   guard, keyHeld>>

(* The lock is taken for too long, or the generation ended.                 *)
PrepareTimesOut(c) ==
    /\ prep[c] = "begin" /\ lock # "free"
    /\ c = "main" \/ Cancelled(c)
    /\ prep' = [prep EXCEPT ![c] = "error"]
    /\ UNCHANGED <<fileVars, mainVars, watchVars, held, guard, keyHeld, lockVars>>

(* resolvePrivacy: the protected instance failed, has nothing to convert or *)
(* is to be sealed or restored. A file that is sealed already is taken for  *)
(* enabled when the panel does not answer and the process has the key.      *)
Resolved(r, answer) ==
    CASE r.failed -> "nothing"
      [] answer = "none" -> IF r.sealed /\ keyHeld THEN "seal" ELSE "fails"
      [] answer = "off" -> IF r.sealed THEN "fails" ELSE "nothing"
      [] answer = "recovery" -> IF r.sealed THEN "restore" ELSE "nothing"
      [] answer = "on" -> "seal"

\* Mutant: the file is taken to be as it was when the lock was taken.
TakenAsRead(r) == TRUE

(* Before it is written the file is compared with what was loaded.          *)
StillAsRead(r) == file = Of(r)

(* The panel's answer, and then the comparison before the write; bound says *)
(* whether the directories could be bound or restored.                      *)
PrepareResolves(c, answer, bound) ==
    LET r == held[c]
        resolved == Resolved(r, answer)
        failed == r.failed \/ resolved = "fails" \/ (resolved # "nothing" /\ ~bound)
    IN  /\ prep[c] = "checked"
        /\ keyHeld' = (keyHeld \/ (~r.failed /\ answer \in {"recovery", "on"}))
        /\ CASE resolved \in {"nothing", "fails"} ->
                   /\ Ends(c, "done")
                   /\ held' = [held EXCEPT ![c].ready = TRUE, ![c].failed = failed]
             [] resolved \in {"seal", "restore"} /\ (~StillAsRead(r) \/ Cancelled(c)) ->
                   Ends(c, "error") /\ UNCHANGED held
             [] OTHER ->
                   /\ prep' = [prep EXCEPT ![c] =
                          IF ~bound THEN "keep" ELSE resolved]
                   /\ held' = [held EXCEPT ![c].failed = failed]
                   /\ UNCHANGED lock /\ edited' = FALSE
        /\ UNCHANGED <<fileVars, mainVars, watchVars, guard>>

(* encodePrivateRoot and WriteRaw. The write may fail, and what follows it  *)
(* may fail although the file is written.                                   *)
PrepareWrites(c, written, ok) ==
    LET r == held[c]
        sealed == IF prep[c] = "keep" THEN r.sealed ELSE prep[c] = "seal"
        changed == written /\ sealed # r.sealed
    IN  /\ prep[c] \in {"keep", "seal", "restore"}
        /\ ok => written
        /\ IF changed
             THEN /\ FileChanges([text |-> r.text, sealed |-> sealed])
                  /\ undone' = (undone \/ (file # Of(r) /\ ~edited))
             ELSE UNCHANGED <<file, notice, undone>>
        /\ held' = IF written
                     THEN [held EXCEPT ![c].sealed = sealed, ![c].ready = TRUE]
                     ELSE held
        /\ Ends(c, IF ok THEN "done" ELSE "error")
        /\ UNCHANGED <<writes, cli, unseen, mainVars, reloadCh, watching,
                       read, guard, keyHeld>>

Prepare(c) ==
    \/ PrepareChecks(c) \/ PrepareTimesOut(c)
    \/ \E a \in {"none", "off", "recovery", "on"}, b \in BOOLEAN : PrepareResolves(c, a, b)
    \/ \E w, ok \in BOOLEAN : PrepareWrites(c, w, ok)

-----------------------------------------------------------------------------
(* The watcher of config.yml: after the debounce the file is loaded. An     *)
(* event that comes while the file is loaded starts a debounce of its own.  *)
DebounceOver ==
    /\ watching /\ notice /\ read = NoRoot
    /\ notice' = FALSE
    /\ \/ /\ file.text \in Broken
          /\ UNCHANGED <<read, keyHeld>>
       \/ \E l \in Loads(file) : read' = l.root /\ keyHeld' = l.key
    /\ UNCHANGED <<fileVars, mainVars, reloadCh, watching, prep, held, lockVars, guard>>

(* enqueueReload: an unfit layout is dropped, else the newest replaces what *)
(* still waits.                                                             *)
enqueueReload(r) == reloadCh' = (IF FitsLayout(r) THEN r ELSE reloadCh)

WatcherReloads ==
    /\ read # NoRoot
    /\ enqueueReload(read) /\ read' = NoRoot
    /\ UNCHANGED <<fileVars, mainVars, watching, notice, prepVars, guard>>

-----------------------------------------------------------------------------
(* WatchPrivacy: every 20 s the file is loaded and prepared again; it ends  *)
(* with a reload when the instance that failed is fine.                     *)
PrivacyTick(s) ==
    /\ guard[s].step = "wait" /\ prep[s] = "none" /\ ~guard[s].cancelled
    /\ lock = "free" /\ lock' = s /\ UNCHANGED edited
    /\ \E l \in Loads(file) :
          /\ prep' = [prep EXCEPT ![s] = "checked"]
          /\ held' = [held EXCEPT ![s] = l.root]
          /\ keyHeld' = l.key
    /\ UNCHANGED <<fileVars, mainVars, watchVars, guard>>

PrivacyPrepared(s) ==
    /\ prep[s] \in {"done", "error"}
    /\ prep' = [prep EXCEPT ![s] = "none"] /\ held' = [held EXCEPT ![s] = NoRoot]
    /\ IF prep[s] = "done" /\ guard[s].failed /\ ~held[s].failed
         THEN enqueueReload(held[s]) /\ guard' = [guard EXCEPT ![s] = Off]
         ELSE UNCHANGED <<reloadCh, guard>>
    /\ UNCHANGED <<fileVars, mainVars, watching, notice, read, lockVars, keyHeld>>

PrivacyEnds(s) ==
    /\ guard[s].step = "wait" /\ guard[s].cancelled /\ prep[s] = "none"
    /\ guard' = [guard EXCEPT ![s] = Off]
    /\ UNCHANGED <<fileVars, mainVars, watchVars, prepVars>>

CancelAll == guard' = [s \in Slots |->
                IF guard[s].step = "off" THEN Off ELSE [guard[s] EXCEPT !.cancelled = TRUE]]

-----------------------------------------------------------------------------
(* main and runWithReload                                                   *)
Exit ==
    /\ pc' = "down" /\ root' = NoRoot /\ next' = NoRoot /\ serving' = FALSE
    /\ reloadCh' = NoRoot /\ watching' = FALSE /\ notice' = FALSE /\ read' = NoRoot
    /\ prep' = [c \in Callers |-> "none"] /\ held' = [c \in Callers |-> NoRoot]
    /\ guard' = [s \in Slots |-> Off] /\ keyHeld' = FALSE
    /\ IF lock = "cli" THEN UNCHANGED lockVars ELSE lock' = "free" /\ edited' = FALSE
    /\ unseen' = FALSE
    /\ UNCHANGED <<file, writes, cli, undone>>

Boot ==
    /\ pc = "down"
    /\ \E l \in Loads(file) :
          /\ held' = [held EXCEPT !["main"] = l.root] /\ keyHeld' = l.key
    /\ prep' = [prep EXCEPT !["main"] = "begin"] /\ pc' = "prepare"
    /\ UNCHANGED <<fileVars, root, next, serving, watchVars, lockVars, guard>>

(* Without a configuration the process ends, and is started again.          *)
BootFails == pc = "down" /\ Loads(file) = {} /\ UNCHANGED agentVars

Prepared ==
    /\ pc = "prepare" /\ prep["main"] = "done"
    /\ root' = held["main"] /\ pc' = "launch"
    /\ prep' = [prep EXCEPT !["main"] = "none"] /\ held' = [held EXCEPT !["main"] = NoRoot]
    /\ UNCHANGED <<fileVars, next, serving, watchVars, lockVars, keyHeld, guard>>

PrepareFails ==
    /\ pc = "prepare" /\ prep["main"] = "error"
    /\ Exit

(* A layout that does not fit ends the process before anything starts. The  *)
(* generation's WatchPrivacy takes a place of a bounded number.             *)
Launch ==
    /\ pc = "launch" /\ FitsLayout(root)
    /\ watching' = TRUE
    /\ serving' = TRUE /\ pc' = "run"
    /\ \E s \in Slots :
          /\ guard[s].step = "off"
          /\ guard' = [guard EXCEPT ![s] =
                [step |-> "wait", failed |-> root.failed, cancelled |-> FALSE]]
    /\ UNCHANGED <<fileVars, root, next, reloadCh, notice, read, prepVars>>

LayoutFails == pc = "launch" /\ ~FitsLayout(root) /\ Exit

TakeReload ==
    /\ pc = "run" /\ reloadCh # NoRoot
    /\ next' = reloadCh /\ reloadCh' = NoRoot /\ root' = NoRoot
    /\ CancelAll /\ pc' = "stopping"
    /\ UNCHANGED <<fileVars, serving, watching, notice, read, prepVars>>

(* The process ends from here by a signal, whether the services stop in the *)
(* grace period or not, or because all services ended by themselves.        *)
Ended == pc \in {"run", "stopping"} /\ Exit

(* The services have ended. Older notices are taken out of the mailbox      *)
(* before the file is read for the last time.                               *)
Drain ==
    /\ pc = "stopping" /\ serving' = FALSE /\ pc' = "final"
    /\ next' = (IF reloadCh = NoRoot THEN next ELSE reloadCh)
    /\ reloadCh' = NoRoot
    /\ UNCHANGED <<fileVars, root, watching, notice, read, prepVars, guard>>

(* readFinalReloadConfig; a root that is not PrivacyReady is prepared again. *)
readFinalReloadConfig(notified) ==
    LET fit == {l \in Loads(file) : FitsLayout(l.root)}
        kept == {[root |-> notified, key |-> keyHeld]}
    IN  IF fit = Loads(file) /\ fit # {} THEN fit ELSE fit \cup kept

FinalRead ==
    /\ pc = "final"
    /\ \E l \in readFinalReloadConfig(next) :
          /\ keyHeld' = l.key
          /\ IF l.root.ready
               THEN root' = l.root /\ pc' = "launch" /\ UNCHANGED <<prep, held>>
               ELSE /\ pc' = "prepare" /\ UNCHANGED root
                    /\ prep' = [prep EXCEPT !["main"] = "begin"]
                    /\ held' = [held EXCEPT !["main"] = l.root]
    /\ next' = NoRoot /\ unseen' = FALSE
    /\ UNCHANGED <<file, writes, cli, undone, serving, watchVars, lockVars, guard>>

AgentNext ==
    \/ \E t \in Texts : Edit(t)
    \/ LoadWritableRoot \/ SaveBegins \/ SaveFails
    \/ \E t \in Good, sealed \in BOOLEAN : SaveEnds(t, sealed)
    \/ \E c \in Callers : Prepare(c)
    \/ DebounceOver \/ WatcherReloads
    \/ \E s \in Slots : PrivacyTick(s) \/ PrivacyPrepared(s) \/ PrivacyEnds(s)
    \/ Boot \/ BootFails \/ Prepared \/ PrepareFails
    \/ Launch \/ LayoutFails \/ TakeReload \/ Ended \/ Drain \/ FinalRead

AgentSpec == AgentInit /\ [][AgentNext]_agentVars

-----------------------------------------------------------------------------
(* What runs is what the file holds, or a notice of the difference is under *)
(* way.                                                                     *)
FileFollowed ==
    (/\ pc = "run" /\ file.text \in Good /\ ~unseen
     /\ ~notice /\ read = NoRoot /\ reloadCh = NoRoot) => Of(root) = file

(* A configuration is read for the services only when those of the one      *)
(* before have ended.                                                       *)
OneConfigurationRuns ==
    serving <=> pc \in {"run", "stopping"}

(* Protection and the command line never undo each other's writes.          *)
WritesKept == ~undone

(* runWithReload, the watcher and the protection of config.yml together:    *)
(* the newest good file ends up running however notices, restarts and       *)
(* rewrites of the file fall together, one configuration at a time, and no  *)
(* save through the command line is lost.                                   *)
AgentHolds == FileFollowed /\ OneConfigurationRuns /\ WritesKept

-----------------------------------------------------------------------------
(* Types, and why it holds.                                                 *)
Forms == [text : Texts, sealed : BOOLEAN]
Roots == [text : Texts, sealed : BOOLEAN, failed : BOOLEAN, ready : BOOLEAN]
Saves == [base : Forms, step : {"loaded", "locked"}]

ASSUME NoRootAssumption == NoRoot \notin Roots \cup Saves

\* Type invariant: what stands for the file, the roots and the mailbox.
AgentTypeOK ==
    /\ file \in Forms /\ edited \in BOOLEAN /\ writes \in Nat
    /\ lock \in {"free", "cli"} \cup Callers
    /\ cli \in Saves \cup {NoRoot}
    /\ pc \in {"down", "prepare", "launch", "run", "stopping", "final"}
    /\ root \in Roots \cup {NoRoot} /\ next \in Roots \cup {NoRoot}
    /\ serving \in BOOLEAN /\ watching \in BOOLEAN /\ notice \in BOOLEAN
    /\ reloadCh \in Roots \cup {NoRoot} /\ read \in Roots \cup {NoRoot}
    /\ prep \in [Callers -> {"none", "begin", "checked", "keep", "seal", "restore", "done",
                             "error"}]
    /\ held \in [Callers -> Roots \cup {NoRoot}]
    /\ guard \in [Slots -> [step : {"off", "wait"}, failed : BOOLEAN, cancelled : BOOLEAN]]
    /\ keyHeld \in BOOLEAN /\ unseen \in BOOLEAN /\ undone \in BOOLEAN

\* Where a root is needed there is one.
RootsPresent ==
    /\ \A c \in Callers : prep[c] # "none" => held[c] # NoRoot
    /\ pc = "prepare" <=> prep["main"] # "none"
    /\ pc \in {"launch", "run"} => root # NoRoot
    /\ pc \in {"stopping", "final"} => next # NoRoot

\* The lock of the configuration belongs to the one who writes, and the file
\* is still what the writer read unless the owner has edited it.
LockHeld ==
    /\ \A c \in Callers :
         /\ prep[c] \in {"checked", "keep", "seal", "restore"} => lock = c
         /\ prep[c] \in {"keep", "seal", "restore"} => edited \/ file = Of(held[c])
    /\ cli # NoRoot /\ cli.step = "locked" => lock = "cli" /\ (edited \/ file = cli.base)

\* Whatever may change the file behind the services' back is watched.
WatchedWhileServing ==
    /\ pc = "run" => watching
    /\ \A s \in Slots : /\ prep[s] # "none" => guard[s].step = "wait"
                        /\ guard[s].step = "wait" => watching
    /\ read # NoRoot => watching

\* What the watcher has read is the file, or the file has changed since.
ReadIsFile == read # NoRoot /\ ~notice => Of(read) = file

\* The configuration that is to run next, or runs.
Chosen == IF pc = "prepare" THEN held["main"] ELSE root

ChosenIsFile ==
    (/\ pc \in {"prepare", "launch", "run"} /\ file.text \in Good /\ ~unseen
     /\ ~notice /\ read = NoRoot /\ reloadCh = NoRoot) => Of(Chosen) = file

AgentInv ==
    /\ RootsPresent /\ LockHeld /\ WatchedWhileServing /\ ReadIsFile /\ ChosenIsFile
    /\ OneConfigurationRuns /\ WritesKept
=============================================================================
