---------------------------- MODULE ProcessProofs ----------------------------
(***************************************************************************)
(* Proofs about the process of the agent and what runs beside it: the      *)
(* configuration it follows (AgentProcess), its certificates               *)
(* (Certificates), and the operations and upgrades that restart it         *)
(* (RemoteUpgrade).  Each part proves an inductive invariant step by step  *)
(* and from it the property of its module.                                 *)
(***************************************************************************)
EXTENDS AgentProcess, Certificates, RemoteUpgrade, TLAPS

-----------------------------------------------------------------------------
(* AgentProcess: the file, the configuration that runs and who writes.       *)

\* What a loaded file gives is a configuration of that file, not yet prepared.
LEMMA LoadsAreRoots ==
    ASSUME NEW f \in Forms, keyHeld \in BOOLEAN, NEW l \in Loads(f)
    PROVE  /\ l.root \in Roots /\ Of(l.root) = f /\ l.key \in BOOLEAN /\ ~l.root.ready
           /\ f.text \notin Broken /\ l.root.text = f.text /\ l.root # NoRoot
<1>1. f.text \notin Broken
    BY DEF Loads
<1>2. \E b \in BOOLEAN : l.root = Root(f, b) /\ l.key \in BOOLEAN
    <2>1. CASE f.sealed
        <3>1. PICK o \in Opens : l = [root |-> Root(f, o.failed), key |-> o.key]
            BY <1>1, <2>1 DEF Loads
        <3>2. \/ o = [failed |-> FALSE, key |-> TRUE]
              \/ o = [failed |-> TRUE, key |-> FALSE]
            BY DEF Opens
        <3>3. o.failed \in BOOLEAN /\ o.key \in BOOLEAN
            <4>1. CASE o = [failed |-> FALSE, key |-> TRUE]
                BY <4>1
            <4>2. CASE o = [failed |-> TRUE, key |-> FALSE]
                BY <4>2
            <4> QED BY <3>2, <4>1, <4>2
        <3>4. l.root = Root(f, o.failed) /\ l.key = o.key
            BY <3>1
        <3> QED BY <3>3, <3>4
    <2>2. CASE ~f.sealed
        <3>1. l = [root |-> Root(f, FALSE), key |-> keyHeld]
            BY <1>1, <2>2 DEF Loads
        <3> QED BY <3>1
    <2> QED BY <2>1, <2>2
<1>3. PICK b \in BOOLEAN : l.root = Root(f, b) /\ l.key \in BOOLEAN
    BY <1>2
<1>4. f = [text |-> f.text, sealed |-> f.sealed] /\ f.text \in Texts /\ f.sealed \in BOOLEAN
    BY DEF Forms
<1>5. Root(f, b) \in Roots /\ Of(Root(f, b)) = f /\ ~Root(f, b).ready /\ Root(f, b).text = f.text
    BY <1>4 DEF Root, Roots, Of
<1> QED BY <1>1, <1>3, <1>5, NoRootAssumption

\* A file whose text is good loads, and only to roots that fit.
LEMMA GoodFileLoads ==
    ASSUME NEW f \in Forms, f.text \in Good
    PROVE  Loads(f) # {} /\ {l \in Loads(f) : FitsLayout(l.root)} = Loads(f)
<1>1. f.text \notin Broken
    BY AgentAssumption
<1>2. Opens # {}
    BY DEF Opens
<1>3. Loads(f) # {}
    <2>1. CASE f.sealed
        <3>1. PICK o \in Opens : TRUE
            BY <1>2
        <3>2. [root |-> Root(f, o.failed), key |-> o.key] \in Loads(f)
            BY <1>1, <2>1, <3>1 DEF Loads
        <3> QED BY <3>2
    <2>2. CASE ~f.sealed
        BY <1>1, <2>2 DEF Loads
    <2> QED BY <2>1, <2>2
<1>4. ASSUME NEW l \in Loads(f) PROVE FitsLayout(l.root)
    <2>1. CASE l = [root |-> Root(f, FALSE), key |-> keyHeld]
        <3>1. l.root.text = f.text
            BY <2>1 DEF Root
        <3> QED BY <3>1 DEF FitsLayout
    <2>2. CASE \E o \in Opens : l = [root |-> Root(f, o.failed), key |-> o.key]
        <3>1. l.root.text = f.text
            BY <2>2 DEF Root
        <3> QED BY <3>1 DEF FitsLayout
    <2> QED BY <1>1, <2>1, <2>2 DEF Loads
<1> QED BY <1>3, <1>4

\* The main loop, the guards and the command line are told apart.
LEMMA CallersKnown ==
    /\ "main" \in Callers /\ \A s \in Slots : s \in Callers /\ s # "main"
    /\ \A c \in Callers : c # "cli" /\ c # "free"
    /\ \A c \in Callers : c # "main" => c \in Slots
    BY AgentAssumption DEF Callers

\* The process before it has started.
LEMMA AgentStarts == AgentInit => AgentTypeOK /\ AgentInv
<1> SUFFICES ASSUME AgentInit PROVE AgentTypeOK /\ AgentInv
    OBVIOUS
<1>1. AgentTypeOK
    BY AgentAssumption, CallersKnown DEF AgentInit, AgentTypeOK, Forms, Texts, Off
<1>2. AgentInv
    BY CallersKnown DEF AgentInit, AgentInv, RootsPresent, LockHeld, WatchedWhileServing,
        ReadIsFile, ChosenIsFile,
        OneConfigurationRuns, WritesKept, Off
<1> QED BY <1>1, <1>2

\* Everything an exit leaves.
LEMMA ExitKeeps ==
    ASSUME AgentTypeOK, AgentInv, Exit
    PROVE  AgentTypeOK' /\ AgentInv'
<1>1. AgentTypeOK'
    BY CallersKnown DEF Exit, AgentTypeOK, lockVars, Off
<1>2. AgentInv'
    BY CallersKnown DEF Exit, AgentTypeOK, AgentInv, lockVars, RootsPresent, LockHeld,
        WatchedWhileServing, ReadIsFile, ChosenIsFile,
        OneConfigurationRuns, WritesKept, Off, Of
<1> QED BY <1>1, <1>2

\* The owner edits the file: no one has read the new text.
LEMMA EditKeeps ==
    ASSUME AgentTypeOK, AgentInv, NEW t \in Texts, Edit(t)
    PROVE  AgentTypeOK' /\ AgentInv'
<1>1. AgentTypeOK'
    BY CallersKnown
       DEF AgentTypeOK, Edit, FileChanges, fileVars, mainVars, watchVars, lockVars, prepVars,
           Forms
<1>2. AgentInv'
    BY CallersKnown
       DEF AgentTypeOK, AgentInv, Edit, FileChanges, fileVars, mainVars, watchVars, lockVars,
           prepVars,
           RootsPresent, LockHeld, WatchedWhileServing, ReadIsFile, Chosen,
           ChosenIsFile, OneConfigurationRuns, WritesKept
<1> QED BY <1>1, <1>2

\* The command line loads the file.
LEMMA LoadWritableKeeps ==
    ASSUME AgentTypeOK, AgentInv, LoadWritableRoot
    PROVE  AgentTypeOK' /\ AgentInv'
<1>1. AgentTypeOK'
    BY CallersKnown, NoRootAssumption
       DEF AgentTypeOK, LoadWritableRoot, Saves, fileVars, mainVars, watchVars, lockVars,
           prepVars
<1>2. AgentInv'
    BY CallersKnown, NoRootAssumption
       DEF AgentTypeOK, AgentInv, LoadWritableRoot, Saves, fileVars, mainVars, watchVars,
           lockVars, prepVars,
           RootsPresent, LockHeld, WatchedWhileServing, ReadIsFile, Chosen,
           ChosenIsFile, OneConfigurationRuns, WritesKept
<1> QED BY <1>1, <1>2

\* It takes the lock when the file is what it loaded.
LEMMA SaveBeginsKeeps ==
    ASSUME AgentTypeOK, AgentInv, SaveBegins
    PROVE  AgentTypeOK' /\ AgentInv'
<1>1. AgentTypeOK'
    BY CallersKnown
       DEF AgentTypeOK, SaveBegins, Saves, fileVars, mainVars, watchVars, lockVars, prepVars
<1>2. AgentInv'
    BY CallersKnown, NoRootAssumption
       DEF AgentTypeOK, AgentInv, SaveBegins, Saves, fileVars, mainVars, watchVars, lockVars,
           prepVars,
           RootsPresent, LockHeld, WatchedWhileServing, ReadIsFile, Chosen,
           ChosenIsFile, OneConfigurationRuns, WritesKept
<1> QED BY <1>1, <1>2

\* It writes under the lock.
LEMMA SaveEndsKeeps ==
    ASSUME AgentTypeOK, AgentInv, NEW t \in Good, NEW sealed \in BOOLEAN, SaveEnds(t, sealed)
    PROVE  AgentTypeOK' /\ AgentInv'
<1>1. AgentTypeOK'
    BY CallersKnown, ZenonT(60)
       DEF AgentTypeOK, SaveEnds, Saves, FileChanges, Forms, Texts, fileVars, mainVars,
           watchVars, lockVars, prepVars
<1>2. AgentInv'
    BY CallersKnown, NoRootAssumption, ZenonT(60)
       DEF AgentTypeOK, AgentInv, SaveEnds, Saves, FileChanges, Forms, Texts, fileVars,
           mainVars, watchVars, lockVars, prepVars,
           RootsPresent, LockHeld, WatchedWhileServing, ReadIsFile, Chosen,
           ChosenIsFile, OneConfigurationRuns, WritesKept
<1> QED BY <1>1, <1>2

\* Or gives up.
LEMMA SaveFailsKeeps ==
    ASSUME AgentTypeOK, AgentInv, SaveFails
    PROVE  AgentTypeOK' /\ AgentInv'
<1>1. AgentTypeOK'
    <2>1. CASE cli.step = "locked"
        <3>1. edited' \in BOOLEAN
            BY <2>1 DEF SaveFails
        <3>2. lock' = "free" /\ cli' = NoRoot
            BY <2>1 DEF SaveFails
        <3> QED BY <3>1, <3>2 DEF AgentTypeOK, SaveFails, fileVars, mainVars, watchVars
    <2>2. CASE cli.step # "locked"
        BY <2>2 DEF AgentTypeOK, SaveFails, fileVars, mainVars, watchVars
    <2> QED BY <2>1, <2>2
<1>2. AgentInv'
    BY CallersKnown, NoRootAssumption
       DEF AgentTypeOK, AgentInv, SaveFails, Saves, fileVars, mainVars, watchVars,
           RootsPresent, LockHeld, WatchedWhileServing, ReadIsFile, Chosen,
           ChosenIsFile, OneConfigurationRuns, WritesKept
<1> QED BY <1>1, <1>2

\* A caller takes the lock when the file is the one its root was read from.
LEMMA PrepareChecksKeeps ==
    ASSUME AgentTypeOK, AgentInv, NEW c \in Callers, PrepareChecks(c)
    PROVE  AgentTypeOK' /\ AgentInv'
<1>1. AgentTypeOK'
    <2>1. CASE Of(held[c]) = file
        BY <2>1, CallersKnown DEF AgentTypeOK, PrepareChecks, fileVars, mainVars
    <2>2. CASE Of(held[c]) # file
        <3>1. edited' \in BOOLEAN
            BY <2>2 DEF PrepareChecks, Ends
        <3>2. lock' = "free" /\ prep' = [prep EXCEPT ![c] = "error"]
            BY <2>2 DEF PrepareChecks, Ends
        <3> QED BY <3>1, <3>2 DEF AgentTypeOK, PrepareChecks, fileVars, mainVars
    <2> QED BY <2>1, <2>2
<1>2. AgentInv'
    BY CallersKnown
       DEF AgentTypeOK, AgentInv, PrepareChecks, Ends, fileVars, mainVars,
           RootsPresent, LockHeld, WatchedWhileServing, ReadIsFile, Chosen,
           ChosenIsFile, OneConfigurationRuns, WritesKept
<1> QED BY <1>1, <1>2

\* Or does not get it.
LEMMA PrepareTimesOutKeeps ==
    ASSUME AgentTypeOK, AgentInv, NEW c \in Callers, PrepareTimesOut(c)
    PROVE  AgentTypeOK' /\ AgentInv'
<1>1. AgentTypeOK'
    BY CallersKnown
       DEF AgentTypeOK, PrepareTimesOut, fileVars, mainVars, watchVars, lockVars, prepVars
<1>2. AgentInv'
    BY CallersKnown
       DEF AgentTypeOK, AgentInv, PrepareTimesOut, fileVars, mainVars, watchVars, lockVars,
           prepVars,
           RootsPresent, LockHeld, WatchedWhileServing, ReadIsFile, Chosen,
           ChosenIsFile, OneConfigurationRuns, WritesKept
<1> QED BY <1>1, <1>2

\* A root in another form, ready.
LEMMA Rewritten ==
    ASSUME NEW r \in Roots, NEW b \in BOOLEAN
    PROVE  LET q == [r EXCEPT !.sealed = b, !.ready = TRUE]
           IN  q \in Roots /\ Of(q) = [text |-> r.text, sealed |-> b]
    BY DEF Roots, Of

\* What the answer of the panel makes of a root: the caller is done, gives up,
\* or goes on to write a file that is still what it read.
LEMMA ResolvesCases ==
    ASSUME AgentTypeOK, AgentInv, NEW c \in Callers,
           NEW answer \in {"none", "off", "recovery", "on"}, NEW bound \in BOOLEAN,
           PrepareResolves(c, answer, bound)
    PROVE  /\ prep[c] = "checked" /\ keyHeld' \in BOOLEAN /\ edited' = FALSE
           /\ \E how \in {"done", "error", "keep", "seal", "restore"} :
                /\ prep' = [prep EXCEPT ![c] = how]
                /\ how \in {"done", "error"} => lock' = "free"
                /\ how \notin {"done", "error"} => lock' = lock /\ file = Of(held[c])
           /\ held' \in [Callers -> Roots \cup {NoRoot}]
           /\ \A d \in Callers : /\ held'[d] # NoRoot <=> held[d] # NoRoot
                                 /\ Of(held'[d]) = Of(held[d])
           /\ UNCHANGED <<fileVars, mainVars, watchVars, guard>>
<1> DEFINE r == held[c]
           resolved == Resolved(r, answer)
           failed == r.failed \/ resolved = "fails" \/ (resolved # "nothing" /\ ~bound)
<1>1. prep[c] = "checked" /\ UNCHANGED <<fileVars, mainVars, watchVars, guard>>
    BY DEF PrepareResolves
<1>2. r \in Roots /\ r # NoRoot
    BY <1>1 DEF AgentTypeOK, AgentInv, RootsPresent
<1>3. keyHeld' \in BOOLEAN
    <2>1. keyHeld' = (keyHeld \/ (~r.failed /\ answer \in {"recovery", "on"}))
        BY DEF PrepareResolves
    <2> QED BY <2>1
<1>4. resolved \in {"nothing", "fails", "seal", "restore"}
    BY DEF Resolved
<1>5. failed \in BOOLEAN
    BY <1>2 DEF Roots
<1>6. \A x \in BOOLEAN : \A y \in {r.ready, TRUE} :
        LET q == [r EXCEPT !.failed = x, !.ready = y]
        IN  q \in Roots /\ Of(q) = Of(r)
    BY <1>2 DEF Roots, Of
<1>7. CASE resolved \in {"nothing", "fails"}
    <2>1. /\ prep' = [prep EXCEPT ![c] = "done"] /\ lock' = "free" /\ edited' = FALSE
          /\ held' = [held EXCEPT ![c].ready = TRUE, ![c].failed = failed]
        BY <1>7 DEF PrepareResolves, Ends
    <2>2. held' = [held EXCEPT ![c] = [r EXCEPT !.failed = failed, !.ready = TRUE]]
        BY <2>1, <1>2 DEF AgentTypeOK, Roots
    <2> HIDE DEF failed
    <2>3. held' \in [Callers -> Roots \cup {NoRoot}]
          /\ \A d \in Callers : /\ held'[d] # NoRoot <=> held[d] # NoRoot
                                /\ Of(held'[d]) = Of(held[d])
        BY <1>2, <1>5, <1>6, <2>2, NoRootAssumption DEF AgentTypeOK
    <2> QED BY <1>1, <1>3, <2>1, <2>3
<1>8. CASE resolved \in {"seal", "restore"} /\ (~StillAsRead(r) \/ Cancelled(c))
    <2>1. /\ prep' = [prep EXCEPT ![c] = "error"] /\ lock' = "free" /\ edited' = FALSE
          /\ held' = held
        BY <1>8 DEF PrepareResolves, Ends
    <2> QED BY <1>1, <1>3, <2>1 DEF AgentTypeOK
<1>9. CASE resolved \in {"seal", "restore"} /\ ~(~StillAsRead(r) \/ Cancelled(c))
    <2>1. /\ prep' = [prep EXCEPT ![c] = IF ~bound THEN "keep" ELSE resolved]
          /\ lock' = lock /\ edited' = FALSE
          /\ held' = [held EXCEPT ![c].failed = failed]
        BY <1>9 DEF PrepareResolves
    <2>2. held' = [held EXCEPT ![c] = [r EXCEPT !.failed = failed, !.ready = r.ready]]
        BY <2>1, <1>2 DEF AgentTypeOK, Roots
    <2>3. file = Of(r)
        BY <1>9 DEF StillAsRead
    <2> HIDE DEF failed
    <2>4. held' \in [Callers -> Roots \cup {NoRoot}]
          /\ \A d \in Callers : /\ held'[d] # NoRoot <=> held[d] # NoRoot
                                /\ Of(held'[d]) = Of(held[d])
        BY <1>2, <1>5, <1>6, <2>2, NoRootAssumption DEF AgentTypeOK
    <2> QED BY <1>1, <1>3, <1>4, <1>9, <2>1, <2>3, <2>4
<1> QED BY <1>4, <1>7, <1>8, <1>9

\* The protection decides under the lock whether to keep, seal or restore the file.
LEMMA PrepareResolvesKeeps ==
    ASSUME AgentTypeOK, AgentInv, NEW c \in Callers,
           NEW answer \in {"none", "off", "recovery", "on"}, NEW bound \in BOOLEAN,
           PrepareResolves(c, answer, bound)
    PROVE  AgentTypeOK' /\ AgentInv'
<1>0. PICK how \in {"done", "error", "keep", "seal", "restore"} :
                /\ prep' = [prep EXCEPT ![c] = how]
                /\ how \in {"done", "error"} => lock' = "free"
                /\ how \notin {"done", "error"} => lock' = lock /\ file = Of(held[c])
    BY ResolvesCases
<1>a. /\ prep[c] = "checked" /\ keyHeld' \in BOOLEAN /\ edited' = FALSE
      /\ held' \in [Callers -> Roots \cup {NoRoot}]
      /\ \A d \in Callers : /\ held'[d] # NoRoot <=> held[d] # NoRoot
                            /\ Of(held'[d]) = Of(held[d])
      /\ UNCHANGED <<fileVars, mainVars, watchVars, guard>>
    BY ResolvesCases
<1>b. edited' \in BOOLEAN /\ lock' \in {"free", lock}
    BY <1>0, <1>a
<1>c. lock = c
    BY <1>a DEF AgentInv, LockHeld
<1> USE DEF fileVars, mainVars, watchVars
<1>1. AgentTypeOK'
    <2>1. lock' \in {"free", "cli"} \cup Callers
        BY <1>b DEF AgentTypeOK
    <2>2. prep' \in [Callers -> {"none", "begin", "checked", "keep", "seal", "restore", "done",
                                 "error"}]
        BY <1>0 DEF AgentTypeOK
    <2> QED BY <1>a, <1>b, <2>1, <2>2 DEF AgentTypeOK
<1>2. AgentInv'
    <2>1. RootsPresent'
        BY <1>0, <1>a, CallersKnown DEF AgentTypeOK, AgentInv, RootsPresent
    <2>2. LockHeld'
        BY <1>0, <1>a, <1>c, CallersKnown DEF AgentTypeOK, AgentInv, LockHeld
    <2>3. (WatchedWhileServing /\ ReadIsFile)'
        BY <1>0, <1>a, CallersKnown
           DEF AgentTypeOK, AgentInv, WatchedWhileServing, ReadIsFile
    <2>4. ChosenIsFile'
        BY <1>0, <1>a, CallersKnown DEF AgentInv, ChosenIsFile, Chosen, Of
    <2>5. (OneConfigurationRuns /\ WritesKept)'
        BY <1>a DEF AgentInv, OneConfigurationRuns, WritesKept
    <2> QED BY <2>1, <2>2, <2>3, <2>4, <2>5 DEF AgentInv
<1> QED BY <1>1, <1>2

\* A caller that may write finds the file as it read it, unless the owner has
\* edited it; what it writes in another form is seen by a watcher or was read
\* by the main goroutine itself.
LEMMA PrepareWritesKeeps ==
    ASSUME AgentTypeOK, AgentInv, NEW c \in Callers,
           NEW written \in BOOLEAN, NEW ok \in BOOLEAN, PrepareWrites(c, written, ok)
    PROVE  AgentTypeOK' /\ AgentInv'
<1> DEFINE r == held[c]
           sealed == IF prep[c] = "keep" THEN r.sealed ELSE prep[c] = "seal"
           changed == written /\ sealed # r.sealed
           new == [text |-> r.text, sealed |-> sealed]
           how == IF ok THEN "done" ELSE "error"
<1>1. /\ prep[c] \in {"keep", "seal", "restore"}
      /\ prep' = [prep EXCEPT ![c] = how] /\ lock' = "free" /\ edited' = FALSE
      /\ UNCHANGED <<writes, cli, unseen, mainVars, reloadCh, watching, read, guard, keyHeld>>
      /\ IF changed
             THEN /\ file' = new /\ notice' = watching
                  /\ undone' = (undone \/ (file # Of(r) /\ ~edited))
             ELSE UNCHANGED <<file, notice, undone>>
      /\ held' = IF written
                     THEN [held EXCEPT ![c].sealed = sealed, ![c].ready = TRUE]
                     ELSE held
    BY DEF PrepareWrites, FileChanges, Ends
<1>2. r \in Roots /\ r # NoRoot /\ lock = c
    BY <1>1 DEF AgentTypeOK, AgentInv, RootsPresent, LockHeld
<1>3. edited \/ file = Of(r)
    BY <1>1 DEF AgentInv, LockHeld
<1>4. sealed \in BOOLEAN /\ r.text \in Texts /\ r.failed \in BOOLEAN /\ r.sealed \in BOOLEAN
    BY <1>2 DEF Roots
<1>5. /\ held' = [held EXCEPT ![c] = held'[c]] /\ held'[c] \in Roots /\ held'[c] # NoRoot
      /\ written => Of(held'[c]) = new
      /\ ~written => held'[c] = r
    <2>1. CASE written
        <3> DEFINE q == [r EXCEPT !.sealed = sealed, !.ready = TRUE]
        <3>1. held' = [held EXCEPT ![c] = q]
            <4> HIDE DEF sealed
            <4> QED BY <1>1, <2>1 DEF AgentTypeOK
        <3>2. q \in Roots /\ Of(q) = new
            <4> HIDE DEF sealed
            <4> QED BY <1>2, <1>4, Rewritten
        <3> HIDE DEF q, sealed
        <3>3. held'[c] = q
            BY <3>1 DEF AgentTypeOK
        <3> QED BY <2>1, <3>1, <3>2, <3>3, NoRootAssumption
    <2>2. CASE ~written
        BY <1>1, <1>2, <2>2 DEF AgentTypeOK
    <2> QED BY <2>1, <2>2
<1>6. file' \in {file, new} /\ new \in Forms /\ (file' # file => notice' = watching)
      /\ undone' = FALSE /\ notice' \in {notice, watching}
      /\ (file' = file => notice' = notice \/ notice' = watching)
    <2>1. new \in Forms
        BY <1>4 DEF Forms
    <2>2. undone = FALSE
        BY DEF AgentTypeOK, AgentInv, WritesKept
    <2>3. CASE changed
        <3> HIDE DEF new, changed
        <3> QED BY <1>1, <1>3, <2>1, <2>2, <2>3
    <2>4. CASE ~changed
        <3> HIDE DEF new, changed
        <3> QED BY <1>1, <2>1, <2>2, <2>4
    <2> QED BY <2>3, <2>4
<1>7. how \in {"done", "error"} /\ edited' \in BOOLEAN
    BY <1>1
<1> HIDE DEF how
<1> USE DEF mainVars
<1>8. AgentTypeOK'
    <2>1. held' \in [Callers -> Roots \cup {NoRoot}]
        BY <1>5 DEF AgentTypeOK
    <2>2. notice' \in BOOLEAN /\ undone' \in BOOLEAN
        BY <1>6 DEF AgentTypeOK
    <2>3. file' \in Forms
        BY <1>6 DEF AgentTypeOK
    <2> HIDE DEF r, sealed, changed, new
    <2> QED BY <1>1, <1>7, <2>1, <2>2, <2>3 DEF AgentTypeOK
<1>9. AgentInv'
    <2>0. \A d \in Callers : d # c => held'[d] = held[d] /\ prep'[d] = prep[d]
        BY <1>1, <1>5 DEF AgentTypeOK
    <2>a. prep'[c] = how
        BY <1>1 DEF AgentTypeOK
    <2>1. RootsPresent'
        <3> HIDE DEF r, sealed, changed, new
        <3> QED BY <1>1, <1>5, <1>7, <2>0, <2>a, CallersKnown DEF AgentInv, RootsPresent
    <2>2. LockHeld'
        <3> HIDE DEF r, sealed, changed, new
        <3> QED BY <1>1, <1>2, <1>7, <2>0, <2>a, CallersKnown DEF AgentInv, LockHeld
    <2>3. WatchedWhileServing'
        <3> HIDE DEF r, sealed, changed, new
        <3> QED BY <1>1, <1>7, <2>0, <2>a, CallersKnown DEF AgentInv, WatchedWhileServing
    <2>4. ReadIsFile'
        <3> HIDE DEF r, sealed, new
        <3> QED BY <1>1 DEF AgentTypeOK, AgentInv, ReadIsFile, WatchedWhileServing
    <2>5. ChosenIsFile'
        <3> SUFFICES ASSUME pc \in {"prepare", "launch", "run"}, file'.text \in Good, ~unseen,
                            ~notice', read = NoRoot, reloadCh = NoRoot
                     PROVE  Of(Chosen') = file'
            BY <1>1 DEF ChosenIsFile
        <3>1. CASE c = "main"
            <4>0. pc = "prepare" /\ Chosen' = held'[c] /\ Chosen = r
                BY <1>1, <3>1 DEF AgentInv, RootsPresent, Chosen
            <4>1. CASE changed
                BY <1>1, <1>5, <4>0, <4>1
            <4>2. CASE ~changed
                <5>1. file' = file /\ notice' = notice
                    BY <1>1, <4>2
                <5>2. Of(r) = file
                    BY <4>0, <5>1 DEF AgentInv, ChosenIsFile
                <5>3. Of(held'[c]) = Of(r)
                    <6>1. CASE written
                        <7>1. sealed = r.sealed
                            BY <4>2, <6>1, <1>4
                        <7> QED BY <1>5, <6>1, <7>1 DEF Of
                    <6> QED BY <1>5, <6>1
                <5> QED BY <4>0, <5>1, <5>2, <5>3
            <4> QED BY <4>1, <4>2
        <3>2. CASE c # "main"
            <4>1. watching
                BY <1>1, <3>2, CallersKnown DEF AgentInv, WatchedWhileServing
            <4>2. ~changed /\ file' = file /\ notice' = notice
                <5> HIDE DEF changed, new
                <5> QED BY <1>1, <4>1
            <4>3. Chosen' = Chosen
                BY <1>1, <2>0, <3>2, CallersKnown DEF Chosen
            <4> HIDE DEF changed, new, r, sealed
            <4> QED BY <4>2, <4>3 DEF AgentInv, ChosenIsFile
        <3> QED BY <3>1, <3>2
    <2>6. (OneConfigurationRuns /\ WritesKept)'
        BY <1>1, <1>6 DEF AgentInv, OneConfigurationRuns, WritesKept
    <2> QED BY <2>1, <2>2, <2>3, <2>4, <2>5, <2>6 DEF AgentInv
<1> QED BY <1>8, <1>9

\* The watcher has waited and reads the file.
LEMMA DebounceOverKeeps ==
    ASSUME AgentTypeOK, AgentInv, DebounceOver
    PROVE  AgentTypeOK' /\ AgentInv'
<1> USE DEF DebounceOver, fileVars, mainVars, lockVars
<1>0. \/ file.text \in Broken /\ read' = read /\ keyHeld' = keyHeld
      \/ /\ read' \in Roots /\ Of(read') = file /\ keyHeld' \in BOOLEAN
         /\ file.text \notin Broken
    <2>1. CASE file.text \in Broken /\ UNCHANGED <<read, keyHeld>>
        BY <2>1
    <2>2. CASE \E l \in Loads(file) : read' = l.root /\ keyHeld' = l.key
        BY <2>2, LoadsAreRoots DEF AgentTypeOK
    <2> QED BY <2>1, <2>2
<1>1. AgentTypeOK'
    <2>1. notice' \in BOOLEAN
        OBVIOUS
    <2>2. keyHeld' \in BOOLEAN /\ read' \in Roots \cup {NoRoot}
        BY <1>0 DEF AgentTypeOK
    <2> QED BY <2>1, <2>2 DEF AgentTypeOK
<1>2. AgentInv'
    <2>1. (RootsPresent /\ LockHeld /\ WatchedWhileServing)'
        BY <1>0 DEF AgentTypeOK, AgentInv, RootsPresent, LockHeld, WatchedWhileServing
    <2>2. ReadIsFile'
        BY <1>0, NoRootAssumption DEF ReadIsFile, Of
    <2>3. ChosenIsFile'
        BY <1>0, AgentAssumption, NoRootAssumption DEF ChosenIsFile
    <2>4. (OneConfigurationRuns /\ WritesKept)'
        BY DEF AgentInv, OneConfigurationRuns, WritesKept
    <2> QED BY <2>1, <2>2, <2>3, <2>4 DEF AgentInv
<1> QED BY <1>1, <1>2

\* What it has read waits in the mailbox.
LEMMA WatcherReloadsKeeps ==
    ASSUME AgentTypeOK, AgentInv, WatcherReloads
    PROVE  AgentTypeOK' /\ AgentInv'
<1> USE DEF WatcherReloads, enqueueReload, fileVars, mainVars, prepVars, lockVars
<1>1. AgentTypeOK'
    BY DEF AgentTypeOK
<1>2. AgentInv'
    <2>1. (RootsPresent /\ LockHeld /\ WatchedWhileServing /\ ReadIsFile)'
        BY DEF AgentTypeOK, AgentInv, RootsPresent, LockHeld, WatchedWhileServing, ReadIsFile
    <2>2. ChosenIsFile'
        <3> SUFFICES ASSUME file.text \in Good, ~notice, reloadCh' = NoRoot PROVE FALSE
            BY DEF ChosenIsFile
        <3>1. Of(read) = file
            BY DEF AgentInv, ReadIsFile
        <3>2. FitsLayout(read)
            BY <3>1 DEF FitsLayout, Of
        <3> QED BY <3>2
    <2>3. (OneConfigurationRuns /\ WritesKept)'
        BY DEF AgentInv, OneConfigurationRuns, WritesKept
    <2> QED BY <2>1, <2>2, <2>3 DEF AgentInv
<1> QED BY <1>1, <1>2

\* A guard reads the file under the lock.
LEMMA PrivacyTickKeeps ==
    ASSUME AgentTypeOK, AgentInv, NEW s \in Slots, PrivacyTick(s)
    PROVE  AgentTypeOK' /\ AgentInv'
<1>1. AgentTypeOK'
    BY CallersKnown, LoadsAreRoots
       DEF AgentTypeOK, PrivacyTick, fileVars, mainVars, watchVars, lockVars, prepVars
<1>2. AgentInv'
    BY CallersKnown, LoadsAreRoots, NoRootAssumption
       DEF AgentTypeOK, AgentInv, PrivacyTick, fileVars, mainVars, watchVars, lockVars,
           prepVars,
           RootsPresent, LockHeld, WatchedWhileServing, ReadIsFile, Chosen,
           ChosenIsFile, OneConfigurationRuns, WritesKept
<1> QED BY <1>1, <1>2

\* It is done, perhaps with a reload.
LEMMA PrivacyPreparedKeeps ==
    ASSUME AgentTypeOK, AgentInv, NEW s \in Slots, PrivacyPrepared(s)
    PROVE  AgentTypeOK' /\ AgentInv'
<1>1. AgentTypeOK'
    <2> USE CallersKnown DEF PrivacyPrepared, enqueueReload, fileVars, mainVars, lockVars
    <2>1. reloadCh' \in Roots \cup {NoRoot}
        BY DEF AgentTypeOK
    <2>2. guard' \in [Slots -> [step : {"off", "wait"}, failed : BOOLEAN, cancelled : BOOLEAN]]
        <3>1. Off \in [step : {"off", "wait"}, failed : BOOLEAN, cancelled : BOOLEAN]
            BY DEF Off
        <3>2. guard' = guard \/ guard' = [guard EXCEPT ![s] = Off]
            OBVIOUS
        <3> QED BY <3>1, <3>2 DEF AgentTypeOK
    <2>3. prep' \in [Callers -> {"none", "begin", "checked", "keep", "seal", "restore", "done",
                                 "error"}]
          /\ held' \in [Callers -> Roots \cup {NoRoot}]
        BY DEF AgentTypeOK
    <2> QED BY <2>1, <2>2, <2>3 DEF AgentTypeOK
<1>2. AgentInv'
    BY CallersKnown
       DEF AgentTypeOK, AgentInv, PrivacyPrepared, enqueueReload, Off, fileVars, mainVars,
           lockVars,
           RootsPresent, LockHeld, WatchedWhileServing, ReadIsFile, Chosen,
           ChosenIsFile, OneConfigurationRuns, WritesKept
<1> QED BY <1>1, <1>2

\* It ends with its generation.
LEMMA PrivacyEndsKeeps ==
    ASSUME AgentTypeOK, AgentInv, NEW s \in Slots, PrivacyEnds(s)
    PROVE  AgentTypeOK' /\ AgentInv'
<1>1. AgentTypeOK'
    BY CallersKnown
       DEF AgentTypeOK, PrivacyEnds, Off, fileVars, mainVars, watchVars, lockVars, prepVars
<1>2. AgentInv'
    BY CallersKnown
       DEF AgentTypeOK, AgentInv, PrivacyEnds, Off, fileVars, mainVars, watchVars, lockVars,
           prepVars,
           RootsPresent, LockHeld, WatchedWhileServing, ReadIsFile, Chosen,
           ChosenIsFile, OneConfigurationRuns, WritesKept
<1> QED BY <1>1, <1>2

\* The process starts.
LEMMA BootKeeps ==
    ASSUME AgentTypeOK, AgentInv, Boot
    PROVE  AgentTypeOK' /\ AgentInv'
<1>1. AgentTypeOK'
    BY CallersKnown, LoadsAreRoots
       DEF AgentTypeOK, Boot, fileVars, mainVars, watchVars, lockVars, prepVars
<1>2. AgentInv'
    BY CallersKnown, LoadsAreRoots, NoRootAssumption
       DEF AgentTypeOK, AgentInv, Boot, fileVars, mainVars, watchVars, lockVars, prepVars,
           RootsPresent, LockHeld, WatchedWhileServing, ReadIsFile, Chosen,
           ChosenIsFile, OneConfigurationRuns, WritesKept
<1> QED BY <1>1, <1>2

\* The root is prepared.
LEMMA PreparedKeeps ==
    ASSUME AgentTypeOK, AgentInv, Prepared
    PROVE  AgentTypeOK' /\ AgentInv'
<1>1. AgentTypeOK'
    BY CallersKnown
       DEF AgentTypeOK, Prepared, fileVars, mainVars, watchVars, lockVars, prepVars
<1>2. AgentInv'
    BY CallersKnown
       DEF AgentTypeOK, AgentInv, Prepared, fileVars, mainVars, watchVars, lockVars, prepVars,
           RootsPresent, LockHeld, WatchedWhileServing, ReadIsFile, Chosen,
           ChosenIsFile, OneConfigurationRuns, WritesKept
<1> QED BY <1>1, <1>2

\* The services start.
LEMMA LaunchKeeps ==
    ASSUME AgentTypeOK, AgentInv, Launch
    PROVE  AgentTypeOK' /\ AgentInv'
<1>1. AgentTypeOK'
    <2>1. root \in Roots
        BY DEF AgentTypeOK, AgentInv, RootsPresent, Launch
    <2>2. root.failed \in BOOLEAN
        BY <2>1 DEF Roots
    <2>3. guard' \in [Slots -> [step : {"off", "wait"}, failed : BOOLEAN, cancelled : BOOLEAN]]
        BY <2>2 DEF AgentTypeOK, Launch
    <2> QED BY <2>3 DEF AgentTypeOK, Launch, fileVars, prepVars, lockVars
<1>2. AgentInv'
    BY CallersKnown
       DEF AgentTypeOK, AgentInv, Launch, fileVars, prepVars, lockVars,
           RootsPresent, LockHeld, WatchedWhileServing, ReadIsFile, Chosen,
           ChosenIsFile, OneConfigurationRuns, WritesKept
<1> QED BY <1>1, <1>2

\* A reload is taken.
LEMMA TakeReloadKeeps ==
    ASSUME AgentTypeOK, AgentInv, TakeReload
    PROVE  AgentTypeOK' /\ AgentInv'
<1>1. AgentTypeOK'
    BY CallersKnown, ZenonT(60)
       DEF AgentTypeOK, TakeReload, CancelAll, Off, fileVars, mainVars, watchVars, lockVars,
           prepVars
<1>2. AgentInv'
    BY CallersKnown
       DEF AgentTypeOK, AgentInv, TakeReload, CancelAll, Off, fileVars, mainVars, watchVars,
           lockVars, prepVars,
           RootsPresent, LockHeld, WatchedWhileServing, ReadIsFile, Chosen,
           ChosenIsFile, OneConfigurationRuns, WritesKept
<1> QED BY <1>1, <1>2

\* The services have ended.
LEMMA DrainKeeps ==
    ASSUME AgentTypeOK, AgentInv, Drain
    PROVE  AgentTypeOK' /\ AgentInv'
<1>1. AgentTypeOK'
    BY CallersKnown, ZenonT(60)
       DEF AgentTypeOK, Drain, fileVars, mainVars, watchVars, lockVars, prepVars
<1>2. AgentInv'
    BY CallersKnown
       DEF AgentTypeOK, AgentInv, Drain, fileVars, mainVars, watchVars, lockVars, prepVars,
           RootsPresent, LockHeld, WatchedWhileServing, ReadIsFile, Chosen,
           ChosenIsFile, OneConfigurationRuns, WritesKept
<1> QED BY <1>1, <1>2

\* The file is read for the last time: when its text is good it is what runs
\* next, whatever the notices said.
LEMMA FinalReadKeeps ==
    ASSUME AgentTypeOK, AgentInv, FinalRead
    PROVE  AgentTypeOK' /\ AgentInv'
<1>0. PICK l \in readFinalReloadConfig(next) :
          /\ keyHeld' = l.key
          /\ IF l.root.ready
               THEN root' = l.root /\ pc' = "launch" /\ UNCHANGED <<prep, held>>
               ELSE /\ pc' = "prepare" /\ UNCHANGED root
                    /\ prep' = [prep EXCEPT !["main"] = "begin"]
                    /\ held' = [held EXCEPT !["main"] = l.root]
    BY DEF FinalRead
<1>a. /\ pc = "final" /\ next' = NoRoot /\ unseen' = FALSE /\ unseen' \in BOOLEAN
      /\ UNCHANGED <<file, writes, cli, undone, serving, watchVars, lockVars, guard>>
    BY DEF FinalRead
<1>b. next \in Roots /\ next # NoRoot
    BY <1>a DEF AgentTypeOK, AgentInv, RootsPresent
<1>c. l.root \in Roots /\ l.key \in BOOLEAN
    <2>1. CASE l \in Loads(file)
        BY <2>1, LoadsAreRoots DEF AgentTypeOK
    <2>2. CASE l = [root |-> next, key |-> keyHeld]
        BY <1>b, <2>2 DEF AgentTypeOK
    <2> QED BY <2>1, <2>2 DEF readFinalReloadConfig
<1>d. file.text \in Good => Of(l.root) = file
    <2>1. ASSUME file.text \in Good PROVE l \in Loads(file)
        BY <2>1, GoodFileLoads DEF AgentTypeOK, readFinalReloadConfig
    <2> QED BY <2>1, LoadsAreRoots DEF AgentTypeOK
<1>e. l.root # NoRoot
    BY <1>c, NoRootAssumption
<1>f. prep["main"] = "none"
    BY <1>a DEF AgentInv, RootsPresent, AgentTypeOK, Callers
<1> USE DEF watchVars, lockVars
<1>1. CASE l.root.ready
    <2>0. root' = l.root /\ pc' = "launch" /\ prep' = prep /\ held' = held
        BY <1>0, <1>1
    <2>1. AgentTypeOK'
        BY <1>0, <1>a, <1>c, <2>0 DEF AgentTypeOK
    <2>2. AgentInv'
        <3>1. (RootsPresent /\ LockHeld /\ WatchedWhileServing /\ ReadIsFile)'
            BY <1>a, <1>e, <1>f, <2>0, CallersKnown
               DEF AgentInv, RootsPresent, LockHeld, WatchedWhileServing, ReadIsFile
        <3>2. ChosenIsFile'
            BY <1>a, <1>d, <2>0 DEF ChosenIsFile, Chosen
        <3>3. (OneConfigurationRuns /\ WritesKept)'
            BY <1>a, <2>0 DEF AgentInv, OneConfigurationRuns, WritesKept
        <3> QED BY <3>1, <3>2, <3>3 DEF AgentInv
    <2> QED BY <2>1, <2>2
<1>2. CASE ~l.root.ready
    <2>0. /\ pc' = "prepare" /\ root' = root
          /\ prep' = [prep EXCEPT !["main"] = "begin"]
          /\ held' = [held EXCEPT !["main"] = l.root]
        BY <1>0, <1>2
    <2>a. held'["main"] = l.root
        BY <2>0, CallersKnown DEF AgentTypeOK
    <2>1. AgentTypeOK'
        <3>1. prep' \in [Callers -> {"none", "begin", "checked", "keep", "seal", "restore", "done",
                                     "error"}]
            BY <2>0 DEF AgentTypeOK
        <3>2. held' \in [Callers -> Roots \cup {NoRoot}]
            BY <1>c, <2>0 DEF AgentTypeOK
        <3>3. keyHeld' \in BOOLEAN
            BY <1>0, <1>c
        <3> QED BY <1>a, <2>0, <3>1, <3>2, <3>3 DEF AgentTypeOK
    <2>2. AgentInv'
        <3>1. (RootsPresent /\ LockHeld /\ WatchedWhileServing /\ ReadIsFile)'
            BY <1>a, <1>e, <1>f, <2>0, CallersKnown
               DEF AgentTypeOK, AgentInv, RootsPresent, LockHeld, WatchedWhileServing,
                   ReadIsFile
        <3>2. ChosenIsFile'
            BY <1>a, <1>d, <2>0, <2>a DEF ChosenIsFile, Chosen
        <3>3. (OneConfigurationRuns /\ WritesKept)'
            BY <1>a, <2>0 DEF AgentInv, OneConfigurationRuns, WritesKept
        <3> QED BY <3>1, <3>2, <3>3 DEF AgentInv
    <2> QED BY <2>1, <2>2
<1> QED BY <1>1, <1>2

\* Every step of the process keeps the invariant.
LEMMA AgentStep ==
    ASSUME AgentTypeOK, AgentInv, [AgentNext]_agentVars
    PROVE  AgentTypeOK' /\ AgentInv'
<1>1. ASSUME NEW t \in Texts, Edit(t) PROVE AgentTypeOK' /\ AgentInv'
    BY <1>1, EditKeeps
<1>2. CASE LoadWritableRoot \/ SaveBegins \/ SaveFails
    BY <1>2, LoadWritableKeeps, SaveBeginsKeeps, SaveFailsKeeps
<1>3. ASSUME NEW t \in Good, NEW sealed \in BOOLEAN, SaveEnds(t, sealed)
      PROVE  AgentTypeOK' /\ AgentInv'
    BY <1>3, SaveEndsKeeps
<1>4. ASSUME NEW c \in Callers, Prepare(c) PROVE AgentTypeOK' /\ AgentInv'
    BY <1>4, PrepareChecksKeeps, PrepareTimesOutKeeps, PrepareResolvesKeeps, PrepareWritesKeeps
       DEF Prepare
<1>5. CASE DebounceOver \/ WatcherReloads
    BY <1>5, DebounceOverKeeps, WatcherReloadsKeeps
<1>6. ASSUME NEW s \in Slots, PrivacyTick(s) \/ PrivacyPrepared(s) \/ PrivacyEnds(s)
      PROVE  AgentTypeOK' /\ AgentInv'
    BY <1>6, PrivacyTickKeeps, PrivacyPreparedKeeps, PrivacyEndsKeeps
<1>7. CASE Boot \/ Prepared \/ Launch \/ TakeReload \/ Drain \/ FinalRead
    BY <1>7, BootKeeps, PreparedKeeps, LaunchKeeps, TakeReloadKeeps, DrainKeeps, FinalReadKeeps
<1>8. CASE PrepareFails \/ LayoutFails \/ Ended
    BY <1>8, ExitKeeps DEF PrepareFails, LayoutFails, Ended
<1>9. CASE BootFails \/ UNCHANGED agentVars
    <2>1. UNCHANGED agentVars
        BY <1>9 DEF BootFails
    <2>2. AgentTypeOK'
        BY <2>1 DEF agentVars, AgentTypeOK
    <2>3. AgentInv'
        BY <2>1 DEF agentVars, AgentInv, RootsPresent, LockHeld, WatchedWhileServing,
            ReadIsFile,
                    Chosen, ChosenIsFile, OneConfigurationRuns, WritesKept
    <2> QED BY <2>2, <2>3
<1> QED BY <1>1, <1>2, <1>3, <1>4, <1>5, <1>6, <1>7, <1>8, <1>9 DEF AgentNext

(* Every variable of the agent's process keeps its type: a mailbox holds a   *)
(* configuration or nothing, and a step of the protection is one the code    *)
(* knows.                                                                    *)
THEOREM AgentTypesCorrect == AgentSpec => []AgentTypeOK
<1>1. AgentInit => AgentTypeOK /\ AgentInv
    BY AgentStarts
<1>2. AgentTypeOK /\ AgentInv /\ [AgentNext]_agentVars => (AgentTypeOK /\ AgentInv)'
    BY AgentStep
<1> QED BY <1>1, <1>2, PTL DEF AgentSpec

(* Who writes config.yml holds its lock and finds it as it was read, and     *)
(* what is to run next is what the file holds or a notice of the difference  *)
(* is under way: the inductive invariant of the whole process.               *)
THEOREM AgentInvHolds == AgentSpec => []AgentInv
<1>1. AgentInit => AgentTypeOK /\ AgentInv
    BY AgentStarts
<1>2. AgentTypeOK /\ AgentInv /\ [AgentNext]_agentVars => (AgentTypeOK /\ AgentInv)'
    BY AgentStep
<1> QED BY <1>1, <1>2, PTL DEF AgentSpec

(* runWithReload, the watcher, the protection and the command line together: *)
(* the configuration that runs is the one in the file unless a notice of the *)
(* difference is under way, one configuration runs at a time, and no save    *)
(* is undone.                                                                *)
THEOREM ConfigurationIsFollowed == AgentSpec => []AgentHolds
<1>1. AgentInv => AgentHolds
    BY DEF AgentInv, AgentHolds, FileFollowed, ChosenIsFile, Chosen
<1> QED BY <1>1, AgentInvHolds, PTL

-----------------------------------------------------------------------------
(* Certificates: the manager, the handlers of certmagic and the requests.    *)

\* What is made for a domain is a certificate of that domain.
LEMMA MadeIsMaterial ==
    ASSUME NEW mode \in {"acme", "older", "file", "content", "self"}, NEW c \in CertConfigs,
           NEW serial \in Nat
    PROVE  LET m == Made(mode, c.domain, serial)
           IN  /\ m \in Materials /\ m # NoMaterial
               /\ m.mode = mode /\ m.domain = c.domain /\ m.serial = serial
<1>1. c.domain \in Domains
    BY DEF Domains
<1>2. Made(mode, c.domain, serial) \in Materials
    BY <1>1 DEF Made, Materials
<1> QED BY <1>2, CertAssumption DEF Made

\* What was written for a mode and fits is of that kind.
LEMMA PersistedFits ==
    ASSUME CertTypeOK, PairIsWhole, NEW c \in CertConfigs, c.mode \in {"content", "self"},
           Persisted(c) # NoMaterial
    PROVE  /\ Persisted(c) \in Materials /\ Persisted(c).domain = c.domain
           /\ Persisted(c).mode # "acme"
<1>1. CASE pair # NoPair
    <2>1. Persisted(c) = pair.material /\ pair.mode = c.mode /\ Fits(pair.material, c)
        BY <1>1 DEF Persisted
    <2> QED BY <1>1, <2>1 DEF PairIsWhole, Fits
<1>2. CASE pair = NoPair
    <2>1. Persisted(c) = Made("older", c.domain, 0)
        BY <1>2 DEF Persisted
    <2> QED BY <2>1, MadeIsMaterial
<1> QED BY <1>1, <1>2

\* A certificate that the configuration gives fits it and is not of ACME.
LEMMA GivenFits ==
    ASSUME CertTypeOK, PairIsWhole, NEW c \in CertConfigs, c.mode \in {"file", "content",
        "self"},
           Given(c) # NoMaterial
    PROVE  Given(c) \in Materials /\ Given(c).domain = c.domain /\ Given(c).mode # "acme"
<1>1. CASE c.mode = "file"
    <2>1. Given(c) = Made("file", c.domain, 0)
        BY <1>1 DEF Given
    <2> QED BY <2>1, MadeIsMaterial
<1>2. CASE c.mode = "content"
    <2>1. Given(c) \in {Made("content", c.domain, 0), Persisted(c)}
        BY <1>2 DEF Given
    <2>2. CASE Given(c) = Made("content", c.domain, 0)
        BY <2>2, MadeIsMaterial
    <2>3. CASE Given(c) = Persisted(c)
        BY <1>2, <2>3, PersistedFits
    <2> QED BY <2>1, <2>2, <2>3
<1>3. CASE c.mode = "self"
    <2>1. serials + 1 \in Nat
        BY DEF CertTypeOK
    <2>2. Given(c) = Made("self", c.domain, serials + 1)
          \/ Given(c) = Persisted(c)
        BY <1>3 DEF Given
    <2>3. CASE Given(c) = Made("self", c.domain, serials + 1)
        BY <2>1, <2>3, MadeIsMaterial
    <2>4. CASE Given(c) = Persisted(c)
        BY <1>3, <2>4, PersistedFits
    <2> QED BY <2>2, <2>3, <2>4
<1> QED BY <1>1, <1>2, <1>3

\* What is published is whole again.
LEMMA PublishKeeps ==
    ASSUME CertTypeOK, PairIsWhole, NEW c \in CertConfigs, NEW m \in Materials,
           NEW written \in BOOLEAN, Publish(c, m, written),
           c.mode # "none", UsesAcme(c) <=> m.mode = "acme"
    PROVE  /\ material' = m /\ twoFiles' \in {"absent", "older", "users"}
           /\ pair' \in [mode : Modes, material : Materials \cup {NoMaterial}] /\ PairIsWhole'
<1>1. material' = m /\ twoFiles' \in {"absent", "older", "users"}
    BY DEF Publish, CertTypeOK
<1>2. CASE written
    <2>1. pair' = [mode |-> c.mode, material |-> m]
        BY <1>2 DEF Publish
    <2> QED BY <1>1, <2>1, CertAssumption DEF PairIsWhole, UsesAcme
<1>3. CASE ~written
    BY <1>1, <1>3 DEF Publish, CertTypeOK, PairIsWhole, NoPair
<1> QED BY <1>2, <1>3

\* The certificates before the service has started.
LEMMA CertificatesStart == CertificatesInit => CertTypeOK /\ CertInv
<1> SUFFICES ASSUME CertificatesInit PROVE CertTypeOK /\ CertInv
    OBVIOUS
<1>1. CertTypeOK
    <2>1. FirstConfig \in CertConfigs /\ 0 \in Nat
        BY CertAssumption
    <2>2. acme \in [on : BOOLEAN, config : CertConfigs, gen : Nat]
        BY <2>1 DEF CertificatesInit, NoAcme
    <2>3. handler \in [gen : Nat, config : CertConfigs, read : Materials \cup {NoMaterial}]
        BY <2>1 DEF CertificatesInit, NoHandler
    <2>4. pair \in [mode : Modes, material : Materials \cup {NoMaterial}]
        BY DEF CertificatesInit, NoPair, Modes
    <2>5. request \in RequestStates /\ forced \in ForcedCounts
        BY CertAssumption DEF CertificatesInit, Results, RequestStates, ForcedCounts
    <2> QED BY <2>1, <2>2, <2>3, <2>4, <2>5 DEF CertificatesInit, CertTypeOK
<1>2. AcmeIsCurrent /\ HandlerIsCurrent /\ OperationFits /\ PairIsWhole /\ NoRenewalMissed
    BY DEF CertificatesInit, AcmeIsCurrent, HandlerIsCurrent, OperationFits, PairIsWhole,
           NoRenewalMissed, Renewing, ServiceWaits, NoAcme
<1>3. RequestIsWritten
    BY CertAssumption DEF CertificatesInit, RequestIsWritten, Renewing
<1> QED BY <1>1, <1>2, <1>3 DEF CertInv

\* Requests are left alone.
LEMMA RequestsStay ==
    ASSUME CertInv, UNCHANGED <<request, forced>>, Renewing' <=> Renewing
    PROVE  RequestIsWritten'
    BY DEF CertInv, RequestIsWritten

\* After a configuration without ACME.
LEMMA StartPlainKeeps ==
    ASSUME CertTypeOK, CertInv, NEW c \in CertConfigs, NEW written \in BOOLEAN,
           config' = c, ~UsesAcme(c), operation \in {"free", "boot"},
           StartPlain(c, written), ~acme'.on,
           renewedFlag' = FALSE \/ (renewedFlag' = renewedFlag /\ c.mode # "none")
    PROVE  /\ material' \in Materials \cup {NoMaterial} /\ sourceSeen' \in BOOLEAN
           /\ operation' = "free" /\ serials' \in Nat /\ twoFiles' \in {"absent", "older", "users"}
           /\ applied' \in [material : Materials \cup {NoMaterial}, due : BOOLEAN,
                            accepted : BOOLEAN]
           /\ pair' \in [mode : Modes, material : Materials \cup {NoMaterial}]
           /\ OperationFits' /\ PairIsWhole' /\ NoRenewalMissed'
<1> DEFINE m == Given(c)
<1>0. PairIsWhole
    BY DEF CertInv
<1>1. CASE c.mode = "none"
    <2>1. /\ material' = NoMaterial /\ pair' = NoPair /\ UNCHANGED <<sourceSeen, serials>>
          /\ twoFiles' \in {"absent", twoFiles} /\ TakesOver
        BY <1>1 DEF StartPlain
    <2>2. applied'.due /\ operation' = "free" /\ applied' \in
              [material : Materials \cup {NoMaterial}, due : BOOLEAN, accepted : BOOLEAN]
        BY <2>1 DEF TakesOver, CertTypeOK
    <2>3. pair' \in [mode : Modes, material : Materials \cup {NoMaterial}] /\ PairIsWhole'
        BY <2>1 DEF NoPair, Modes, PairIsWhole
    <2>4. OperationFits'
        BY <1>1, <2>1, <2>2 DEF OperationFits, Renewing, UsesAcme
    <2> QED BY <2>1, <2>2, <2>3, <2>4 DEF CertTypeOK, NoRenewalMissed
<1>2. CASE c.mode # "none" /\ m = NoMaterial
    <2>1. /\ material' \in {material, NoMaterial}
          /\ UNCHANGED <<pair, twoFiles, sourceSeen, serials>> /\ Rejected
        BY <1>2 DEF StartPlain
    <2>2. ~applied'.accepted /\ operation' = "free" /\ applied' \in
              [material : Materials \cup {NoMaterial}, due : BOOLEAN, accepted : BOOLEAN]
        BY <2>1 DEF Rejected, CertTypeOK
    <2>3. PairIsWhole'
        BY <1>0, <2>1 DEF PairIsWhole, NoPair
    <2>4. OperationFits' /\ NoRenewalMissed'
        BY <2>2 DEF OperationFits, Renewing, NoRenewalMissed
    <2> QED BY <2>1, <2>2, <2>3, <2>4 DEF CertTypeOK
<1>3. CASE c.mode # "none" /\ m # NoMaterial
    <2>0. c.mode \in {"file", "content", "self"}
        BY <1>3, CertAssumption DEF UsesAcme, Modes
    <2>1. m \in Materials /\ m.domain = c.domain /\ m.mode # "acme"
        BY <1>0, <1>3, <2>0, GivenFits
    <2>2. /\ sourceSeen' = (sourceSeen \/ c.mode = "file") /\ Publish(c, m, written) /\ TakesOver
          /\ serials' = IF m.mode = "self" /\ m.serial > serials THEN m.serial ELSE serials
        BY <1>3 DEF StartPlain
    <2> HIDE DEF m
    <2>3. /\ material' = m /\ twoFiles' \in {"absent", "older", "users"}
          /\ pair' \in [mode : Modes, material : Materials \cup {NoMaterial}] /\ PairIsWhole'
        BY <1>0, <1>3, <2>1, <2>2, PublishKeeps
    <2>4. applied'.due /\ operation' = "free" /\ applied' \in
              [material : Materials \cup {NoMaterial}, due : BOOLEAN, accepted : BOOLEAN]
        BY <2>2 DEF TakesOver, CertTypeOK
    <2>5. sourceSeen' \in BOOLEAN
        BY <2>2
    <2>6. serials' \in Nat
        BY <2>1, <2>2 DEF Materials, CertTypeOK
    <2>7. OperationFits'
        BY <1>3, <2>1, <2>3, <2>4 DEF OperationFits, Renewing, Fits
    <2> QED BY <2>1, <2>3, <2>4, <2>5, <2>6, <2>7 DEF NoRenewalMissed
<1> QED BY <1>1, <1>2, <1>3

\* A configuration that is not the one certmagic runs for ends it.
LEMMA ReconfigureKeeps ==
    ASSUME CertTypeOK, CertInv, NEW c \in CertConfigs, NEW written \in BOOLEAN,
           ReconfigureCert(c, written)
    PROVE  CertTypeOK' /\ CertInv'
<1> DEFINE stale == acme.on /\ (~UsesAcme(c) \/ c # acme.config)
<1>1. /\ operation \in {"free", "boot"} /\ config' = c
      /\ UNCHANGED <<handler, site, request, forced, restarts>>
      /\ IF stale THEN TornDown
         ELSE /\ renewedFlag' = (renewedFlag /\ c.mode # "none")
              /\ UNCHANGED <<generation, acme>>
    BY DEF ReconfigureCert
<1>2. /\ generation' \in Nat /\ acme' \in [on : BOOLEAN, config : CertConfigs, gen : Nat]
      /\ renewedFlag' \in BOOLEAN
      /\ IF stale THEN generation' = generation + 1 /\ ~acme'.on /\ ~renewedFlag'
                  ELSE generation' = generation /\ acme' = acme
    <2>1. CASE stale
        <3>1. generation' = generation + 1 /\ acme' = NoAcme /\ renewedFlag' = FALSE
            BY <1>1, <2>1 DEF TornDown
        <3>2. NoAcme \in [on : BOOLEAN, config : CertConfigs, gen : Nat] /\ ~NoAcme.on
            BY CertAssumption DEF NoAcme
        <3>3. renewedFlag' \in BOOLEAN
            BY <3>1
        <3> HIDE DEF stale
        <3> QED BY <2>1, <3>1, <3>2, <3>3 DEF CertTypeOK
    <2>2. CASE ~stale
        <3>1. renewedFlag' \in BOOLEAN
            BY <1>1, <2>2
        <3> QED BY <1>1, <2>2, <3>1 DEF CertTypeOK
    <2> QED BY <2>1, <2>2
<1>3. HandlerIsCurrent'
    <2> SUFFICES ASSUME handler # NoHandler
                 PROVE  /\ handler.gen \in 1..generation'
                        /\ handler.gen = generation' =>
                              /\ acme'.on /\ handler.config = c
                              /\ handler.read = Made("acme", c.domain, site[c.domain])
        BY <1>1 DEF HandlerIsCurrent, NoHandler
    <2>1. /\ handler.gen \in 1..generation
          /\ handler.gen = generation =>
                /\ acme.on /\ handler.config = config
                /\ handler.read = Made("acme", config.domain, site[config.domain])
        BY DEF CertInv, HandlerIsCurrent
    <2>2. CASE stale
        <3> HIDE DEF stale
        <3> QED BY <1>2, <2>1, <2>2 DEF CertTypeOK
    <2>3. CASE ~stale
        <3>1. acme.on => c = config
            BY <2>3 DEF CertInv, AcmeIsCurrent
        <3> QED BY <1>2, <2>1, <2>3, <3>1
    <2> QED BY <2>2, <2>3
<1>4. operation' \in {"free", "obtaining"} => RequestIsWritten'
    BY <1>1, RequestsStay DEF Renewing
<1>5. CASE ~UsesAcme(c)
    <2>1. StartPlain(c, written)
        BY <1>5 DEF ReconfigureCert
    <2>2. ~acme'.on
        BY <1>2, <1>5
    <2>3. renewedFlag' = FALSE \/ (renewedFlag' = renewedFlag /\ c.mode # "none")
        BY <1>1, <1>2
    <2> HIDE DEF stale
    <2>4. /\ material' \in Materials \cup {NoMaterial} /\ sourceSeen' \in BOOLEAN
          /\ operation' = "free" /\ serials' \in Nat
          /\ twoFiles' \in {"absent", "older", "users"}
          /\ applied' \in [material : Materials \cup {NoMaterial}, due : BOOLEAN,
                           accepted : BOOLEAN]
          /\ pair' \in [mode : Modes, material : Materials \cup {NoMaterial}]
          /\ OperationFits' /\ PairIsWhole' /\ NoRenewalMissed'
        BY <1>1, <1>5, <2>1, <2>2, <2>3, StartPlainKeeps
    <2>5. CertTypeOK'
        BY <1>1, <1>2, <2>4 DEF CertTypeOK
    <2>6. AcmeIsCurrent'
        BY <2>2 DEF AcmeIsCurrent
    <2> QED BY <1>3, <1>4, <2>4, <2>5, <2>6 DEF CertInv
<1>6. CASE UsesAcme(c) /\ acme.on /\ ~stale
    <2>1. UNCHANGED <<material, pair, twoFiles, sourceSeen, serials>> /\ TakesOver
        BY <1>6 DEF ReconfigureCert
    <2>2. c = config /\ acme' = acme /\ generation' = generation /\ UsesAcme(c)
        BY <1>2, <1>6 DEF CertInv, AcmeIsCurrent
    <2>3. operation' = "free" /\ applied'.due /\ applied' \in
              [material : Materials \cup {NoMaterial}, due : BOOLEAN, accepted : BOOLEAN]
        BY <2>1 DEF TakesOver, CertTypeOK
    <2> HIDE DEF stale
    <2>4. CertTypeOK'
        BY <1>1, <1>2, <2>1, <2>3 DEF CertTypeOK
    <2>5. AcmeIsCurrent'
        BY <1>1, <1>2, <2>1, <2>2, <2>3 DEF CertInv, AcmeIsCurrent, NoHandler
    <2>6. OperationFits' /\ NoRenewalMissed' /\ PairIsWhole'
        BY <1>1, <1>6, <2>1, <2>2, <2>3
           DEF CertInv, OperationFits, Renewing, NoRenewalMissed, PairIsWhole, NoPair, UsesAcme
    <2> QED BY <1>3, <1>4, <2>3, <2>4, <2>5, <2>6 DEF CertInv
<1>7. CASE UsesAcme(c) /\ ~(acme.on /\ ~stale)
    <2>0. ~acme'.on
        BY <1>2, <1>7
    <2>1. /\ material' \in {material, NoMaterial}
          /\ UNCHANGED <<pair, twoFiles, sourceSeen, serials>>
          /\ Rejected \/ (operation' = "obtaining" /\ applied' = applied)
        BY <1>7 DEF ReconfigureCert
    <2> HIDE DEF stale
    <2>2. /\ applied' \in [material : Materials \cup {NoMaterial}, due : BOOLEAN,
                           accepted : BOOLEAN]
          /\ (operation' = "free" /\ ~applied'.accepted) \/ operation' = "obtaining"
        <3>1. CASE Rejected
            <4>1. applied' = [material |-> NoMaterial, due |-> FALSE, accepted |-> FALSE]
                  /\ operation' = "free"
                BY <3>1 DEF Rejected
            <4> QED BY <4>1
        <3>2. CASE operation' = "obtaining" /\ applied' = applied
            BY <3>2 DEF CertTypeOK
        <3> QED BY <2>1, <3>1, <3>2
    <2>3. CertTypeOK'
        BY <1>1, <1>2, <2>1, <2>2 DEF CertTypeOK
    <2>4. AcmeIsCurrent'
        BY <2>0 DEF AcmeIsCurrent
    <2>5. OperationFits' /\ NoRenewalMissed'
        BY <1>1, <1>7, <2>2 DEF OperationFits, Renewing, NoRenewalMissed, ServiceWaits, UsesAcme
    <2>6. PairIsWhole'
        BY <2>1 DEF CertInv, PairIsWhole, NoPair
    <2> QED BY <1>3, <1>4, <2>2, <2>3, <2>4, <2>5, <2>6 DEF CertInv
<1> QED BY <1>5, <1>6, <1>7

\* The certificate of the storage is published with a generation of its own.
LEMMA ObtainKeeps ==
    ASSUME CertTypeOK, CertInv, NEW written \in BOOLEAN, ObtainCert(written)
    PROVE  CertTypeOK' /\ CertInv'
<1> DEFINE serial == IF site[config.domain] > 0 THEN site[config.domain] ELSE serials + 1
           m == Made("acme", config.domain, serial)
<1>1. /\ operation = "obtaining"
      /\ generation' = generation + 1
      /\ acme' = [on |-> TRUE, config |-> config, gen |-> generation + 1]
      /\ site' = [site EXCEPT ![config.domain] = serial]
      /\ serials' = IF serial > serials THEN serial ELSE serials
      /\ Publish(config, m, written) /\ TakesOver
      /\ UNCHANGED <<config, renewedFlag, sourceSeen, handler, request, forced, restarts>>
    BY DEF ObtainCert
<1>2. config \in CertConfigs /\ config.domain \in Domains /\ UsesAcme(config)
    BY <1>1 DEF CertTypeOK, Domains, CertInv, OperationFits
<1>3. serial \in Nat
    BY <1>2 DEF CertTypeOK
<1> HIDE DEF serial
<1>4. m \in Materials /\ m.mode = "acme" /\ m.domain = config.domain /\ m.serial = serial
    BY <1>2, <1>3, MadeIsMaterial
<1> HIDE DEF m
<1>5. /\ material' = m /\ twoFiles' \in {"absent", "older", "users"}
      /\ pair' \in [mode : Modes, material : Materials \cup {NoMaterial}] /\ PairIsWhole'
    BY <1>1, <1>2, <1>4, PublishKeeps DEF CertInv, UsesAcme
<1>6. operation' = "free" /\ applied'.due /\ applied' \in
          [material : Materials \cup {NoMaterial}, due : BOOLEAN, accepted : BOOLEAN]
    BY <1>1 DEF TakesOver, CertTypeOK
<1>7. /\ serials' \in Nat /\ generation' \in Nat /\ site' \in [Domains -> Nat]
      /\ acme' \in [on : BOOLEAN, config : CertConfigs, gen : Nat]
      /\ site'[config.domain] = serial
    BY <1>1, <1>2, <1>3 DEF CertTypeOK
<1>8. CertTypeOK'
    BY <1>1, <1>4, <1>5, <1>6, <1>7 DEF CertTypeOK
<1>9. AcmeIsCurrent'
    BY <1>1, <1>2, <1>4, <1>5, <1>6, <1>7 DEF AcmeIsCurrent, CertTypeOK, UsesAcme
<1>10. HandlerIsCurrent'
    <2>1. handler # NoHandler => handler.gen \in 1..generation
        BY DEF CertInv, HandlerIsCurrent
    <2> QED BY <1>1, <2>1 DEF HandlerIsCurrent, NoHandler, CertTypeOK
<1>11. OperationFits' /\ NoRenewalMissed'
    BY <1>1, <1>2, <1>6 DEF OperationFits, Renewing, NoRenewalMissed, UsesAcme
<1>12. RequestIsWritten'
    BY <1>1, <1>6, RequestsStay DEF Renewing
<1> QED BY <1>5, <1>8, <1>9, <1>10, <1>11, <1>12 DEF CertInv

\* ACME gives nothing: the configuration is refused and has no certificate.
LEMMA ObtainFailsKeeps ==
    ASSUME CertTypeOK, CertInv, ObtainCertFails
    PROVE  CertTypeOK' /\ CertInv'
<1>1. /\ operation = "obtaining" /\ operation' = "free" /\ material' = NoMaterial
      /\ generation' = generation + 1 /\ acme' = NoAcme /\ renewedFlag' = FALSE
      /\ applied' = [material |-> NoMaterial, due |-> FALSE, accepted |-> FALSE]
      /\ UNCHANGED <<config, sourceSeen, handler, pair, twoFiles, site, serials, request,
                     forced, restarts>>
    BY DEF ObtainCertFails, TornDown, Rejected
<1>2. /\ acme' \in [on : BOOLEAN, config : CertConfigs, gen : Nat] /\ renewedFlag' \in BOOLEAN
      /\ applied' \in [material : Materials \cup {NoMaterial}, due : BOOLEAN, accepted : BOOLEAN]
      /\ ~acme'.on /\ ~applied'.accepted
    BY <1>1, CertAssumption DEF NoAcme
<1>3. CertTypeOK'
    BY <1>1, <1>2 DEF CertTypeOK
<1>4. HandlerIsCurrent'
    <2>1. handler # NoHandler => handler.gen \in 1..generation
        BY DEF CertInv, HandlerIsCurrent
    <2> QED BY <1>1, <2>1 DEF HandlerIsCurrent, NoHandler, CertTypeOK
<1>5. AcmeIsCurrent' /\ OperationFits' /\ NoRenewalMissed' /\ PairIsWhole'
    BY <1>1, <1>2 DEF CertInv, AcmeIsCurrent, OperationFits, Renewing, NoRenewalMissed,
                      PairIsWhole, NoPair
<1>6. RequestIsWritten'
    BY <1>1, RequestsStay DEF Renewing
<1> QED BY <1>3, <1>4, <1>5, <1>6 DEF CertInv

\* A renewal by itself: its handler brings what the storage holds.
LEMMA RenewInBackgroundKeeps ==
    ASSUME CertTypeOK, CertInv, RenewInBackground
    PROVE  CertTypeOK' /\ CertInv'
<1>1. /\ acme.on /\ handler = NoHandler
      /\ serials' = serials + 1 /\ site' = [site EXCEPT ![acme.config.domain] = serials + 1]
      /\ handler' = [gen |-> acme.gen, config |-> acme.config,
                     read |-> Made("acme", acme.config.domain, serials + 1)]
      /\ UNCHANGED <<managerVars, operation, applied, pair, twoFiles, request, forced, restarts>>
    BY DEF RenewInBackground
<1>2. /\ acme.config = config /\ acme.gen = generation /\ generation > 0
      /\ config \in CertConfigs /\ config.domain \in Domains
    BY <1>1 DEF CertTypeOK, CertInv, AcmeIsCurrent, Domains
<1>3. serials + 1 \in Nat
    BY DEF CertTypeOK
<1>4. Made("acme", config.domain, serials + 1) \in Materials
    BY <1>2, <1>3, MadeIsMaterial
<1>5. /\ site' \in [Domains -> Nat] /\ site'[config.domain] = serials + 1
      /\ handler' \in [gen : Nat, config : CertConfigs, read : Materials \cup {NoMaterial}]
      /\ handler'.gen = generation /\ handler'.config = config
      /\ handler'.read = Made("acme", config.domain, serials + 1)
    BY <1>1, <1>2, <1>3, <1>4 DEF CertTypeOK
<1> USE DEF managerVars
<1>6. CertTypeOK'
    BY <1>1, <1>3, <1>5 DEF CertTypeOK
<1>7. AcmeIsCurrent' /\ HandlerIsCurrent'
    BY <1>1, <1>2, <1>5 DEF CertInv, CertTypeOK, AcmeIsCurrent, HandlerIsCurrent, NoHandler
<1>8. OperationFits' /\ PairIsWhole' /\ NoRenewalMissed'
    BY <1>1 DEF CertInv, OperationFits, Renewing, PairIsWhole, NoPair, NoRenewalMissed,
        ServiceWaits
<1>9. RequestIsWritten'
    BY <1>1, RequestsStay DEF Renewing
<1> QED BY <1>6, <1>7, <1>8, <1>9 DEF CertInv

\* A handler publishes for the generation in force only.
LEMMA PublishRenewalKeeps ==
    ASSUME CertTypeOK, CertInv, NEW written \in BOOLEAN, PublishRenewal(written)
    PROVE  CertTypeOK' /\ CertInv'
<1>1. /\ handler # NoHandler /\ handler' = NoHandler
      /\ IF handler.gen = generation
         THEN Publish(handler.config, handler.read, written) /\ renewedFlag' = TRUE
         ELSE UNCHANGED <<material, pair, twoFiles, renewedFlag>>
      /\ UNCHANGED <<config, generation, acme, sourceSeen, operation, applied, site, serials,
                     request, forced, restarts>>
    BY DEF PublishRenewal, CurrentGeneration
<1>2. NoHandler \in [gen : Nat, config : CertConfigs, read : Materials \cup {NoMaterial}]
    BY CertAssumption DEF NoHandler
<1>3. RequestIsWritten'
    BY <1>1, RequestsStay DEF Renewing
<1>4. HandlerIsCurrent'
    BY <1>1 DEF HandlerIsCurrent, NoHandler
<1>5. CASE handler.gen = generation
    <2>1. /\ acme.on /\ handler.config = config
          /\ handler.read = Made("acme", config.domain, site[config.domain])
        BY <1>1, <1>5 DEF CertInv, HandlerIsCurrent
    <2>2. /\ config \in CertConfigs /\ UsesAcme(config) /\ site[config.domain] \in Nat
          /\ acme.config = config /\ acme.gen = generation /\ generation > 0
          /\ operation \in {"free", "renewing", "reading"}
        BY <2>1 DEF CertTypeOK, CertInv, AcmeIsCurrent, Domains
    <2>3. /\ handler.read \in Materials /\ handler.read.mode = "acme"
          /\ handler.read.domain = config.domain /\ handler.read.serial = site[config.domain]
        BY <2>1, <2>2, MadeIsMaterial
    <2>4. /\ material' = handler.read /\ twoFiles' \in {"absent", "older", "users"}
          /\ pair' \in [mode : Modes, material : Materials \cup {NoMaterial}] /\ PairIsWhole'
        BY <1>1, <1>5, <2>1, <2>2, <2>3, PublishKeeps DEF CertInv, UsesAcme
    <2>5. renewedFlag' \in BOOLEAN /\ renewedFlag'
        BY <1>1, <1>5
    <2>6. CertTypeOK'
        BY <1>1, <1>2, <2>3, <2>4, <2>5 DEF CertTypeOK
    <2>7. AcmeIsCurrent'
        BY <1>1, <2>1, <2>2, <2>3, <2>4 DEF AcmeIsCurrent, NoHandler, UsesAcme
    <2>8. OperationFits' /\ NoRenewalMissed'
        BY <1>1, <2>1, <2>2, <2>5 DEF OperationFits, Renewing, NoRenewalMissed, UsesAcme
    <2> QED BY <1>3, <1>4, <2>4, <2>6, <2>7, <2>8 DEF CertInv
<1>6. CASE handler.gen # generation
    <2>1. CertTypeOK'
        BY <1>1, <1>2, <1>6 DEF CertTypeOK
    <2>2. AcmeIsCurrent'
        BY <1>1, <1>6 DEF CertInv, AcmeIsCurrent, NoHandler, UsesAcme
    <2>3. OperationFits' /\ PairIsWhole' /\ NoRenewalMissed'
        BY <1>1, <1>6 DEF CertInv, OperationFits, Renewing, PairIsWhole, NoPair,
            NoRenewalMissed,
                          ServiceWaits, UsesAcme, Fits
    <2> QED BY <1>3, <1>4, <2>1, <2>2, <2>3 DEF CertInv
<1> QED BY <1>5, <1>6

\* What the requests do not touch.
LEMMA ManagerStays ==
    ASSUME CertTypeOK, CertInv,
           UNCHANGED <<managerVars, handler, applied, pair, twoFiles, site, serials>>
    PROVE  /\ HandlerIsCurrent' /\ PairIsWhole'
           /\ operation' = operation => AcmeIsCurrent' /\ OperationFits' /\ NoRenewalMissed'
           /\ acme.on /\ operation' \in {"free", "renewing", "reading"}
              /\ operation \in {"free", "renewing", "reading"} =>
              AcmeIsCurrent' /\ OperationFits' /\ NoRenewalMissed'
           /\ operation' \in {"boot", "free", "obtaining", "renewing", "reading"}
              /\ request' \in RequestStates
              /\ forced' \in ForcedCounts => CertTypeOK'
<1> USE DEF managerVars
<1>1. HandlerIsCurrent' /\ PairIsWhole'
    BY DEF CertInv, HandlerIsCurrent, PairIsWhole, NoHandler, NoPair
<1>2. operation' = operation => AcmeIsCurrent' /\ OperationFits' /\ NoRenewalMissed'
    BY DEF CertInv, AcmeIsCurrent, OperationFits, NoRenewalMissed, NoHandler, NoPair, Renewing,
           ServiceWaits, Fits, UsesAcme
<1>3. ASSUME acme.on, operation' \in {"free", "renewing", "reading"},
             operation \in {"free", "renewing", "reading"}
      PROVE  AcmeIsCurrent' /\ OperationFits' /\ NoRenewalMissed'
    BY <1>3 DEF CertInv, AcmeIsCurrent, OperationFits, NoRenewalMissed, NoHandler, NoPair,
        Renewing,
           ServiceWaits, Fits, UsesAcme
<1>4. ASSUME operation' \in {"boot", "free", "obtaining", "renewing", "reading"},
             request' \in RequestStates,
             forced' \in ForcedCounts
      PROVE  CertTypeOK'
    BY <1>4 DEF CertTypeOK
<1> QED BY <1>1, <1>2, <1>3, <1>4

\* The file of the requests is read once per process.
LEMMA LoadRequestKeeps ==
    ASSUME CertTypeOK, CertInv, NEW readable \in BOOLEAN, LoadRequest(readable)
    PROVE  CertTypeOK' /\ CertInv'
<1>1. /\ ~request.loaded /\ request' = ReadRequest(readable)
      /\ UNCHANGED <<managerVars, operation, handler, applied, pair, twoFiles, site, serials,
                     forced, restarts>>
    BY DEF LoadRequest
<1>2. request.begun = 0
    BY <1>1 DEF CertInv, RequestIsWritten
<1>3. /\ request' \in RequestStates
      /\ request'.loaded /\ request'.unreadable = ~readable
      /\ request'.asked = request.asked /\ request'.saved = request.saved
      /\ request'.file = request.file /\ request'.result # "running"
      /\ request'.begun = IF readable THEN request.saved ELSE 0
      /\ IF readable THEN request'.result = "succeeded" => request.file = "succeeded"
         ELSE request'.result = "none"
    BY <1>1, <1>2 DEF CertTypeOK, RequestStates, Results, ReadRequest, ReadResult
<1>4. RequestIsWritten'
    BY <1>1, <1>3 DEF CertTypeOK, CertInv, RequestIsWritten, Renewing, RequestStates
<1> QED BY <1>1, <1>3, <1>4, ManagerStays DEF CertInv, CertTypeOK

\* Another request comes with the configuration.
LEMMA AskRenewalKeeps ==
    ASSUME CertTypeOK, CertInv, AskRenewal
    PROVE  CertTypeOK' /\ CertInv'
<1>1. PICK r \in 0..MaxRequests : request' = [request EXCEPT !.asked = r]
    BY DEF AskRenewal
<1>2. UNCHANGED <<managerVars, operation, handler, applied, pair, twoFiles, site, serials,
                  forced, restarts>>
    BY DEF AskRenewal
<1>3. /\ request' \in RequestStates
      /\ request'.begun = request.begun /\ request'.result = request.result
      /\ request'.loaded = request.loaded /\ request'.unreadable = request.unreadable
      /\ request'.saved = request.saved /\ request'.file = request.file
    BY <1>1 DEF CertTypeOK, RequestStates
<1>4. RequestIsWritten'
    BY <1>2, <1>3 DEF CertInv, RequestIsWritten, Renewing
<1> QED BY <1>2, <1>3, <1>4, ManagerStays DEF CertInv, CertTypeOK

\* A request that is not the last one is written down, and nothing of it was
\* begun since that one.
LEMMA BeginRequestKeeps ==
    ASSUME CertTypeOK, CertInv, NEW written \in BOOLEAN, BeginRequest(written)
    PROVE  CertTypeOK' /\ CertInv'
<1>1. /\ request.loaded /\ ~request.unreadable /\ request.result # "running"
      /\ request.asked # 0 /\ request.asked # request.begun
      /\ request' = [request EXCEPT
             !.begun = request.asked,
             !.result = IF written THEN "running" ELSE "failed",
             !.saved = IF written THEN request.asked ELSE @,
             !.file = IF written THEN "running" ELSE @]
      /\ forced' = [r \in 1..MaxRequests |->
                       IF r = request.asked THEN forced[r] ELSE [forced[r] EXCEPT !.since = 0]]
      /\ UNCHANGED <<managerVars, operation, handler, applied, pair, twoFiles, site, serials,
                     restarts>>
    BY DEF BeginRequest
<1>2. /\ request.asked \in 1..MaxRequests
      /\ request' \in RequestStates
      /\ request'.begun = request.asked /\ request'.loaded /\ ~request'.unreadable
    <2>1. request.asked \in 1..MaxRequests
        BY <1>1, CertAssumption DEF CertTypeOK, RequestStates
    <2>2. /\ request'.begun = request.asked /\ request'.loaded /\ ~request'.unreadable
        BY <1>1 DEF CertTypeOK, RequestStates
    <2>3. request' \in RequestStates
        <3>1. CASE written
            BY <1>1, <3>1 DEF CertTypeOK, RequestStates, Results
        <3>2. CASE ~written
            BY <1>1, <3>2 DEF CertTypeOK, RequestStates, Results
        <3> QED BY <3>1, <3>2
    <2> QED BY <2>1, <2>2, <2>3
<1>3. IF written
      THEN /\ request'.result = "running" /\ request'.saved = request.asked
           /\ request'.file = "running"
      ELSE /\ request'.result = "failed" /\ request'.saved = request.saved
           /\ request'.file = request.file
    BY <1>1 DEF CertTypeOK, RequestStates
<1>4. ~Renewing /\ ~Renewing'
    BY <1>1 DEF CertInv, RequestIsWritten, Renewing
<1>5. forced[request.asked].since = 0
    BY <1>1, <1>2 DEF CertTypeOK, ForcedCounts, CertInv, RequestIsWritten
<1>6. /\ forced' \in ForcedCounts
      /\ \A r \in 1..MaxRequests : forced'[r].since = 0 /\ forced'[r].ever = forced[r].ever
    BY <1>1, <1>5 DEF CertTypeOK, ForcedCounts
<1>7. RequestIsWritten'
    <2>1. CASE written
        BY <1>2, <1>3, <1>4, <1>6, <2>1 DEF RequestIsWritten
    <2>2. CASE ~written
        <3>1. request.file = "succeeded" => request.saved \in 1..MaxRequests
            BY DEF CertTypeOK, RequestStates, CertInv, RequestIsWritten
        <3> QED BY <1>2, <1>3, <1>4, <1>6, <2>2, <3>1 DEF CertInv, RequestIsWritten
    <2> QED BY <2>1, <2>2
<1> QED BY <1>1, <1>2, <1>6, <1>7, ManagerStays DEF CertInv, CertTypeOK

\* How a renewal that was begun ends.
LEMMA FinishedKeeps ==
    ASSUME CertTypeOK, CertInv, NEW result \in {"failed", "succeeded"}, NEW written \in BOOLEAN,
           Finished(result, written), request.result = "running", ~Renewing',
           forced' \in ForcedCounts,
           forced'[request.begun].since = 1, forced'[request.begun].ever > 0,
           \A r \in 1..MaxRequests : r # request.begun => forced'[r] = forced[r]
    PROVE  request' \in RequestStates /\ RequestIsWritten'
<1>1. request' = [request EXCEPT !.result = result, !.file = IF written THEN result ELSE @]
    BY DEF Finished
<1>2. /\ request' \in RequestStates
      /\ request'.begun = request.begun /\ request'.loaded = request.loaded
      /\ request'.unreadable = request.unreadable /\ request'.saved = request.saved
      /\ request'.result = result /\ request'.file \in {result, request.file}
    BY <1>1 DEF CertTypeOK, RequestStates, Results
<1>3. /\ request.begun = request.saved /\ request.begun > 0
      /\ request.loaded /\ ~request.unreadable
      /\ \A r \in 1..MaxRequests : /\ forced[r].since <= 1
                                   /\ forced[r].since > 0 => r = request.begun
    BY DEF CertInv, RequestIsWritten
<1>4. \A r \in 1..MaxRequests : /\ forced'[r].since <= 1
                                /\ forced'[r].since > 0 => r = request.begun
    BY <1>3
<1>5. RequestIsWritten'
    BY <1>2, <1>3, <1>4 DEF RequestIsWritten
<1> QED BY <1>2, <1>5

\* The renewal that was written down is begun, if ACME is on.
LEMMA BeginRenewKeeps ==
    ASSUME CertTypeOK, CertInv, NEW written \in BOOLEAN, BeginRenew(written)
    PROVE  CertTypeOK' /\ CertInv'
<1>1. /\ request.result = "running" /\ operation = "free"
      /\ forced' = [forced EXCEPT ![request.begun] =
                       [since |-> @.since + 1, ever |-> 1]]
      /\ IF acme.on THEN operation' = "renewing" /\ UNCHANGED request
                    ELSE Finished("failed", written) /\ UNCHANGED operation
      /\ UNCHANGED <<managerVars, handler, applied, pair, twoFiles, site, serials, restarts>>
    BY DEF BeginRenew
<1>2. request.begun \in 1..MaxRequests /\ forced[request.begun].since = 0
    BY <1>1 DEF CertTypeOK, RequestStates, CertInv, RequestIsWritten, Renewing
<1>3. /\ forced' \in ForcedCounts
      /\ forced'[request.begun].since = 1 /\ forced'[request.begun].ever > 0
      /\ \A r \in 1..MaxRequests : r # request.begun => forced'[r] = forced[r]
    BY <1>1, <1>2 DEF CertTypeOK, ForcedCounts
<1>4. CASE acme.on
    <2>1. /\ request' = request /\ Renewing'
          /\ request.begun = request.saved /\ request.loaded /\ ~request.unreadable
          /\ \A r \in 1..MaxRequests : /\ forced[r].since <= 1
                                       /\ forced[r].since > 0 => r = request.begun
        BY <1>1, <1>4 DEF CertInv, RequestIsWritten, Renewing
    <2>2. \A r \in 1..MaxRequests : /\ forced'[r].since <= 1
                                    /\ forced'[r].since > 0 => r = request.begun
        BY <1>3, <2>1
    <2>3. request.file = "succeeded" => forced'[request.saved].ever > 0
        BY <1>3, <2>1
    <2>4. RequestIsWritten'
        BY <1>1, <1>2, <1>3, <2>1, <2>2, <2>3 DEF RequestIsWritten
    <2> QED BY <1>1, <1>3, <1>4, <2>1, <2>4, ManagerStays DEF CertInv, CertTypeOK
<1>5. CASE ~acme.on
    <2>1. Finished("failed", written) /\ operation' = operation
        BY <1>1, <1>5
    <2>2. ~Renewing'
        BY <1>1, <2>1 DEF Renewing
    <2>3. request' \in RequestStates /\ RequestIsWritten'
        BY <1>1, <1>3, <2>1, <2>2, FinishedKeeps
    <2> QED BY <1>1, <1>3, <2>1, <2>3, ManagerStays DEF CertInv, CertTypeOK
<1> QED BY <1>4, <1>5

\* A renewal fails and its result is written.
LEMMA RenewalFailsKeeps ==
    ASSUME CertTypeOK, CertInv, NEW written \in BOOLEAN, RenewalFails(written)
    PROVE  CertTypeOK' /\ CertInv'
<1>1. /\ operation = "renewing" /\ operation' = "free" /\ Finished("failed", written)
      /\ UNCHANGED <<managerVars, handler, applied, pair, twoFiles, site, serials, forced,
                     restarts>>
    BY DEF RenewalFails
<1>2. /\ acme.on /\ request.result = "running"
      /\ forced[request.begun].since = 1 /\ forced[request.begun].ever > 0
    BY <1>1 DEF CertInv, OperationFits, RequestIsWritten, Renewing
<1>3. ~Renewing'
    BY <1>1 DEF Renewing
<1>4. /\ request' \in RequestStates
      /\ RequestIsWritten'
    BY <1>1, <1>2, <1>3, FinishedKeeps DEF CertTypeOK
<1> QED BY <1>1, <1>2, <1>4, ManagerStays DEF CertInv, CertTypeOK

\* certmagic renews by order.
LEMMA ForceRenewalKeeps ==
    ASSUME CertTypeOK, CertInv, ForceRenewal
    PROVE  CertTypeOK' /\ CertInv'
<1>1. /\ operation = "renewing" /\ operation' = "reading" /\ handler = NoHandler
      /\ serials' = serials + 1 /\ site' = [site EXCEPT ![config.domain] = serials + 1]
      /\ handler' = [gen |-> acme.gen, config |-> acme.config,
                     read |-> Made("acme", config.domain, serials + 1)]
      /\ UNCHANGED <<managerVars, applied, pair, twoFiles, request, forced, restarts>>
    BY DEF ForceRenewal
<1>2. /\ acme.on /\ acme.config = config /\ acme.gen = generation /\ generation > 0
      /\ config \in CertConfigs /\ config.domain \in Domains
    BY <1>1 DEF CertTypeOK, CertInv, AcmeIsCurrent, OperationFits, Renewing, Domains
<1>3. serials + 1 \in Nat
    BY DEF CertTypeOK
<1>4. Made("acme", config.domain, serials + 1) \in Materials
    BY <1>2, <1>3, MadeIsMaterial
<1>5. /\ site' \in [Domains -> Nat] /\ site'[config.domain] = serials + 1
      /\ handler' \in [gen : Nat, config : CertConfigs, read : Materials \cup {NoMaterial}]
      /\ handler'.gen = generation /\ handler'.config = config
      /\ handler'.read = Made("acme", config.domain, serials + 1)
    BY <1>1, <1>2, <1>3, <1>4 DEF CertTypeOK
<1> USE DEF managerVars
<1>6. CertTypeOK'
    BY <1>1, <1>3, <1>5 DEF CertTypeOK
<1>7. AcmeIsCurrent' /\ HandlerIsCurrent'
    BY <1>1, <1>2, <1>5 DEF CertInv, CertTypeOK, AcmeIsCurrent, HandlerIsCurrent, NoHandler
<1>8. OperationFits' /\ PairIsWhole' /\ NoRenewalMissed'
    BY <1>1, <1>2 DEF CertInv, OperationFits, Renewing, PairIsWhole, NoPair, NoRenewalMissed,
                      ServiceWaits
<1>9. RequestIsWritten'
    BY <1>1, RequestsStay DEF Renewing
<1> QED BY <1>6, <1>7, <1>8, <1>9 DEF CertInv

\* Renew publishes the newest of the storage itself.
LEMMA FinishRenewKeeps ==
    ASSUME CertTypeOK, CertInv, NEW written \in BOOLEAN, FinishRenew(written)
    PROVE  CertTypeOK' /\ CertInv'
<1> DEFINE m == Made("acme", config.domain, site[config.domain])
<1>1. /\ operation = "reading" /\ operation' = "free" /\ handler = NoHandler
      /\ Publish(config, m, written) /\ renewedFlag' = TRUE /\ Finished("succeeded", written)
      /\ UNCHANGED <<config, generation, acme, sourceSeen, handler, applied, site, serials,
                     forced, restarts>>
    BY DEF FinishRenew
<1>2. /\ acme.on /\ request.result = "running" /\ ~Renewing'
      /\ forced[request.begun].since = 1 /\ forced[request.begun].ever > 0
    BY <1>1 DEF CertInv, OperationFits, RequestIsWritten, Renewing
<1>3. /\ acme.config = config /\ acme.gen = generation /\ generation > 0
      /\ config \in CertConfigs /\ UsesAcme(config) /\ site[config.domain] \in Nat
    BY <1>2 DEF CertTypeOK, CertInv, AcmeIsCurrent, Domains
<1>4. /\ m \in Materials /\ m.mode = "acme" /\ m.domain = config.domain
      /\ m.serial = site[config.domain]
    BY <1>3, MadeIsMaterial
<1> HIDE DEF m
<1>5. /\ material' = m /\ twoFiles' \in {"absent", "older", "users"}
      /\ pair' \in [mode : Modes, material : Materials \cup {NoMaterial}] /\ PairIsWhole'
    BY <1>1, <1>3, <1>4, PublishKeeps DEF CertInv, UsesAcme
<1>6. /\ request' \in RequestStates
      /\ RequestIsWritten'
    BY <1>1, <1>2, FinishedKeeps DEF CertTypeOK
<1>7. renewedFlag' \in BOOLEAN
    BY <1>1
<1>8. CertTypeOK'
    BY <1>1, <1>4, <1>5, <1>6, <1>7 DEF CertTypeOK
<1>9. AcmeIsCurrent'
    BY <1>1, <1>2, <1>3, <1>4, <1>5 DEF AcmeIsCurrent, NoHandler, UsesAcme
<1>10. HandlerIsCurrent' /\ OperationFits' /\ NoRenewalMissed'
    BY <1>1, <1>2, <1>3 DEF HandlerIsCurrent, NoHandler, OperationFits, Renewing,
        NoRenewalMissed,
                            UsesAcme
<1> QED BY <1>5, <1>6, <1>8, <1>9, <1>10 DEF CertInv

\* The service hands a new certificate to the kernel.
LEMMA ServiceKeeps ==
    ASSUME CertTypeOK, CertInv, TakeRenewed \/ ApplyMaterial
    PROVE  CertTypeOK' /\ CertInv'
<1>1. /\ UNCHANGED <<config, material, generation, acme, sourceSeen, operation, handler, pair,
                     twoFiles, site, serials, request, forced, restarts>>
      /\ operation \notin {"boot", "obtaining"}
    BY DEF TakeRenewed, ApplyMaterial, ServiceWaits, managerVars
<1>2. /\ applied' \in [material : Materials \cup {NoMaterial}, due : BOOLEAN, accepted : BOOLEAN]
      /\ applied'.accepted = applied.accepted /\ renewedFlag' \in BOOLEAN
      /\ renewedFlag' => renewedFlag
      /\ applied'.due \/ applied'.material = material
    <2>1. CASE TakeRenewed
        <3>1. renewedFlag' = FALSE /\ applied' = [applied EXCEPT !.due = TRUE]
            BY <2>1 DEF TakeRenewed
        <3>2. renewedFlag' \in BOOLEAN /\ ~renewedFlag'
            BY <3>1
        <3> QED BY <3>1, <3>2 DEF CertTypeOK
    <2>2. CASE ApplyMaterial
        <3>1. /\ renewedFlag' = renewedFlag
              /\ applied' = [applied EXCEPT !.material = material, !.due = FALSE]
            BY <2>2 DEF ApplyMaterial, managerVars
        <3> QED BY <3>1 DEF CertTypeOK
    <2> QED BY <2>1, <2>2
<1>3. CertTypeOK'
    BY <1>1, <1>2 DEF CertTypeOK
<1>4. AcmeIsCurrent' /\ HandlerIsCurrent' /\ PairIsWhole'
    BY <1>1 DEF CertInv, AcmeIsCurrent, HandlerIsCurrent, PairIsWhole, NoHandler, NoPair,
        UsesAcme
<1>5. OperationFits' /\ NoRenewalMissed'
    BY <1>1, <1>2 DEF CertInv, OperationFits, NoRenewalMissed, Renewing, NoPair, Fits, UsesAcme
<1>6. RequestIsWritten'
    BY <1>1, RequestsStay DEF Renewing
<1> QED BY <1>3, <1>4, <1>5, <1>6 DEF CertInv

\* A new process knows of requests what their file says.
LEMMA RestartProcessKeeps ==
    ASSUME CertTypeOK, CertInv, RestartProcess
    PROVE  CertTypeOK' /\ CertInv'
<1>1. /\ config' = FirstConfig /\ material' = NoMaterial
      /\ generation' = 0 /\ acme' = NoAcme /\ renewedFlag' = FALSE /\ sourceSeen' = FALSE
      /\ operation' = "boot" /\ handler' = NoHandler
      /\ applied' = [material |-> NoMaterial, due |-> FALSE, accepted |-> FALSE]
      /\ request' = [request EXCEPT !.begun = 0, !.result = "none", !.loaded = FALSE,
                                    !.unreadable = FALSE]
      /\ UNCHANGED <<pair, twoFiles, site, serials, forced>>
    BY DEF RestartProcess
<1>2. /\ acme' \in [on : BOOLEAN, config : CertConfigs, gen : Nat] /\ ~acme'.on
      /\ handler' \in [gen : Nat, config : CertConfigs, read : Materials \cup {NoMaterial}]
    BY <1>1, CertAssumption DEF NoAcme, NoHandler
<1>3. /\ applied' \in [material : Materials \cup {NoMaterial}, due : BOOLEAN, accepted : BOOLEAN]
      /\ ~applied'.accepted /\ renewedFlag' \in BOOLEAN /\ sourceSeen' \in BOOLEAN
    BY <1>1
<1>4. /\ request' \in RequestStates
      /\ request'.begun = 0 /\ request'.result = "none" /\ ~request'.loaded
      /\ request'.saved = request.saved /\ request'.file = request.file
    <2>1. 0 \in 0..MaxRequests
        BY CertAssumption
    <2> QED BY <1>1, <2>1 DEF CertTypeOK, RequestStates, Results
<1>5. CertTypeOK'
    BY <1>1, <1>2, <1>3, <1>4, CertAssumption DEF CertTypeOK
<1>6. AcmeIsCurrent' /\ HandlerIsCurrent' /\ OperationFits' /\ PairIsWhole' /\ NoRenewalMissed'
    BY <1>1, <1>2, <1>3 DEF CertInv, AcmeIsCurrent, HandlerIsCurrent, OperationFits, Renewing,
                            PairIsWhole, NoHandler, NoPair, NoRenewalMissed
<1>7. RequestIsWritten'
    BY <1>1, <1>4 DEF CertTypeOK, CertInv, RequestIsWritten, Renewing
<1> QED BY <1>5, <1>6, <1>7 DEF CertInv

\* Every step keeps the invariant.
LEMMA CertificatesStep ==
    ASSUME CertTypeOK, CertInv, [CertificatesNext]_certificateVars
    PROVE  CertTypeOK' /\ CertInv'
<1>1. ASSUME NEW written \in BOOLEAN, NEW c \in CertConfigs, ReconfigureCert(c, written)
      PROVE  CertTypeOK' /\ CertInv'
    BY <1>1, ReconfigureKeeps
<1>2. ASSUME NEW written \in BOOLEAN,
             ObtainCert(written) \/ PublishRenewal(written) \/ LoadRequest(written)
             \/ BeginRequest(written) \/ BeginRenew(written) \/ RenewalFails(written)
             \/ FinishRenew(written)
      PROVE  CertTypeOK' /\ CertInv'
    BY <1>2, ObtainKeeps, PublishRenewalKeeps, LoadRequestKeeps, BeginRequestKeeps,
       BeginRenewKeeps, RenewalFailsKeeps, FinishRenewKeeps
<1>3. CASE ObtainCertFails \/ RenewInBackground \/ AskRenewal \/ ForceRenewal
    BY <1>3, ObtainFailsKeeps, RenewInBackgroundKeeps, AskRenewalKeeps, ForceRenewalKeeps
<1>4. CASE TakeRenewed \/ ApplyMaterial \/ RestartProcess
    BY <1>4, ServiceKeeps, RestartProcessKeeps
<1>5. CASE UNCHANGED certificateVars
    <2>1. CertTypeOK'
        BY <1>5 DEF certificateVars, managerVars, CertTypeOK
    <2>2. RequestIsWritten'
        BY <1>5, RequestsStay DEF certificateVars, Renewing
    <2>3. CertInv'
        BY <1>5, <2>1, <2>2, ManagerStays DEF certificateVars, CertInv
    <2> QED BY <2>1, <2>3
<1> QED BY <1>1, <1>2, <1>3, <1>4, <1>5 DEF CertificatesNext

(* The manager, its handlers, the files and the requests keep their types.   *)
THEOREM CertTypesCorrect == CertificatesSpec => []CertTypeOK
<1>1. CertificatesInit => CertTypeOK /\ CertInv
    BY CertificatesStart
<1>2. CertTypeOK /\ CertInv /\ [CertificatesNext]_certificateVars => (CertTypeOK /\ CertInv)'
    BY CertificatesStep
<1> QED BY <1>1, <1>2, PTL DEF CertificatesSpec

(* certmagic and its handlers belong to the configuration in force or to a   *)
(* generation that publishes nothing, and a request is written down before   *)
(* it begins: the inductive invariant of the certificates.                   *)
THEOREM CertInvHolds == CertificatesSpec => []CertInv
<1>1. CertificatesInit => CertTypeOK /\ CertInv
    BY CertificatesStart
<1>2. CertTypeOK /\ CertInv /\ [CertificatesNext]_certificateVars => (CertTypeOK /\ CertInv)'
    BY CertificatesStep
<1> QED BY <1>1, <1>2, PTL DEF CertificatesSpec

(* cert.go with operations.go: an accepted configuration has its own         *)
(* certificate and the newest of it, the kernel has it or is told, and a     *)
(* renewal the panel asked for is begun at most once until the node takes    *)
(* another request, over restarts, failed writes and requests that come      *)
(* again.                                                                    *)
THEOREM CertificatesStayTogether == CertificatesSpec => []CertificatesHold
<1>1. CertTypeOK /\ CertInv => CertificatesHold
    <2> SUFFICES ASSUME CertTypeOK, CertInv PROVE CertificatesHold
        OBVIOUS
    <2>1. MaterialIsConfigured
        <3> SUFFICES ASSUME operation = "free", applied.accepted
                     PROVE  /\ config.mode = "none" =>
                                material = NoMaterial /\ pair = NoPair /\ ~renewedFlag
                            /\ config.mode # "none" =>
                                /\ Fits(material, config)
                                /\ UsesAcme(config) <=> material.mode = "acme"
                            /\ UsesAcme(config) /\ handler = NoHandler =>
                                material.serial = site[config.domain]
            BY DEF MaterialIsConfigured
        <3>1. CASE UsesAcme(config)
            BY <3>1, CertAssumption DEF CertInv, OperationFits, AcmeIsCurrent, Fits, UsesAcme
        <3>2. CASE ~UsesAcme(config)
            BY <3>2 DEF CertInv, OperationFits
        <3> QED BY <3>1, <3>2
    <2>2. RenewedOnce
        BY DEF CertTypeOK, RequestStates, ForcedCounts, CertInv, RequestIsWritten, RenewedOnce
    <2> QED BY <2>1, <2>2 DEF CertInv, CertificatesHold
<1> QED BY <1>1, CertTypesCorrect, CertInvHolds, PTL

-----------------------------------------------------------------------------
(* RemoteUpgrade: operations of the panel and the upgrade.                   *)

\* A process that has not begun.
LEMMA NewWorkerIsOne ==
    /\ NewWorker \in Executors /\ NewWorker.at = "none" /\ NewWorker.target = NoVersion
    /\ NewWorker.staged = [f \in Files |-> TRUE] /\ NewWorker.replaced = {} /\ ~NewWorker.locked
    BY DEF NewWorker, Executors, Steps

\* The command line is no operation.
LEMMA ZeroIsNone == /\ Operations \subseteq Workers /\ 0 \in Workers /\ 0 \notin Operations
                    /\ Upgrades \subseteq Operations /\ \A w \in Workers : w # 0 => w \in Operations
    BY UpgradeAssumption DEF Workers

\* A worker that nobody has started, or that has ended.
LEMMA NewIsPlannedWell ==
    ASSUME NEW w \in Workers, workers[w].at \in {"none", "read", "lock", "recheck", "install"},
           workers[w].replaced = {},
           workers[w].target # NoVersion => /\ workers[w].old \in Programs
                                            /\ Older(workers[w].old["node"].version,
                                                     workers[w].target),
           workers[w].sums => \A f \in Files : workers[w].staged[f]
    PROVE  PlannedWell(w)
    BY DEF PlannedWell, Replaces

\* A machine on which nothing was ordered.
LEMMA UpgradeStarts == UpgradeInit => UpgradeTypeOK /\ UpgradeInv
<1> SUFFICES ASSUME UpgradeInit PROVE UpgradeTypeOK /\ UpgradeInv
    OBVIOUS
<1>1. PICK v \in Versions : /\ programs = [f \in Files |-> [version |-> v, good |-> TRUE]]
                            /\ service = v
    BY DEF UpgradeInit
<1>2. /\ \A w \in Workers : workers[w] = NewWorker
      /\ agent.at = "idle" /\ \A o \in Operations : carried[o] = 0
    BY DEF UpgradeInit
<1>3. UpgradeTypeOK
    <2>1. programs \in Programs
        BY <1>1 DEF Programs
    <2>2. workers \in [Workers -> Executors]
        BY NewWorkerIsOne DEF UpgradeInit
    <2>3. agent \in [op : Workers, at : {"idle", "save", "point", "launch"}]
        BY ZeroIsNone DEF UpgradeInit
    <2> QED BY <1>1, <1>2, <2>1, <2>2, <2>3, ZeroIsNone DEF UpgradeInit, UpgradeTypeOK, Statuses
<1>4. LaunchedOnce
    BY <1>2, ZeroIsNone, NewWorkerIsOne DEF LaunchedOnce
<1>5. OneWorker
    BY <1>2, NewWorkerIsOne DEF OneWorker, LockedSteps
<1>6. FilesFollow
    BY <1>1, <1>2, NewWorkerIsOne DEF FilesFollow, Agreed, Files
<1>7. \A w \in Workers : PlannedWell(w)
    BY <1>2, NewWorkerIsOne, NewIsPlannedWell
<1> QED BY <1>3, <1>4, <1>5, <1>6, <1>7 DEF UpgradeInv

\* A worker goes on: it does not come back before the check of its record.
LEMMA OnceKept ==
    ASSUME UpgradeTypeOK, UpgradeInv, NEW w \in Workers, NEW r \in Executors,
           workers' = [workers EXCEPT ![w] = r], workers[w].at # "none",
           r.at \in {"read", "lock", "recheck"} => workers[w].at \in {"read", "lock", "recheck"},
           carried' = carried, agent' = agent \/ agent'.at = "idle",
           \A o \in Operations : records'[o] = records[o] \/ (o = w /\ records'[o] # "none")
    PROVE  LaunchedOnce'
<1>1. /\ workers'[w] = r /\ \A v \in Workers : v # w => workers'[v] = workers[v]
    BY DEF UpgradeTypeOK
<1>2. agent'.at # "idle" => agent' = agent /\ agent.op \in Operations /\ agent.op # w
    BY DEF UpgradeTypeOK, UpgradeInv, LaunchedOnce
<1> QED BY <1>1, <1>2, ZeroIsNone DEF UpgradeTypeOK, UpgradeInv, LaunchedOnce

\* The one worker that has the directory goes on.
LEMMA LockedWorks ==
    ASSUME UpgradeTypeOK, UpgradeInv, NEW w \in Workers, NEW r \in Executors,
           workers' = [workers EXCEPT ![w] = r], workers[w].locked, r.locked,
           r.at \in LockedSteps, lockDir' = lockDir, PlannedWell(w)',
           deaths' = 0 => Follows(w)'
    PROVE  OneWorker' /\ FilesFollow' /\ \A v \in Workers : PlannedWell(v)'
<1>1. /\ workers'[w] = r /\ \A v \in Workers : v # w => workers'[v] = workers[v]
    BY DEF UpgradeTypeOK
<1>2. \A v \in Workers : v # w => ~workers[v].locked /\ workers[v].at \notin LockedSteps
    BY DEF UpgradeInv, OneWorker
<1>3. OneWorker'
    BY <1>1, <1>2 DEF UpgradeInv, OneWorker
<1>4. FilesFollow'
    BY <1>1, <1>2 DEF FilesFollow
<1>5. ASSUME NEW v \in Workers, v # w PROVE PlannedWell(v)'
    <2>1. PlannedWell(v) /\ workers'[v] = workers[v] /\ workers[v].at \notin LockedSteps
        BY <1>1, <1>2, <1>5 DEF UpgradeInv
    <2>2. workers[v].replaced = {} /\ ~Replaces(v)
        BY <2>1 DEF PlannedWell, Replaces, LockedSteps
    <2> QED BY <2>1, <2>2 DEF PlannedWell, Replaces, LockedSteps
<1> QED BY <1>3, <1>4, <1>5

\* A worker before the directory goes on; the files are left alone.
LEMMA UnlockedWorks ==
    ASSUME UpgradeTypeOK, UpgradeInv, NEW w \in Workers, NEW r \in Executors,
           workers' = [workers EXCEPT ![w] = r], ~workers[w].locked, ~r.locked,
           r.at \notin LockedSteps, r.replaced = {},
           r.target # NoVersion => /\ r.old \in Programs
                                   /\ Older(r.old["node"].version, r.target),
           r.sums => \A f \in Files : r.staged[f],
           lockDir' = lockDir, UNCHANGED <<programs, service>>, deaths' = 0 => deaths = 0
    PROVE  OneWorker' /\ FilesFollow' /\ \A v \in Workers : PlannedWell(v)'
<1>1. /\ workers'[w] = r /\ \A v \in Workers : v # w => workers'[v] = workers[v]
    BY DEF UpgradeTypeOK
<1>2. OneWorker'
    BY <1>1 DEF UpgradeInv, OneWorker
<1>3. FilesFollow'
    BY <1>1 DEF UpgradeInv, FilesFollow, Follows, Between, Agreed, Replaces
<1>4. \A v \in Workers : PlannedWell(v)'
    <2>1. PlannedWell(w)'
        BY <1>1, NewIsPlannedWell DEF PlannedWell, Replaces, LockedSteps
    <2>2. ASSUME NEW v \in Workers, v # w PROVE PlannedWell(v)'
        BY <1>1, <2>2 DEF UpgradeInv, PlannedWell, Replaces
    <2> QED BY <2>1, <2>2
<1> QED BY <1>2, <1>3, <1>4

\* A worker ends: the directory is free again, and the files are as they are
\* to be when nobody works on them.
LEMMA FinishKeeps ==
    ASSUME UpgradeTypeOK, UpgradeInv, NEW w \in Workers, NEW status, Finish(w, status),
           w \in Operations => status \in Statuses \ {"none"},
           workers[w].at # "none", UNCHANGED <<programs, carried>>,
           agent' = agent \/ agent' = [op |-> 0, at |-> "idle"],
           deaths' = deaths, IF workers[w].locked THEN deaths = 0 => Agreed'
                                                 ELSE UNCHANGED service
    PROVE  /\ records' \in [Operations -> Statuses] /\ execLock' \in {"free", "held"}
           /\ lockDir' \in BOOLEAN /\ workers' \in [Workers -> Executors] /\ UpgradeInv'
<1>1. /\ workers' = [workers EXCEPT ![w] = NewWorker]
      /\ records' = IF w = 0 THEN records ELSE [records EXCEPT ![w] = status]
      /\ execLock' \in {execLock, "free"}
      /\ lockDir' = (lockDir /\ ~workers[w].locked)
    BY DEF Finish
<1>2. /\ workers'[w] = NewWorker /\ \A v \in Workers : v # w => workers'[v] = workers[v]
      /\ workers' \in [Workers -> Executors]
    BY <1>1, NewWorkerIsOne DEF UpgradeTypeOK
<1>3. /\ records' \in [Operations -> Statuses]
      /\ \A o \in Operations : records'[o] = records[o] \/ (o = w /\ records'[o] # "none")
    BY <1>1, ZeroIsNone DEF UpgradeTypeOK
<1>4. lockDir' \in BOOLEAN
    BY <1>1
<1>5. LaunchedOnce'
    <2>1. agent' = agent \/ agent'.at = "idle"
        OBVIOUS
    <2>2. NewWorker \in Executors /\ NewWorker.at \notin {"read", "lock", "recheck"}
        BY NewWorkerIsOne
    <2> HIDE DEF NewWorker
    <2> QED BY <1>1, <1>3, <2>1, <2>2, OnceKept
<1>6. \A v \in Workers : PlannedWell(v)'
    <2>1. PlannedWell(w)'
        BY <1>2, NewWorkerIsOne DEF PlannedWell, Replaces
    <2>2. ASSUME NEW v \in Workers, v # w PROVE PlannedWell(v)'
        BY <1>2, <2>2 DEF UpgradeInv, PlannedWell, Replaces
    <2> QED BY <2>1, <2>2
<1>7. CASE workers[w].locked
    <2>1. \A v \in Workers : ~workers'[v].locked
        BY <1>2, <1>7, NewWorkerIsOne DEF UpgradeInv, OneWorker
    <2>2. OneWorker'
        BY <1>2, <2>1, NewWorkerIsOne DEF UpgradeInv, OneWorker, LockedSteps
    <2>3. FilesFollow'
        BY <1>7, <2>1 DEF FilesFollow
    <2> QED BY <1>1, <1>2, <1>3, <1>4, <1>5, <1>6, <2>2, <2>3 DEF UpgradeTypeOK, UpgradeInv
<1>8. CASE ~workers[w].locked
    <2>1. lockDir' = lockDir
        BY <1>1, <1>8 DEF UpgradeTypeOK
    <2>2. OneWorker'
        BY <1>2, <1>8, <2>1, NewWorkerIsOne DEF UpgradeInv, OneWorker, LockedSteps
    <2>3. FilesFollow'
        BY <1>2, <1>8, NewWorkerIsOne
           DEF UpgradeInv, FilesFollow, Follows, Between, Agreed, Replaces
    <2> QED BY <1>1, <1>2, <1>3, <1>4, <1>5, <1>6, <2>2, <2>3 DEF UpgradeTypeOK, UpgradeInv
<1> QED BY <1>7, <1>8

-----------------------------------------------------------------------------
(* The agent.                                                                *)

\* An operation arrives and is written down, its file before the pointer.
LEMMA AgentSaves ==
    ASSUME UpgradeTypeOK, UpgradeInv,
           (\E o \in Operations : Receive(o)) \/ SaveRecord \/ SavePointer
    PROVE  UpgradeTypeOK' /\ UpgradeInv'
<1>1. /\ UNCHANGED <<workers, lockDir, programs, overdue, execLock, service, latest, unified,
                     deaths, carried>>
    BY DEF Receive, SaveRecord, SavePointer, AgentFrame
<1>2. OneWorker' /\ FilesFollow' /\ \A w \in Workers : PlannedWell(w)'
    BY <1>1 DEF UpgradeInv, OneWorker, FilesFollow, Follows, Between, Agreed, Replaces,
        PlannedWell
<1>3. ASSUME NEW o \in Operations, Receive(o) PROVE UpgradeTypeOK' /\ LaunchedOnce'
    <2>1. /\ agent' = [op |-> o, at |-> "save"] /\ records[o] = "none"
          /\ UNCHANGED <<records, pointer>>
        BY <1>3 DEF Receive, AgentTo
    <2>2. UpgradeTypeOK'
        BY <1>1, <2>1, ZeroIsNone DEF UpgradeTypeOK
    <2>3. LaunchedOnce'
        BY <1>1, <2>1 DEF UpgradeInv, LaunchedOnce
    <2> QED BY <2>2, <2>3
<1>4. ASSUME SaveRecord PROVE UpgradeTypeOK' /\ LaunchedOnce'
    <2>0. agent.at = "save" /\ agent.op \in Operations /\ pointer' = pointer
        BY <1>4 DEF SaveRecord, UpgradeTypeOK
    <2>1. CASE /\ \E s \in {"running", "failed"} : records' = [records EXCEPT ![agent.op] = s]
               /\ agent' = [op |-> agent.op, at |-> "point"]
        <3>1. UpgradeTypeOK'
            BY <1>1, <2>0, <2>1, ZeroIsNone DEF UpgradeTypeOK, Statuses
        <3>2. LaunchedOnce'
            BY <1>1, <2>0, <2>1 DEF UpgradeTypeOK, UpgradeInv, LaunchedOnce
        <3> QED BY <3>1, <3>2
    <2>2. CASE agent' = [op |-> 0, at |-> "idle"] /\ records' = records
        BY <1>1, <2>0, <2>2, ZeroIsNone DEF UpgradeTypeOK, UpgradeInv, LaunchedOnce
    <2> QED BY <1>4, <2>1, <2>2 DEF SaveRecord, AgentTo
<1>5. ASSUME SavePointer PROVE UpgradeTypeOK' /\ LaunchedOnce'
    <2>0. agent.at = "point" /\ agent.op \in Operations /\ records' = records
          /\ pointer' \in {pointer, agent.op}
        BY <1>5 DEF SavePointer, UpgradeTypeOK
    <2>1. agent' \in {[op |-> agent.op, at |-> "launch"], [op |-> 0, at |-> "idle"]}
        BY <1>5 DEF SavePointer, AgentTo
    <2> QED BY <1>1, <2>0, <2>1, ZeroIsNone DEF UpgradeTypeOK, UpgradeInv, LaunchedOnce
<1> QED BY <1>2, <1>3, <1>4, <1>5 DEF UpgradeInv

\* Its executor is launched, for the first time.
LEMMA LaunchKeepsOnce ==
    ASSUME UpgradeTypeOK, UpgradeInv, LaunchRemote
    PROVE  UpgradeTypeOK' /\ UpgradeInv'
<1> DEFINE o == agent.op
           r == [NewWorker EXCEPT !.at = "read"]
<1>1. /\ agent.at = "launch" /\ o \in Operations /\ agent' = [op |-> 0, at |-> "idle"]
      /\ UNCHANGED <<pointer, lockDir, programs, overdue, execLock, service, latest, unified,
                     deaths, carried>>
    BY DEF LaunchRemote, AgentFrame, AgentTo, UpgradeTypeOK
<1>2. records[o] # "none" /\ workers[o].at = "none" /\ carried[o] = 0
    BY <1>1 DEF UpgradeInv, LaunchedOnce
<1>3. agent' \in [op : Workers, at : {"idle", "save", "point", "launch"}] /\ agent'.at = "idle"
    BY <1>1, ZeroIsNone
<1>4. CASE workers' = [workers EXCEPT ![o] = r] /\ records' = records
    <2>1. /\ r \in Executors /\ r.at = "read" /\ ~r.locked /\ r.replaced = {}
          /\ r.target = NoVersion /\ \A f \in Files : r.staged[f]
        BY DEF NewWorker, Executors, Steps, Files
    <2> HIDE DEF r
    <2>2. UpgradeTypeOK'
        BY <1>1, <1>3, <1>4, <2>1, ZeroIsNone DEF UpgradeTypeOK
    <2>3. LaunchedOnce'
        BY <1>1, <1>2, <1>3, <1>4, <2>1, ZeroIsNone DEF UpgradeTypeOK, UpgradeInv, LaunchedOnce
    <2>4. ~workers[o].locked /\ r.at \notin LockedSteps
        BY <1>1, <1>2, <2>1, ZeroIsNone DEF UpgradeInv, OneWorker, LockedSteps
    <2>5. OneWorker' /\ FilesFollow' /\ \A v \in Workers : PlannedWell(v)'
        BY <1>1, <1>4, <2>1, <2>4, ZeroIsNone, UnlockedWorks
    <2> QED BY <2>2, <2>3, <2>5 DEF UpgradeInv
<1>5. CASE workers' = workers /\ records' = [records EXCEPT ![o] = "failed"]
    <2>1. UpgradeTypeOK'
        BY <1>1, <1>3, <1>5 DEF UpgradeTypeOK, Statuses
    <2>2. LaunchedOnce'
        BY <1>1, <1>3, <1>5 DEF UpgradeTypeOK, UpgradeInv, LaunchedOnce
    <2>3. OneWorker' /\ FilesFollow' /\ \A w \in Workers : PlannedWell(w)'
        BY <1>1, <1>5
           DEF UpgradeInv, OneWorker, FilesFollow, Follows, Between, Agreed, Replaces,
               PlannedWell
    <2> QED BY <2>1, <2>2, <2>3 DEF UpgradeInv
<1> QED BY <1>4, <1>5 DEF LaunchRemote

-----------------------------------------------------------------------------
(* The executor, up to the directory.                                        *)

\* A worker at an early step has nothing but its step.
LEMMA EarlyWorker ==
    ASSUME UpgradeTypeOK, UpgradeInv, NEW w \in Workers,
           workers[w].at \in {"read", "lock", "recheck", "install"}
    PROVE  /\ workers[w] \in Executors /\ ~workers[w].locked /\ workers[w].replaced = {}
           /\ workers[w].sums => \A f \in Files : workers[w].staged[f]
           /\ workers[w].target # NoVersion => /\ workers[w].old \in Programs
                                               /\ Older(workers[w].old["node"].version,
                                                        workers[w].target)
    BY DEF UpgradeTypeOK, UpgradeInv, OneWorker, LockedSteps, PlannedWell

\* What a jump to another step leaves alone.
LEMMA GotoChanges ==
    ASSUME UpgradeTypeOK, NEW w \in Workers, NEW step \in Steps, Goto(w, step)
    PROVE  \E r \in Executors :
               /\ workers' = [workers EXCEPT ![w] = r] /\ r.at = step
               /\ r.locked = workers[w].locked /\ r.target = workers[w].target
               /\ r.sums = workers[w].sums /\ r.staged = workers[w].staged
               /\ r.old = workers[w].old /\ r.replaced = workers[w].replaced
<1> DEFINE r == [workers[w] EXCEPT !.at = step]
<1>1. workers[w] \in Executors
    BY DEF UpgradeTypeOK
<1>2. workers' = [workers EXCEPT ![w] = r]
    BY DEF Goto
<1>3. r \in Executors /\ r.at = step
    BY <1>1 DEF Executors
<1>4. /\ r.locked = workers[w].locked /\ r.target = workers[w].target
      /\ r.sums = workers[w].sums /\ r.staged = workers[w].staged
      /\ r.old = workers[w].old /\ r.replaced = workers[w].replaced
    BY <1>1 DEF Executors
<1> QED BY <1>2, <1>3, <1>4

\* A worker that does not have the directory goes from one early step to the next.
LEMMA EarlyGoes ==
    ASSUME UpgradeTypeOK, UpgradeInv, NEW w \in Workers, NEW step \in Steps \ LockedSteps,
           workers[w].at \in {"read", "lock", "recheck"}, step \in {"lock", "recheck"},
           Goto(w, step), UNCHANGED <<records, lockDir, programs, service, carried, agent,
               deaths>>
    PROVE  workers' \in [Workers -> Executors] /\ UpgradeInv'
<1>1. PICK r \in Executors :
          /\ workers' = [workers EXCEPT ![w] = r] /\ r.at = step
          /\ r.locked = workers[w].locked /\ r.target = workers[w].target
          /\ r.sums = workers[w].sums /\ r.staged = workers[w].staged
          /\ r.old = workers[w].old /\ r.replaced = workers[w].replaced
    BY GotoChanges
<1>2. LaunchedOnce'
    BY <1>1, OnceKept
<1>3. OneWorker' /\ FilesFollow' /\ \A v \in Workers : PlannedWell(v)'
    BY <1>1, EarlyWorker, UnlockedWorks
<1> QED BY <1>1, <1>2, <1>3 DEF UpgradeTypeOK, UpgradeInv

\* The executor reads its record.
LEMMA ReadsRecord ==
    ASSUME UpgradeTypeOK, UpgradeInv, NEW w \in Operations, ReadRecord(w)
    PROVE  UpgradeTypeOK' /\ UpgradeInv'
<1>1. /\ workers[w].at = "read" /\ w \in Workers
      /\ UNCHANGED <<records, lockDir, programs, execLock, service, carried, pointer, agent,
                     overdue, latest, unified, deaths>>
    BY ZeroIsNone DEF ReadRecord, WorkerFrame
<1>2. CASE Goto(w, "lock")
    <2>1. workers' \in [Workers -> Executors] /\ UpgradeInv'
        BY <1>1, <1>2, EarlyGoes DEF Steps, LockedSteps
    <2> QED BY <1>1, <2>1 DEF UpgradeTypeOK
<1>3. CASE workers' = [workers EXCEPT ![w] = NewWorker]
    <2>1. LaunchedOnce'
        <3>1. NewWorker \in Executors /\ NewWorker.at \notin {"read", "lock", "recheck"}
            BY NewWorkerIsOne
        <3> HIDE DEF NewWorker
        <3> QED BY <1>1, <1>3, <3>1, OnceKept
    <2>2. OneWorker' /\ FilesFollow' /\ \A v \in Workers : PlannedWell(v)'
        <3>1. /\ NewWorker \in Executors /\ NewWorker.at \notin LockedSteps /\ ~NewWorker.locked
              /\ NewWorker.replaced = {} /\ NewWorker.target = NoVersion
              /\ \A f \in Files : NewWorker.staged[f]
            BY NewWorkerIsOne DEF LockedSteps
        <3> HIDE DEF NewWorker
        <3> QED BY <1>1, <1>3, <3>1, EarlyWorker, UnlockedWorks
    <2>3. workers' \in [Workers -> Executors]
        BY <1>3, NewWorkerIsOne DEF UpgradeTypeOK
    <2> QED BY <1>1, <2>1, <2>2, <2>3 DEF UpgradeTypeOK, UpgradeInv
<1> QED BY <1>2, <1>3 DEF ReadRecord

\* A worker that ends before it has the directory.
LEMMA EarlyEnds ==
    ASSUME UpgradeTypeOK, UpgradeInv, NEW w \in Workers, NEW status, Finish(w, status),
           w \in Operations => status \in Statuses \ {"none"},
           workers[w].at # "none", ~workers[w].locked, UNCHANGED <<programs, service, carried>>,
           WorkerFrame
    PROVE  UpgradeTypeOK' /\ UpgradeInv'
<1>1. UNCHANGED <<pointer, agent, overdue, latest, unified, deaths>>
    BY DEF WorkerFrame
<1>2. /\ records' \in [Operations -> Statuses] /\ execLock' \in {"free", "held"}
      /\ lockDir' \in BOOLEAN /\ workers' \in [Workers -> Executors] /\ UpgradeInv'
    BY <1>1, FinishKeeps
<1> QED BY <1>1, <1>2 DEF UpgradeTypeOK

\* It takes the lock of the executors or ends.
LEMMA LocksExecution ==
    ASSUME UpgradeTypeOK, UpgradeInv, NEW w \in Operations, LockExecution(w)
    PROVE  UpgradeTypeOK' /\ UpgradeInv'
<1>1. /\ workers[w].at = "lock" /\ w \in Workers /\ ~workers[w].locked
      /\ UNCHANGED <<programs, service, carried, pointer, agent, overdue, latest, unified, deaths>>
    BY ZeroIsNone, EarlyWorker DEF LockExecution, WorkerFrame
<1>2. CASE Finish(w, "failed")
    BY <1>1, <1>2, EarlyEnds DEF Statuses, WorkerFrame
<1>3. CASE execLock' = "held" /\ Goto(w, "recheck") /\ UNCHANGED <<records, lockDir>>
    <2>1. workers' \in [Workers -> Executors] /\ UpgradeInv'
        BY <1>1, <1>3, EarlyGoes DEF Steps, LockedSteps
    <2> QED BY <1>1, <1>3, <2>1 DEF UpgradeTypeOK
<1> QED BY <1>2, <1>3 DEF LockExecution

\* Under the lock it reads the record again: from here it is carried out, once.
LEMMA Rechecks ==
    ASSUME UpgradeTypeOK, UpgradeInv, NEW w \in Operations, Recheck(w)
    PROVE  UpgradeTypeOK' /\ UpgradeInv'
<1>1. /\ workers[w].at = "recheck" /\ w \in Workers /\ ~workers[w].locked
      /\ UNCHANGED <<programs, service, pointer, agent, overdue, latest, unified, deaths>>
    BY ZeroIsNone, EarlyWorker DEF Recheck, WorkerFrame
<1>2. records[w] \in Statuses \ {"none"} /\ carried[w] = 0
    BY <1>1 DEF UpgradeTypeOK, UpgradeInv, LaunchedOnce
<1>3. CASE Finish(w, records[w]) /\ UNCHANGED carried
    BY <1>1, <1>2, <1>3, EarlyEnds DEF WorkerFrame
<1>4. CASE Finish(w, "failed") /\ UNCHANGED carried
    BY <1>1, <1>4, EarlyEnds DEF Statuses, WorkerFrame
<1>5. CASE /\ Goto(w, "install") /\ carried' = [carried EXCEPT ![w] = @ + 1]
           /\ UNCHANGED <<records, lockDir, execLock>>
    <2>1. PICK r \in Executors :
              /\ workers' = [workers EXCEPT ![w] = r] /\ r.at = "install"
              /\ r.locked = workers[w].locked /\ r.target = workers[w].target
              /\ r.sums = workers[w].sums /\ r.staged = workers[w].staged
              /\ r.old = workers[w].old /\ r.replaced = workers[w].replaced
        BY <1>1, <1>5, GotoChanges DEF Steps
    <2>2. /\ workers'[w] = r /\ \A v \in Workers : v # w => workers'[v] = workers[v]
          /\ carried' \in [Operations -> Nat] /\ carried'[w] = 1
          /\ \A o \in Operations : o # w => carried'[o] = carried[o]
        BY <1>1, <1>2, <1>5, <2>1 DEF UpgradeTypeOK
    <2>3. LaunchedOnce'
        <3>1. /\ agent.at = "save" => records[agent.op] = "none" /\ agent.op \in Operations
              /\ agent.at \in {"point", "launch"} =>
                     agent.op \in Operations /\ agent.op # w /\ records[agent.op] # "none"
                     /\ workers[agent.op].at = "none" /\ carried[agent.op] = 0
            BY <1>1 DEF UpgradeTypeOK, UpgradeInv, LaunchedOnce
        <3> QED BY <1>1, <1>2, <1>5, <2>1, <2>2, <3>1, ZeroIsNone DEF UpgradeInv, LaunchedOnce
    <2>4. OneWorker' /\ FilesFollow' /\ \A v \in Workers : PlannedWell(v)'
        BY <1>1, <1>5, <2>1, EarlyWorker, UnlockedWorks DEF LockedSteps
    <2>5. UpgradeTypeOK'
        BY <1>1, <1>5, <2>1, <2>2 DEF UpgradeTypeOK
    <2> QED BY <2>3, <2>4, <2>5 DEF UpgradeInv
<1> QED BY <1>3, <1>4, <1>5 DEF Recheck

\* The directory is taken by the one worker that has it from now on.
LEMMA LocksInstallation ==
    ASSUME UpgradeTypeOK, UpgradeInv, NEW w \in Workers, LockInstallation(w)
    PROVE  UpgradeTypeOK' /\ UpgradeInv'
<1>1. /\ workers[w].at = "install" /\ ~workers[w].locked
      /\ UNCHANGED <<programs, service, carried, pointer, agent, overdue, latest, unified, deaths>>
    BY EarlyWorker DEF LockInstallation, WorkerFrame
<1>2. CASE Finish(w, "failed")
    BY <1>1, <1>2, EarlyEnds DEF Statuses, WorkerFrame
<1> DEFINE step == IF w \in Upgrades \cup {0} THEN "plan" ELSE "restart"
           r == [workers[w] EXCEPT !.locked = TRUE, !.at = step]
<1>3. CASE /\ ~lockDir /\ lockDir' = TRUE /\ UNCHANGED <<records, execLock>>
           /\ workers' = [workers EXCEPT ![w] = r]
    <2>1. /\ r \in Executors /\ r.at = step /\ r.locked /\ r.replaced = {}
          /\ r.sums => \A f \in Files : r.staged[f]
          /\ r.target # NoVersion => /\ r.old \in Programs
                                     /\ Older(r.old["node"].version, r.target)
        <3>1. workers[w] \in Executors /\ step \in Steps
            BY DEF UpgradeTypeOK, Steps, LockedSteps
        <3>2. r \in Executors /\ r.at = step /\ r.locked
            BY <3>1 DEF Executors
        <3>3. /\ r.replaced = workers[w].replaced /\ r.sums = workers[w].sums
              /\ r.staged = workers[w].staged /\ r.target = workers[w].target
              /\ r.old = workers[w].old
            BY <3>1 DEF Executors
        <3> HIDE DEF r, step
        <3> QED BY <1>1, <3>2, <3>3, EarlyWorker
    <2>2. /\ step \in {"plan", "restart"} /\ (step = "restart" => w \notin Upgrades \cup {0})
          /\ step = "plan" => w \in Upgrades \cup {0}
        OBVIOUS
    <2> HIDE DEF r, step
    <2>3. /\ workers'[w] = r /\ \A v \in Workers : v # w => workers'[v] = workers[v]
          /\ workers' \in [Workers -> Executors]
        BY <1>3, <2>1 DEF UpgradeTypeOK
    <2>4. \A v \in Workers : ~workers[v].locked
        BY <1>3 DEF UpgradeInv, OneWorker
    <2>5. OneWorker'
        BY <1>3, <2>1, <2>2, <2>3, <2>4 DEF UpgradeInv, OneWorker, LockedSteps
    <2>6. PlannedWell(w)' /\ ~Replaces(w)'
        BY <2>1, <2>2, <2>3 DEF PlannedWell, Replaces
    <2>7. \A v \in Workers : v # w => PlannedWell(v)'
        BY <1>1, <2>3 DEF UpgradeInv, PlannedWell, Replaces
    <2>8. FilesFollow'
        <3>1. deaths = 0 => Agreed
            BY <2>4 DEF UpgradeInv, FilesFollow
        <3>2. deaths' = 0 => Agreed'
            BY <1>1, <3>1 DEF Agreed
        <3> QED BY <1>1, <2>1, <2>3, <2>4, <2>6, <3>2 DEF FilesFollow, Follows
    <2>9. LaunchedOnce'
        BY <1>1, <1>3, <2>1, <2>2, OnceKept
    <2>10. UpgradeTypeOK'
        BY <1>1, <1>3, <2>3 DEF UpgradeTypeOK
    <2> QED BY <2>5, <2>6, <2>7, <2>8, <2>9, <2>10 DEF UpgradeInv
<1> QED BY <1>2, <1>3 DEF LockInstallation

\* The command line begins an upgrade.
LEMMA CallsUpgrade ==
    ASSUME UpgradeTypeOK, UpgradeInv, CallUpgrade
    PROVE  UpgradeTypeOK' /\ UpgradeInv'
<1> DEFINE r == [NewWorker EXCEPT !.at = "install"]
<1>1. /\ workers[0].at = "none" /\ 0 \in Workers /\ workers' = [workers EXCEPT ![0] = r]
      /\ UNCHANGED <<records, lockDir, programs, execLock, service, carried, pointer, agent,
                     overdue, latest, unified, deaths>>
    BY ZeroIsNone DEF CallUpgrade, WorkerFrame
<1>2. /\ r \in Executors /\ r.at = "install" /\ ~r.locked /\ r.replaced = {}
      /\ r.target = NoVersion /\ \A f \in Files : r.staged[f]
    BY DEF NewWorker, Executors, Steps, Files
<1> HIDE DEF r
<1>3. UpgradeTypeOK'
    BY <1>1, <1>2 DEF UpgradeTypeOK
<1>4. LaunchedOnce'
    <2>1. \A o \in Operations : workers'[o] = workers[o]
        BY <1>1, ZeroIsNone DEF UpgradeTypeOK
    <2>2. agent.at # "idle" => agent.op \in Operations
        BY DEF UpgradeTypeOK
    <2> QED BY <1>1, <2>1, <2>2 DEF UpgradeInv, LaunchedOnce
<1>5. OneWorker' /\ FilesFollow' /\ \A v \in Workers : PlannedWell(v)'
    <2>1. ~workers[0].locked /\ r.at \notin LockedSteps
        BY <1>1, <1>2 DEF UpgradeInv, OneWorker, LockedSteps
    <2> QED BY <1>1, <1>2, <2>1, UnlockedWorks
<1> QED BY <1>3, <1>4, <1>5 DEF UpgradeInv

-----------------------------------------------------------------------------
(* The worker that has the directory.                                        *)

\* It goes on.
LEMMA LockedGoes ==
    ASSUME UpgradeTypeOK, UpgradeInv, NEW w \in Workers, NEW r \in Executors,
           workers' = [workers EXCEPT ![w] = r], workers[w].locked, r.locked,
           r.at \in LockedSteps,
           UNCHANGED <<records, lockDir, execLock, carried, pointer, overdue, latest, unified>>,
           agent' = agent \/ agent' = [op |-> 0, at |-> "idle"],
           deaths' \in Nat, programs' \in Programs, service' \in Versions,
           PlannedWell(w)', deaths' = 0 => Follows(w)'
    PROVE  UpgradeTypeOK' /\ UpgradeInv'
<1>1. OneWorker' /\ FilesFollow' /\ \A v \in Workers : PlannedWell(v)'
    BY LockedWorks
<1>2. LaunchedOnce'
    <2>1. workers[w].at # "none" /\ r.at \notin {"read", "lock", "recheck"}
        BY DEF UpgradeInv, OneWorker, LockedSteps
    <2>2. agent' = agent \/ agent'.at = "idle"
        OBVIOUS
    <2> QED BY <2>1, <2>2, OnceKept
<1>3. /\ agent' \in [op : Workers, at : {"idle", "save", "point", "launch"}]
      /\ agent'.at # "idle" => agent'.op \in Operations
    BY ZeroIsNone DEF UpgradeTypeOK
<1>4. UpgradeTypeOK'
    BY <1>3 DEF UpgradeTypeOK
<1> QED BY <1>1, <1>2, <1>4 DEF UpgradeInv

\* It ends.
LEMMA LockedEnds ==
    ASSUME UpgradeTypeOK, UpgradeInv, NEW w \in Workers,
           NEW status \in {"failed", "succeeded"}, Finish(w, status),
           workers[w].at \in LockedSteps,
           UNCHANGED <<programs, carried, pointer, overdue, latest, unified, deaths>>,
           agent' = agent \/ agent' = [op |-> 0, at |-> "idle"],
           service' \in Versions, deaths = 0 => Agreed'
    PROVE  UpgradeTypeOK' /\ UpgradeInv'
<1>1. workers[w].locked /\ workers[w].at # "none" /\ status \in Statuses \ {"none"}
    BY DEF UpgradeInv, OneWorker, LockedSteps, Statuses
<1>2. /\ records' \in [Operations -> Statuses] /\ execLock' \in {"free", "held"}
      /\ lockDir' \in BOOLEAN /\ workers' \in [Workers -> Executors] /\ UpgradeInv'
    BY <1>1, FinishKeeps
<1>3. /\ agent' \in [op : Workers, at : {"idle", "save", "point", "launch"}]
      /\ agent'.at # "idle" => agent'.op \in Operations
    BY ZeroIsNone DEF UpgradeTypeOK
<1> QED BY <1>2, <1>3 DEF UpgradeTypeOK

\* What is known of it.
LEMMA LockedWorker ==
    ASSUME UpgradeTypeOK, UpgradeInv, NEW w \in Workers, workers[w].at \in LockedSteps
    PROVE  /\ workers[w].locked /\ workers[w] \in Executors /\ PlannedWell(w)
           /\ deaths = 0 => Follows(w)
           /\ Replaces(w) => workers[w].target \in Versions
    BY DEF UpgradeTypeOK, UpgradeInv, OneWorker, FilesFollow, PlannedWell, Executors

\* Where nothing has been replaced, files and service agree.
LEMMA NothingReplaced ==
    ASSUME NEW w \in Workers, Follows(w),
           workers[w].replaced = {} \/ ~Replaces(w) \/ workers[w].at = "verify"
    PROVE  Agreed
    BY DEF Follows, Between, Agreed, Files

\* It ends before a file was replaced, or after all were.
LEMMA Aborts ==
    ASSUME UpgradeTypeOK, UpgradeInv, NEW w \in Workers,
           NEW status \in {"failed", "succeeded"}, Finish(w, status),
           UNCHANGED <<programs, service, carried>>, WorkerFrame,
           workers[w].at \in {"plan", "download", "migrate", "verify"}
    PROVE  UpgradeTypeOK' /\ UpgradeInv'
<1>1. workers[w].at \in LockedSteps
    BY DEF LockedSteps
<1>2. UNCHANGED <<pointer, agent, overdue, latest, unified, deaths>>
    BY DEF WorkerFrame
<1>3. workers[w].replaced = {} \/ workers[w].at = "verify"
    BY <1>1, LockedWorker DEF PlannedWell
<1>4. deaths = 0 => Agreed'
    <2>1. deaths = 0 => Agreed
        BY <1>1, <1>3, LockedWorker, NothingReplaced
    <2> QED BY <2>1 DEF Agreed
<1>5. service' \in Versions
    BY DEF UpgradeTypeOK
<1> QED BY <1>1, <1>2, <1>4, <1>5, LockedEnds

\* The target is fixed: a newer release.
LEMMA PlansUpgrade ==
    ASSUME UpgradeTypeOK, UpgradeInv, NEW w \in Workers, PlanUpgrade(w)
    PROVE  UpgradeTypeOK' /\ UpgradeInv'
<1> DEFINE goal == Plan(programs["node"].version, latest)
           r == [workers[w] EXCEPT !.at = "download", !.target = goal, !.old = programs]
<1>1. workers[w].at = "plan"
    BY DEF PlanUpgrade
<1>2. CASE Abort(w)
    BY <1>1, <1>2, Aborts DEF Abort
<1>3. CASE Finish(w, "succeeded") /\ UNCHANGED <<programs, service, carried>> /\ WorkerFrame
    BY <1>1, <1>3, Aborts
<1>4. CASE goal # NoVersion /\ workers' = [workers EXCEPT ![w] = r] /\ StaysWithin(w)
    <2>1. /\ workers[w].locked /\ workers[w] \in Executors /\ PlannedWell(w)
          /\ deaths = 0 => Follows(w)
        BY <1>1, LockedWorker DEF LockedSteps
    <2>2. UNCHANGED <<records, lockDir, programs, execLock, service, carried, pointer, agent,
                      overdue, latest, unified, deaths>>
        BY <1>4 DEF StaysWithin, WorkerFrame
    <2>3. goal \in Versions /\ Older(programs["node"].version, goal)
        BY <1>4 DEF Plan, UpgradeTypeOK
    <2>4. /\ r \in Executors /\ r.at = "download" /\ r.target = goal /\ r.old = programs
          /\ r.locked /\ r.replaced = workers[w].replaced /\ r.sums = workers[w].sums
          /\ r.staged = workers[w].staged
        BY <2>1, <2>3 DEF UpgradeTypeOK, Executors, Steps, LockedSteps
    <2> HIDE DEF goal, r
    <2>5. workers'[w] = r
        BY <1>4 DEF UpgradeTypeOK
    <2>6. workers[w].replaced = {} /\ w \in Upgrades \cup {0}
        BY <1>1, <2>1 DEF PlannedWell
    <2>7. PlannedWell(w)'
        BY <1>4, <2>1, <2>2, <2>3, <2>4, <2>5, <2>6 DEF PlannedWell, Replaces, UpgradeTypeOK
    <2>8. deaths' = 0 => Follows(w)'
        <3>1. deaths = 0 => Agreed
            BY <1>1, <2>1, NothingReplaced DEF Replaces
        <3>2. r.replaced = {}
            BY <2>4, <2>6
        <3> QED BY <2>2, <2>4, <2>5, <3>1, <3>2 DEF Follows, Between, Agreed, Replaces
    <2>9. deaths' \in Nat /\ programs' \in Programs /\ service' \in Versions
        BY <2>2 DEF UpgradeTypeOK
    <2> QED BY <1>4, <2>1, <2>2, <2>4, <2>7, <2>8, <2>9, LockedGoes DEF LockedSteps
<1> QED BY <1>2, <1>3, <1>4 DEF PlanUpgrade

\* The files are fetched and compared with the list.
LEMMA Downloads ==
    ASSUME UpgradeTypeOK, UpgradeInv, NEW w \in Workers, Download(w)
    PROVE  UpgradeTypeOK' /\ UpgradeInv'
<1>1. workers[w].at = "download"
    BY DEF Download
<1>2. CASE Abort(w)
    BY <1>1, <1>2, Aborts DEF Abort
<1>3. ASSUME NEW sums \in BOOLEAN, NEW good \in [Files -> BOOLEAN], Verified(sums, good),
             workers' = [workers EXCEPT ![w].sums = sums, ![w].staged = good,
                                        ![w].at = IF unified THEN "migrate" ELSE "swap"],
             StaysWithin(w)
      PROVE  UpgradeTypeOK' /\ UpgradeInv'
    <2> DEFINE step == IF unified THEN "migrate" ELSE "swap"
               r == [workers[w] EXCEPT !.sums = sums, !.staged = good, !.at = step]
    <2>1. /\ workers[w].locked /\ workers[w] \in Executors /\ PlannedWell(w)
          /\ deaths = 0 => Follows(w)
        BY <1>1, LockedWorker DEF LockedSteps
    <2>2. UNCHANGED <<records, lockDir, programs, execLock, service, carried, pointer, agent,
                      overdue, latest, unified, deaths>>
        BY <1>3 DEF StaysWithin, WorkerFrame
    <2>3. step \in {"migrate", "swap"}
        OBVIOUS
    <2>4. workers' = [workers EXCEPT ![w] = r]
        BY <1>3
    <2> HIDE DEF step
    <2>5. /\ r \in Executors /\ r.at = step /\ r.target = workers[w].target
          /\ r.old = workers[w].old /\ r.locked = workers[w].locked
          /\ r.replaced = workers[w].replaced /\ r.sums = sums /\ r.staged = good
        BY <2>1, <2>3 DEF Executors, Steps, LockedSteps
    <2> HIDE DEF r
    <2>6. workers'[w] = r
        BY <2>4 DEF UpgradeTypeOK
    <2>7. workers[w].replaced = {} /\ Replaces(w)
        BY <1>1, <2>1 DEF PlannedWell, Replaces
    <2>8. PlannedWell(w)'
        BY <1>3, <2>1, <2>2, <2>3, <2>5, <2>6, <2>7 DEF PlannedWell, Replaces, Verified
    <2>9. deaths' = 0 => Follows(w)'
        BY <1>1, <2>1, <2>2, <2>3, <2>5, <2>6, <2>7 DEF Follows, Between, Replaces
    <2>10. deaths' \in Nat /\ programs' \in Programs /\ service' \in Versions
        BY <2>2 DEF UpgradeTypeOK
    <2> QED BY <2>1, <2>2, <2>3, <2>4, <2>5, <2>8, <2>9, <2>10, LockedGoes DEF LockedSteps
<1> QED BY <1>2, <1>3 DEF Download, ChecksumsFound, Downloaded

\* The embedded installer replaces all at once.
LEMMA Migrates ==
    ASSUME UpgradeTypeOK, UpgradeInv, NEW w \in Workers, Migrate(w)
    PROVE  UpgradeTypeOK' /\ UpgradeInv'
<1>1. workers[w].at = "migrate"
    BY DEF Migrate
<1>2. CASE Abort(w)
    BY <1>1, <1>2, Aborts DEF Abort
<1>3. CASE /\ programs' = [f \in Files |-> StagedFile(w, "node")]
           /\ service' = workers[w].target /\ agent' = [op |-> 0, at |-> "idle"]
           /\ Goto(w, "verify")
           /\ UNCHANGED <<records, pointer, lockDir, execLock, overdue, latest, unified,
                          deaths, carried>>
    <2>1. /\ workers[w].locked /\ workers[w] \in Executors /\ PlannedWell(w)
          /\ Replaces(w) /\ workers[w].target \in Versions
        BY <1>1, LockedWorker DEF LockedSteps, Replaces
    <2>2. PICK r \in Executors :
              /\ workers' = [workers EXCEPT ![w] = r] /\ r.at = "verify"
              /\ r.locked = workers[w].locked /\ r.target = workers[w].target
              /\ r.sums = workers[w].sums /\ r.staged = workers[w].staged
              /\ r.old = workers[w].old /\ r.replaced = workers[w].replaced
        BY <1>3, GotoChanges DEF Steps, LockedSteps
    <2>3. workers'[w] = r
        BY <2>2 DEF UpgradeTypeOK
    <2>4. /\ programs' \in Programs /\ service' \in Versions /\ deaths' \in Nat
          /\ \A f \in Files : programs'[f].version = workers[w].target
        BY <1>3, <2>1 DEF Programs, StagedFile, Executors, Files, UpgradeTypeOK
    <2>5. workers[w].replaced = {}
        BY <1>1, <2>1 DEF PlannedWell
    <2>6. PlannedWell(w)'
        BY <2>1, <2>2, <2>3, <2>5 DEF PlannedWell, Replaces
    <2>7. Follows(w)'
        BY <1>3, <2>2, <2>3, <2>4 DEF Follows, Agreed, Files
    <2> QED BY <1>3, <2>1, <2>2, <2>4, <2>6, <2>7, LockedGoes DEF LockedSteps
<1> QED BY <1>2, <1>3 DEF Migrate

\* A jump of the worker that has the directory, with files and service as they are.
LEMMA LockedJumps ==
    ASSUME UpgradeTypeOK, UpgradeInv, NEW w \in Workers, NEW step \in {"rollback", "undone"},
           workers[w].at \in LockedSteps, Replaces(w), workers[w].at # "verify",
           step = "undone" => workers[w].replaced = {}, Goto(w, step),
           UNCHANGED <<records, lockDir, programs, execLock, service, carried, pointer, agent,
                       overdue, latest, unified, deaths>>
    PROVE  UpgradeTypeOK' /\ UpgradeInv'
<1>2. PICK r \in Executors :
          /\ workers' = [workers EXCEPT ![w] = r] /\ r.at = step
          /\ r.locked = workers[w].locked /\ r.target = workers[w].target
          /\ r.sums = workers[w].sums /\ r.staged = workers[w].staged
          /\ r.old = workers[w].old /\ r.replaced = workers[w].replaced
    BY GotoChanges DEF Steps, LockedSteps
<1>3. workers'[w] = r /\ workers[w].locked
    BY <1>2, LockedWorker DEF UpgradeTypeOK
<1>4. PlannedWell(w)'
    BY <1>2, <1>3, LockedWorker DEF PlannedWell, Replaces
<1>5. deaths' = 0 => Follows(w)'
    BY <1>2, <1>3, LockedWorker DEF Follows, Between, Replaces
<1>6. deaths' \in Nat /\ programs' \in Programs /\ service' \in Versions
    BY DEF UpgradeTypeOK
<1> QED BY <1>2, <1>3, <1>4, <1>5, <1>6, LockedGoes DEF LockedSteps

\* The files are replaced one after the other.
LEMMA Swaps ==
    ASSUME UpgradeTypeOK, UpgradeInv, NEW w \in Workers, Swap(w)
    PROVE  UpgradeTypeOK' /\ UpgradeInv'
<1> DEFINE f == IF workers[w].replaced = {} THEN "node" ELSE "cli"
           step == IF f = "cli" THEN "restart" ELSE "swap"
           r == [workers[w] EXCEPT !.replaced = @ \cup {f}, !.at = step]
<1>1. /\ workers[w].at = "swap"
      /\ UNCHANGED <<records, lockDir, execLock, service, carried, pointer, agent, overdue,
                     latest, unified, deaths>>
    BY DEF Swap, WorkerFrame
<1>2. CASE Goto(w, "rollback") /\ UNCHANGED programs
    BY <1>1, <1>2, LockedJumps DEF LockedSteps, Replaces
<1>3. CASE /\ programs' = [programs EXCEPT ![f] = StagedFile(w, f)]
           /\ workers' = [workers EXCEPT ![w] = r]
    <2>1. /\ workers[w].locked /\ workers[w] \in Executors /\ PlannedWell(w)
          /\ deaths = 0 => Follows(w)
          /\ Replaces(w) /\ workers[w].target \in Versions
        BY <1>1, LockedWorker DEF LockedSteps, Replaces
    <2>2. /\ workers[w].replaced \subseteq {"node"} /\ w \in Upgrades \cup {0}
          /\ workers[w].target # NoVersion
        BY <1>1, <2>1 DEF PlannedWell
    <2>3. /\ f \in Files /\ step \in {"swap", "restart"}
          /\ step = "swap" => workers[w].replaced \cup {f} = {"node"}
          /\ step = "restart" => workers[w].replaced \cup {f} = Files
        BY <2>2 DEF Files
    <2> HIDE DEF f, step
    <2>4. /\ r \in Executors /\ r.at = step /\ r.replaced = workers[w].replaced \cup {f}
          /\ r.locked = workers[w].locked /\ r.target = workers[w].target
          /\ r.sums = workers[w].sums /\ r.staged = workers[w].staged
          /\ r.old = workers[w].old
        BY <2>1, <2>3 DEF Executors, Steps, LockedSteps
    <2> HIDE DEF r
    <2>5. workers'[w] = r
        BY <1>3 DEF UpgradeTypeOK
    <2>6. /\ programs' \in Programs
          /\ programs'[f].version = workers[w].target
          /\ programs'[f].good = workers[w].staged[f]
          /\ \A g \in Files : g # f => programs'[g] = programs[g]
        <3>1. StagedFile(w, f) \in [version : Versions, good : BOOLEAN]
            BY <2>1, <2>3 DEF StagedFile, Executors
        <3>2. programs'[f] = StagedFile(w, f)
            BY <1>3, <2>3 DEF UpgradeTypeOK, Programs
        <3> QED BY <1>3, <2>3, <3>1, <3>2 DEF UpgradeTypeOK, Programs, StagedFile
    <2>7. PlannedWell(w)'
        <3>1. r.sums => \A g \in Files : r.staged[g]
            BY <2>1, <2>4 DEF PlannedWell
        <3>2. r.sums => \A g \in r.replaced : programs'[g].good
            BY <2>1, <2>2, <2>3, <2>4, <2>6, <3>1 DEF PlannedWell, Files
        <3>3. /\ r.target # NoVersion => /\ r.old \in Programs
                                         /\ Older(r.old["node"].version, r.target)
            BY <2>1, <2>4 DEF PlannedWell
        <3> QED BY <2>2, <2>3, <2>4, <2>5, <3>1, <3>2, <3>3 DEF PlannedWell, Replaces
    <2>8. deaths' = 0 => Follows(w)'
        <3>1. ASSUME deaths = 0 PROVE Between(w)'
            <4>1. Between(w)
                BY <1>1, <2>1, <3>1 DEF Follows
            <4> QED BY <1>1, <2>3, <2>4, <2>5, <2>6, <4>1 DEF Between
        <3>2. Replaces(w)' /\ workers'[w].at # "verify"
            BY <2>2, <2>3, <2>4, <2>5 DEF Replaces
        <3> QED BY <1>1, <3>1, <3>2 DEF Follows
    <2>9. deaths' \in Nat /\ service' \in Versions
        BY <1>1 DEF UpgradeTypeOK
    <2> QED BY <1>1, <1>3, <2>1, <2>3, <2>4, <2>6, <2>7, <2>8, <2>9, LockedGoes DEF LockedSteps
<1> QED BY <1>2, <1>3 DEF Swap

\* The service is restarted: after it the files and the service are of one release.
LEMMA Restarts ==
    ASSUME UpgradeTypeOK, UpgradeInv, NEW w \in Workers, Restart(w)
    PROVE  UpgradeTypeOK' /\ UpgradeInv'
<1>1. /\ workers[w].at = "restart"
      /\ UNCHANGED <<programs, pointer, overdue, latest, unified, deaths, carried>>
    BY DEF Restart
<1>2. /\ workers[w].locked /\ workers[w] \in Executors /\ PlannedWell(w)
      /\ deaths = 0 => Follows(w)
      /\ programs["node"].version \in Versions
    BY <1>1, LockedWorker DEF LockedSteps, UpgradeTypeOK, Programs, Files
<1>3. CASE w \in Upgrades \cup {0}
    <2>1. Replaces(w) /\ workers[w].replaced = Files
        BY <1>1, <1>2, <1>3 DEF Replaces, PlannedWell
    <2>2. CASE /\ service' = programs["node"].version
               /\ agent' = [op |-> 0, at |-> "idle"] /\ Goto(w, "verify")
               /\ UNCHANGED <<records, execLock, lockDir>>
        <3>1. PICK r \in Executors :
                  /\ workers' = [workers EXCEPT ![w] = r] /\ r.at = "verify"
                  /\ r.locked = workers[w].locked /\ r.target = workers[w].target
                  /\ r.sums = workers[w].sums /\ r.staged = workers[w].staged
                  /\ r.old = workers[w].old /\ r.replaced = workers[w].replaced
            BY <2>2, GotoChanges DEF Steps, LockedSteps
        <3>2. workers'[w] = r
            BY <3>1 DEF UpgradeTypeOK
        <3>3. PlannedWell(w)'
            BY <1>1, <1>2, <1>3, <2>1, <3>1, <3>2 DEF PlannedWell, Replaces
        <3>4. deaths' = 0 => Follows(w)'
            <4>1. deaths = 0 => Between(w)
                BY <1>1, <1>2, <2>1 DEF Follows
            <4>2. deaths = 0 => programs["cli"].version = programs["node"].version
                BY <2>1, <4>1 DEF Between, Files
            <4> QED BY <1>1, <2>2, <3>1, <3>2, <4>2 DEF Follows, Agreed
        <3>5. deaths' \in Nat /\ programs' \in Programs /\ service' \in Versions
            BY <1>1, <1>2, <2>2 DEF UpgradeTypeOK
        <3> QED BY <1>1, <1>2, <2>2, <3>1, <3>3, <3>4, <3>5, LockedGoes DEF LockedSteps
    <2>3. CASE /\ Goto(w, "rollback")
               /\ UNCHANGED <<records, execLock, lockDir, service, agent, programs>>
        BY <1>1, <2>1, <2>3, LockedJumps DEF LockedSteps
    <2> QED BY <1>3, <2>2, <2>3 DEF Restart
<1>4. CASE w \notin Upgrades \cup {0}
    <2>1. deaths = 0 => Agreed
        BY <1>1, <1>2, <1>4, NothingReplaced DEF Replaces
    <2>2. \E status \in {"failed", "succeeded"} : Finish(w, status)
        BY <1>4 DEF Restart
    <2>3. /\ service' \in {service, programs["node"].version}
          /\ agent' = agent \/ agent' = [op |-> 0, at |-> "idle"]
        BY <1>4 DEF Restart
    <2>4. deaths = 0 => Agreed'
        BY <1>1, <2>1, <2>3 DEF Agreed
    <2>5. service' \in Versions
        BY <1>2, <2>3 DEF UpgradeTypeOK
    <2> QED BY <1>1, <2>2, <2>3, <2>4, <2>5, LockedEnds DEF LockedSteps
<1> QED BY <1>3, <1>4

\* What was replaced is put back.
LEMMA RollsBack ==
    ASSUME UpgradeTypeOK, UpgradeInv, NEW w \in Workers, Rollback(w)
    PROVE  UpgradeTypeOK' /\ UpgradeInv'
<1> DEFINE f == IF "cli" \in workers[w].replaced THEN "cli" ELSE "node"
           r == [workers[w] EXCEPT !.replaced = @ \ {f}]
<1>1. /\ workers[w].at = "rollback"
      /\ UNCHANGED <<records, lockDir, execLock, service, carried, pointer, agent, overdue,
                     latest, unified>>
    BY DEF Rollback
<1>2. CASE workers[w].replaced = {} /\ Goto(w, "undone") /\ UNCHANGED <<programs, deaths>>
    BY <1>1, <1>2, LockedJumps DEF LockedSteps, Replaces
<1>3. CASE /\ workers[w].replaced # {} /\ workers' = [workers EXCEPT ![w] = r]
           /\ \/ programs' = [programs EXCEPT ![f] = workers[w].old[f]] /\ deaths' = deaths
              \/ deaths' = deaths + 1 /\ UNCHANGED programs
    <2>1. /\ workers[w].locked /\ workers[w] \in Executors /\ PlannedWell(w)
          /\ deaths = 0 => Follows(w)
          /\ Replaces(w)
        BY <1>1, LockedWorker DEF LockedSteps, Replaces
    <2>2. workers[w].old \in Programs /\ w \in Upgrades \cup {0}
        BY <2>1 DEF PlannedWell
    <2>3. f \in Files /\ f \in workers[w].replaced
        BY <1>3, <2>1 DEF Files, Executors
    <2> HIDE DEF f
    <2>4. /\ r \in Executors /\ r.at = "rollback" /\ r.replaced = workers[w].replaced \ {f}
          /\ r.locked = workers[w].locked /\ r.target = workers[w].target
          /\ r.sums = workers[w].sums /\ r.staged = workers[w].staged
          /\ r.old = workers[w].old
        BY <1>1, <2>1 DEF Executors
    <2> HIDE DEF r
    <2>5. workers'[w] = r
        BY <1>3 DEF UpgradeTypeOK
    <2>6. /\ programs' \in Programs /\ \A g \in Files : g # f => programs'[g] = programs[g]
          /\ deaths' = deaths => programs'[f] = workers[w].old[f]
          /\ deaths' \in Nat /\ (deaths' = 0 => deaths = 0 /\ deaths' = deaths)
        <3>1. deaths \in Nat /\ programs \in Programs
            BY DEF UpgradeTypeOK
        <3>2. CASE programs' = [programs EXCEPT ![f] = workers[w].old[f]] /\ deaths' = deaths
            BY <2>2, <2>3, <3>1, <3>2 DEF Programs
        <3>3. CASE deaths' = deaths + 1 /\ UNCHANGED programs
            BY <3>1, <3>3
        <3> QED BY <1>3, <3>2, <3>3
    <2>7. PlannedWell(w)'
        <3>1. r.sums => \A g \in Files : r.staged[g]
            BY <2>1, <2>4 DEF PlannedWell
        <3>2. r.sums => \A g \in r.replaced : programs'[g].good
            BY <2>1, <2>4, <2>6 DEF PlannedWell, Executors
        <3>3. /\ r.target # NoVersion
              /\ r.target # NoVersion => /\ r.old \in Programs
                                         /\ Older(r.old["node"].version, r.target)
            BY <2>1, <2>4 DEF PlannedWell
        <3> QED BY <2>2, <2>4, <2>5, <3>1, <3>2, <3>3 DEF PlannedWell, Replaces
    <2>8. deaths' = 0 => Follows(w)'
        <3>1. ASSUME deaths' = 0 PROVE Between(w)'
            <4>1. Between(w) /\ programs'[f] = workers[w].old[f]
                BY <1>1, <2>1, <2>6, <3>1 DEF Follows
            <4> QED BY <1>1, <2>3, <2>4, <2>5, <2>6, <4>1 DEF Between
        <3>2. Replaces(w)' /\ workers'[w].at # "verify"
            BY <2>4, <2>5 DEF Replaces
        <3> QED BY <3>1, <3>2 DEF Follows
    <2>9. service' \in Versions
        BY <1>1 DEF UpgradeTypeOK
    <2> QED BY <1>1, <1>3, <2>1, <2>4, <2>6, <2>7, <2>8, <2>9, LockedGoes DEF LockedSteps
<1> QED BY <1>2, <1>3 DEF Rollback

\* The service is restarted with the old files.
LEMMA UndoEnds ==
    ASSUME UpgradeTypeOK, UpgradeInv, NEW w \in Workers, Undone(w)
    PROVE  UpgradeTypeOK' /\ UpgradeInv'
<1>1. /\ workers[w].at = "undone" /\ Finish(w, "failed")
      /\ UNCHANGED <<programs, carried, pointer, overdue, latest, unified, deaths>>
      /\ service' \in {service, programs["node"].version}
      /\ agent' = agent \/ agent' = [op |-> 0, at |-> "idle"]
    BY DEF Undone
<1>2. deaths = 0 => Agreed
    BY <1>1, LockedWorker, NothingReplaced DEF LockedSteps, PlannedWell
<1>3. deaths = 0 => Agreed'
    BY <1>1, <1>2 DEF Agreed
<1>4. service' \in Versions
    BY <1>1 DEF UpgradeTypeOK, Programs, Files
<1> QED BY <1>1, <1>3, <1>4, LockedEnds DEF LockedSteps

\* The new version is read back.
LEMMA Verifies ==
    ASSUME UpgradeTypeOK, UpgradeInv, NEW w \in Workers, Verify(w)
    PROVE  UpgradeTypeOK' /\ UpgradeInv'
<1>1. \E status \in {"failed", "succeeded"} : Finish(w, status)
    BY DEF Verify
<1> QED BY <1>1, Aborts DEF Verify

-----------------------------------------------------------------------------
(* The environment, and the theorems.                                        *)

\* A process dies.
LEMMA WorkerDeath ==
    ASSUME UpgradeTypeOK, UpgradeInv, NEW w \in Workers, WorkerDies(w)
    PROVE  UpgradeTypeOK' /\ UpgradeInv'
<1>1. /\ workers[w].at # "none" /\ workers' = [workers EXCEPT ![w] = NewWorker]
      /\ execLock' \in {"free", execLock} /\ deaths' = deaths + 1
      /\ UNCHANGED <<diskVars, agent, overdue, service, latest, unified, carried>>
    BY DEF WorkerDies
<1>2. UNCHANGED <<records, pointer, lockDir, programs>>
    BY <1>1 DEF diskVars
<1>3. deaths' \in Nat /\ deaths' # 0
    BY <1>1 DEF UpgradeTypeOK
<1>4. /\ workers'[w] = NewWorker /\ \A v \in Workers : v # w => workers'[v] = workers[v]
      /\ workers' \in [Workers -> Executors]
    BY <1>1, NewWorkerIsOne DEF UpgradeTypeOK
<1>5. LaunchedOnce'
    <2>1. NewWorker \in Executors /\ NewWorker.at \notin {"read", "lock", "recheck"}
        BY NewWorkerIsOne
    <2> HIDE DEF NewWorker
    <2> QED BY <1>1, <1>2, <2>1, OnceKept
<1>6. OneWorker'
    BY <1>2, <1>4, NewWorkerIsOne DEF UpgradeInv, OneWorker, LockedSteps
<1>7. \A v \in Workers : PlannedWell(v)'
    <2>1. PlannedWell(w)'
        BY <1>4, NewWorkerIsOne DEF PlannedWell, Replaces
    <2>2. ASSUME NEW v \in Workers, v # w PROVE PlannedWell(v)'
        BY <1>2, <1>4, <2>2 DEF UpgradeInv, PlannedWell, Replaces
    <2> QED BY <2>1, <2>2
<1>8. FilesFollow'
    BY <1>3 DEF FilesFollow
<1>9. UpgradeTypeOK'
    BY <1>1, <1>2, <1>3, <1>4 DEF UpgradeTypeOK
<1> QED BY <1>5, <1>6, <1>7, <1>8, <1>9 DEF UpgradeInv

\* The agent dies.
LEMMA AgentDeath ==
    ASSUME UpgradeTypeOK, UpgradeInv, AgentDies
    PROVE  UpgradeTypeOK' /\ UpgradeInv'
<1>1. /\ agent' = [op |-> 0, at |-> "idle"] /\ deaths' = deaths + 1
      /\ UNCHANGED <<records, pointer, lockDir, programs, overdue, workers, execLock, service,
                     latest, unified, carried>>
    BY DEF AgentDies, AgentTo, diskVars
<1>2. /\ deaths' \in Nat /\ deaths' # 0 /\ agent'.at = "idle"
      /\ agent' \in [op : Workers, at : {"idle", "save", "point", "launch"}]
    BY <1>1, ZeroIsNone DEF UpgradeTypeOK
<1>3. UpgradeTypeOK'
    BY <1>1, <1>2 DEF UpgradeTypeOK
<1>4. LaunchedOnce' /\ OneWorker' /\ FilesFollow' /\ \A w \in Workers : PlannedWell(w)'
    BY <1>1, <1>2 DEF UpgradeInv, LaunchedOnce, OneWorker, FilesFollow, PlannedWell, Replaces
<1> QED BY <1>3, <1>4 DEF UpgradeInv

\* Operations expire and releases appear.
LEMMA OutsideChanges ==
    ASSUME UpgradeTypeOK, UpgradeInv,
           (\E o \in Operations : Expires(o)) \/ (\E v \in Versions : Released(v))
               \/ UNCHANGED upgradeVars
    PROVE  UpgradeTypeOK' /\ UpgradeInv'
<1>1. /\ UNCHANGED <<records, pointer, lockDir, programs, agent, workers, execLock, service,
                     unified, deaths, carried>>
      /\ overdue' \subseteq Operations /\ latest' \in Versions
    BY DEF Expires, Released, upgradeVars, diskVars, UpgradeTypeOK
<1>2. UpgradeTypeOK'
    BY <1>1 DEF UpgradeTypeOK
<1>3. LaunchedOnce' /\ OneWorker'
    BY <1>1 DEF UpgradeInv, LaunchedOnce, OneWorker
<1>4. FilesFollow' /\ \A w \in Workers : PlannedWell(w)'
    BY <1>1 DEF UpgradeInv, FilesFollow, Follows, Between, Agreed, Replaces, PlannedWell
<1> QED BY <1>2, <1>3, <1>4 DEF UpgradeInv

\* Every step keeps the invariant.
LEMMA UpgradeStep ==
    UpgradeTypeOK /\ UpgradeInv /\ [UpgradeNext]_upgradeVars => UpgradeTypeOK' /\ UpgradeInv'
<1> SUFFICES ASSUME UpgradeTypeOK, UpgradeInv, [UpgradeNext]_upgradeVars
             PROVE  UpgradeTypeOK' /\ UpgradeInv'
    OBVIOUS
<1>1. ASSUME NEW o \in Operations,
             Receive(o) \/ Expires(o) \/ ReadRecord(o) \/ LockExecution(o) \/ Recheck(o)
      PROVE  UpgradeTypeOK' /\ UpgradeInv'
    BY <1>1, AgentSaves, OutsideChanges, ReadsRecord, LocksExecution, Rechecks
<1>2. CASE SaveRecord \/ SavePointer \/ LaunchRemote \/ CallUpgrade \/ AgentDies
    BY <1>2, AgentSaves, LaunchKeepsOnce, CallsUpgrade, AgentDeath
<1>3. ASSUME NEW w \in Workers, WorkerSteps(w) PROVE UpgradeTypeOK' /\ UpgradeInv'
    BY <1>3, LocksInstallation, PlansUpgrade, Downloads, Migrates, Swaps, Restarts, RollsBack,
       UndoEnds, Verifies, WorkerDeath DEF WorkerSteps
<1>4. ASSUME NEW v \in Versions, Released(v) PROVE UpgradeTypeOK' /\ UpgradeInv'
    BY <1>4, OutsideChanges
<1>5. CASE UNCHANGED upgradeVars
    BY <1>5, OutsideChanges
<1> QED BY <1>1, <1>2, <1>3, <1>4, <1>5 DEF UpgradeNext

\* Types of the state of remote operations and upgrades.
THEOREM UpgradeTypesCorrect == UpgradeSpec => []UpgradeTypeOK
<1>1. UpgradeInit => UpgradeTypeOK /\ UpgradeInv
    BY UpgradeStarts
<1>2. UpgradeTypeOK /\ UpgradeInv /\ [UpgradeNext]_upgradeVars => UpgradeTypeOK' /\ UpgradeInv'
    BY UpgradeStep
<1> QED BY <1>1, <1>2, PTL DEF UpgradeSpec

\* The inductive invariant.
THEOREM UpgradeInvHolds == UpgradeSpec => []UpgradeInv
<1>1. UpgradeInit => UpgradeTypeOK /\ UpgradeInv
    BY UpgradeStarts
<1>2. UpgradeTypeOK /\ UpgradeInv /\ [UpgradeNext]_upgradeVars => UpgradeTypeOK' /\ UpgradeInv'
    BY UpgradeStep
<1> QED BY <1>1, <1>2, PTL DEF UpgradeSpec

\* An operation is carried out at most once, one process at a time changes the
\* files, and when nobody does they agree with each other and with the service.
THEOREM OperationsHold == UpgradeSpec => []RemoteHolds
<1>1. UpgradeTypeOK /\ UpgradeInv => RemoteHolds
    <2> SUFFICES ASSUME UpgradeTypeOK, UpgradeInv PROVE RemoteHolds
        OBVIOUS
    <2>1. CarriedOutOnce
        BY DEF UpgradeInv, LaunchedOnce, OneWorker, CarriedOutOnce
    <2>2. FilesSettled /\ deaths = 0 => Agreed
        BY DEF FilesSettled, UpgradeInv, OneWorker, FilesFollow, LockedSteps
    <2>3. FilesAgree
        BY <2>2 DEF FilesAgree, Agreed, UpgradeInv, PlannedWell
    <2>4. ServiceIsInstalled
        BY <2>2 DEF ServiceIsInstalled, Agreed
    <2> QED BY <2>1, <2>3, <2>4 DEF RemoteHolds
<1> QED BY <1>1, UpgradeTypesCorrect, UpgradeInvHolds, PTL
==============================================================================
