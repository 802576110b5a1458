---------------------------- MODULE NodeControl ----------------------------
(***************************************************************************)
(* How a node follows the panel (internal/service/service.go: Run,         *)
(* handleWSEvent, applyPullResult, applyChanges ...; runtime_failure.go;   *)
(* internal/controlplane/mailbox.go; internal/panel/version.go).           *)
(*                                                                         *)
(* The panel's state has a version, an epoch and a number.  Changes are    *)
(* pushed over a connection that comes and goes, and the node polls the    *)
(* complete state.  Pushes reach the main loop through a bounded channel   *)
(* (mode "node") or, on a machine with several nodes, through a            *)
(* mailbox that merges them (mode "machine").  The main loop is            *)
(* sequential: one action is one case of its select statement.             *)
(*                                                                         *)
(* The versioned protocol is in use.  Firewall and source rules count as   *)
(* part of starting the kernel, which may fail at every attempt.           *)
(***************************************************************************)
EXTENDS Naturals, Sequences, FiniteSets

CONSTANTS
    Modes,               \* which of "node" and "machine" to start in
    Configs,
    Landing,             \* configurations that serve no users of their own
    KernelHash,          \* what of a configuration the kernel depends on
    UserIds,
    None,
    EventCap,            \* capacity of wsEvents
    StatusCap,           \* capacity of wsStatusCh
    MaxEpochs, MaxVersions, \* bounds: restarts and states of the panel
    MaxCerts,            \* bound: certificate renewals
    MaxLinks             \* bound: connections

ASSUME ControlAssumption ==
    /\ Modes \subseteq {"node", "machine"}
    /\ Landing \subseteq Configs
    /\ DOMAIN KernelHash = Configs
    \* The hash covers the protocol and the mode of the relay.
    /\ \A c \in Landing, d \in Configs \ Landing : KernelHash[c] # KernelHash[d]
    /\ None \notin Configs
    /\ EventCap \in Nat \ {0} /\ StatusCap \in Nat \ {0}
    /\ MaxEpochs \in Nat \ {0} /\ MaxVersions \in Nat \ {0}
    /\ MaxCerts \in Nat /\ MaxLinks \in Nat

VARIABLES
    mode,
    past,      \* the states of the panel, the present one last
    replica,   \* the state, in past, at the replica that answers polls
    up,        \* the push connection
    links,     \* connections made so far
    events,    \* wsEvents
    statuses,  \* wsStatusCh
    box,       \* the mailbox
    cert, renewed,  \* the certificate and the flag that it was renewed
    boot,      \* the bootstrap: its stage and the snapshot it read
    svc        \* the service, changed by the main loop only

controlVars == <<mode, past, replica, up, links, events, statuses, box, cert,
                 renewed, boot, svc>>
linkVars == <<up, links, events, statuses>>
replicaVars == <<mode, past, replica>>
certVars == <<cert, renewed>>

panel == past[Len(past)]

-----------------------------------------------------------------------------
(***************************************************************************)
(* VersionGate.  Epoch 0 is no version yet.                                *)
(***************************************************************************)
NoVersion == [epoch |-> 0, seq |-> 0, retired |-> {}]

Accepts(g, v) ==
    /\ v.epoch \notin g.retired
    /\ v.epoch = g.epoch => v.seq >= g.seq

Accept(g, v) ==
    IF ~Accepts(g, v) THEN g
    ELSE [epoch |-> v.epoch, seq |-> v.seq,
          retired |-> IF g.epoch \in {0, v.epoch} THEN g.retired
                      ELSE g.retired \cup {g.epoch}]

-----------------------------------------------------------------------------
(***************************************************************************)
(* The runtime.  Each operation yields the set of the states it may leave. *)
(* Its success only decides whether the tags of the older protocol are     *)
(* reset, which the versioned protocol does not use.                       *)
(***************************************************************************)
Stopped == [running |-> FALSE, config |-> None, users |-> {}, cert |-> 0]

\* runtimeAttemptHash
Attempt(s) == <<KernelHash[s.config], s.users, cert>>

\* Mutant: the kernel goes on after a failure.
failRuntimeRunning(s, retry) ==
    [s EXCEPT !.failed = [attempt |-> Attempt(s), retry |-> retry], !.applied = FALSE]

\* A failure of the firewall or of the source rules is tried again.
failRuntime(s, retry) ==
    [s EXCEPT !.failed = [attempt |-> Attempt(s), retry |-> retry],
              !.kernel = Stopped, !.applied = FALSE, !.skipped = FALSE]

runtimeApplied(s) ==
    [s EXCEPT !.failed = None, !.applied = TRUE, !.skipped = FALSE,
              !.kernel = [running |-> TRUE, config |-> KernelHash[s.config],
                          users |-> s.users, cert |-> cert]]

\* runtimeApplied(nil, nil) after the kernel was stopped: no users to serve.
runtimeIdle(s) ==
    [s EXCEPT !.failed = None, !.applied = FALSE, !.skipped = FALSE, !.kernel = Stopped]

\* Mutant: a failed attempt is not remembered.
BlockedNever(s) == FALSE

\* runtimeAttemptBlocked
Blocked(s) == s.failed # None /\ s.failed.attempt = Attempt(s)

\* applyChanges, with prepareRuntime, startKernel and Reload.
applyChanges(s) ==
    LET t == IF s.config \in Landing THEN [s EXCEPT !.users = {}] ELSE s
    IN IF s.config = None THEN {s}
       ELSE IF Blocked(t) THEN {t}
       ELSE {failRuntime(t, r) : r \in BOOLEAN} \cup
            {IF t.users = {} /\ t.config \notin Landing THEN runtimeIdle(t)
             ELSE runtimeApplied(t)}

\* policyOnly: nothing the kernel depends on has changed.
PolicyOnly(s, c) ==
    /\ s.kernel.running
    /\ s.config # None /\ KernelHash[s.config] = KernelHash[c]
    /\ s.kernel.cert = cert

\* skipped records that other users came with such a configuration.
applyConfigUpdate(s, c) ==
    LET t == [s EXCEPT !.config = c]
    IN IF PolicyOnly(s, c)
         THEN {[t EXCEPT !.skipped = @ \/ s.users # s.kernel.users]}
              \cup {failRuntime(t, r) : r \in BOOLEAN}
         ELSE applyChanges(t)

NoPull == [stage |-> "idle", stale |-> FALSE, snap |-> 0, cert |-> FALSE]

\* pullViaAPIAsync: one poll at a time, none during the backoff.
pullViaAPIAsync(s) ==
    IF s.pull # NoPull \/ s.backoff THEN s ELSE [s EXCEPT !.pull.stage = "asked"]

requestWSResync(s) ==
    pullViaAPIAsync([s EXCEPT !.resync = TRUE, !.sync = FALSE])

\* controlGeneration++: a poll that has begun will not be applied.
NextGeneration(s) ==
    IF s.pull = NoPull THEN s ELSE [s EXCEPT !.pull.stale = TRUE]

\* ensureRunning
ensureRunning(s) == IF s.kernel.running THEN {s} ELSE applyChanges(s)

syncLandingUserState(s) == ensureRunning([s EXCEPT !.users = {}])

\* The kernel gets other users while it runs.
HotUpdate(s, kernelUsers) ==
    {failRuntime(s, FALSE),
     [s EXCEPT !.kernel.users = kernelUsers, !.skipped = @ /\ kernelUsers # s.users]}

applyUserUpdate(s, us) ==
    LET t == [s EXCEPT !.users = us]
    IN IF s.config = None THEN {requestWSResync(t)}
       ELSE IF s.config \in Landing THEN syncLandingUserState(s)
       ELSE IF ~s.kernel.running THEN ensureRunning(t)
       ELSE HotUpdate(t, us)

\* mergeUsers, subtractUsers
Changed(us, action, delta) == IF action = "add" THEN us \cup delta ELSE us \ delta

\* A failed addition or removal is repeated as a complete update.
applyUserDelta(s, action, delta) ==
    LET t == [s EXCEPT !.users = Changed(@, action, delta)]
    IN IF s.config = None THEN {requestWSResync(t)}
       ELSE IF s.config \in Landing THEN syncLandingUserState(s)
       ELSE IF ~s.kernel.running THEN applyChanges(t)
       ELSE HotUpdate(t, Changed(t.kernel.users, action, delta)) \cup HotUpdate(t, t.users)

-----------------------------------------------------------------------------
(***************************************************************************)
(* The handlers of the main loop, as sets of possible next states.         *)
(***************************************************************************)
\* Mutant: the version of an answer is not compared.
applyPullResultUnversioned(s, r, stale, renewal) ==
    LET t == [s EXCEPT !.certPending = @ \/ renewal]
        a == [t EXCEPT !.gate = Accept(@, r), !.resync = FALSE, !.certPending = FALSE,
                       !.sync = up]
        needsReload == t.certPending \/ r.config # s.config
        usersChanged == r.users # s.users
    IN IF stale THEN {requestWSResync(t)}
       ELSE IF needsReload THEN applyConfigUpdate([a EXCEPT !.users = r.users], r.config)
       ELSE IF usersChanged THEN applyUserUpdate(a, r.users)
       ELSE {a}

\* Mutant: the flag of an answer that was refused is forgotten.
applyPullResultForgets(s, r, stale, renewal) ==
    LET t == [s EXCEPT !.certPending = renewal]
        a == [t EXCEPT !.gate = Accept(@, r), !.resync = FALSE, !.certPending = FALSE,
                       !.sync = up]
        needsReload == t.certPending \/ r.config # s.config
        usersChanged == r.users # s.users
    IN IF stale THEN {requestWSResync(t)}
       ELSE IF ~Accepts(t.gate, r) THEN {[t EXCEPT !.sync = FALSE, !.resync = TRUE]}
       ELSE IF needsReload THEN applyConfigUpdate([a EXCEPT !.users = r.users], r.config)
       ELSE IF usersChanged THEN applyUserUpdate(a, r.users)
       ELSE {a}

\* r is a version, a configuration and users; renewal says whether the
\* certificate was renewed.
applyPullResult(s, r, stale, renewal) ==
    LET t == [s EXCEPT !.certPending = @ \/ renewal]
        a == [t EXCEPT !.gate = Accept(@, r), !.resync = FALSE, !.certPending = FALSE,
                       !.sync = up]
        needsReload == t.certPending \/ r.config # s.config
        usersChanged == r.users # s.users
    IN IF stale THEN {requestWSResync(t)}
       ELSE IF ~Accepts(t.gate, r) THEN {[t EXCEPT !.sync = FALSE, !.resync = TRUE]}
       ELSE IF needsReload THEN applyConfigUpdate([a EXCEPT !.users = r.users], r.config)
       ELSE IF usersChanged THEN applyUserUpdate(a, r.users)
       ELSE {a}

handleWSEvent(s, e) ==
    LET g == [s EXCEPT !.gate = Accept(@, e)]
        next == IF e.type = "users" THEN e.users ELSE Changed(s.users, e.action, e.users)
        same == IF e.type = "config" THEN e.config = s.config ELSE next = s.users
    IN IF e.type = "snapshot" THEN applyPullResult(NextGeneration(s), e, FALSE, FALSE)
       ELSE IF ~Accepts(s.gate, e) THEN {s}
       ELSE IF same THEN {g}
       ELSE CASE e.type = "config" -> applyConfigUpdate(NextGeneration(g), e.config)
              [] e.type = "users"  -> applyUserUpdate(NextGeneration(g), next)
              [] e.type = "delta"  -> applyUserDelta(NextGeneration(g), e.action, e.users)

\* Every change of the connection asks for a poll.
handleWSStatus(s, status) ==
    LET t == [s EXCEPT !.sync = FALSE]
    IN pullViaAPIAsync(IF status.resync THEN requestWSResync(t) ELSE t)

\* trackAndEnforce: a failure of the environment is tried again, the rules are
\* checked, and a kernel that stopped by itself is a failure.
Retried(s) ==
    IF /\ s.failed # None /\ s.failed.retry /\ ~s.kernel.running
       /\ s.config # None /\ (s.users # {} \/ s.config \in Landing)
      THEN {s} \cup applyChanges([s EXCEPT !.failed = None])
      ELSE {s}

Checked(s) ==
    {s} \cup (IF s.kernel.running THEN {failRuntime(s, r) : r \in BOOLEAN} ELSE {})

Enforced(s) ==
    IF s.applied /\ ~s.kernel.running /\ (s.users # {} \/ s.config \in Landing)
      THEN failRuntime(s, FALSE) ELSE s

-----------------------------------------------------------------------------
(***************************************************************************)
(* NodeMailbox.                                                            *)
(***************************************************************************)
EmptyBox == [ready |-> FALSE, notified |-> FALSE, config |-> None, users |-> {},
             full |-> FALSE, dirtyConfig |-> FALSE, dirtyUsers |-> FALSE,
             reconcile |-> FALSE, snapshot |-> FALSE, gate |-> NoVersion]

\* NodeMailbox.Apply
BoxApply(b, e) ==
    LET g == [b EXCEPT !.gate = Accept(@, e)]
        changed == [g EXCEPT !.notified = TRUE]
    IN IF ~Accepts(b.gate, e) THEN b
       ELSE CASE e.type = "snapshot" ->
                   [changed EXCEPT !.config = e.config, !.users = e.users, !.full = TRUE,
                      !.dirtyConfig = TRUE, !.dirtyUsers = TRUE, !.snapshot = TRUE]
              [] e.type = "config" ->
                   [changed EXCEPT !.config = e.config, !.dirtyConfig = TRUE]
              [] e.type = "users" ->
                   [changed EXCEPT !.users = e.users, !.full = TRUE, !.dirtyUsers = TRUE]
              [] e.type = "delta" ->
                   IF b.full THEN [changed EXCEPT !.users = Changed(@, e.action, e.users),
                                                  !.dirtyUsers = TRUE]
                   ELSE [changed EXCEPT !.reconcile = TRUE]

SeedBaseline(b, s) ==
    [b EXCEPT !.users = IF b.full THEN @ ELSE s.users, !.full = TRUE,
              !.config = IF @ = None THEN s.config ELSE @]

\* DrainIfReady: the mailbox afterwards ...
Drained(b) ==
    IF ~b.ready THEN b
    ELSE [b EXCEPT !.dirtyConfig = FALSE, !.dirtyUsers = FALSE, !.reconcile = FALSE,
                   !.snapshot = FALSE]

\* ... and drainMachineMailbox: what the main loop makes of its contents.
BoxEvent(b, type) ==
    [type |-> type, epoch |-> b.gate.epoch, seq |-> b.gate.seq, config |-> b.config,
     users |-> b.users, action |-> "add"]

drainMachineMailbox(s, b) ==
    LET config == IF b.dirtyConfig THEN handleWSEvent(s, BoxEvent(b, "config")) ELSE {s}
        parts == UNION {IF b.dirtyUsers THEN handleWSEvent(t, BoxEvent(b, "users"))
                        ELSE {t} : t \in config}
        handled == IF b.snapshot THEN handleWSEvent(s, BoxEvent(b, "snapshot")) ELSE parts
    IN IF ~b.ready THEN {s}
       ELSE IF b.reconcile THEN {requestWSResync(t) : t \in handled} ELSE handled

-----------------------------------------------------------------------------
\* The service before its bootstrap.
Fresh ==
    [config |-> None, users |-> {}, kernel |-> Stopped, applied |-> FALSE,
     failed |-> None, skipped |-> FALSE, gate |-> NoVersion, sync |-> FALSE,
     resync |-> FALSE, pull |-> NoPull, backoff |-> FALSE, certPending |-> FALSE]

ControlInit ==
    /\ mode \in Modes
    /\ \E c \in Configs : past = <<[epoch |-> 1, seq |-> 1, config |-> c, users |-> UserIds]>>
    /\ replica = 1
    /\ up = FALSE /\ links = 0
    /\ events = <<>> /\ statuses = <<>>
    /\ box = EmptyBox
    /\ cert = 0 /\ renewed = FALSE
    /\ boot = [stage |-> "start", snap |-> 0]
    /\ svc = Fresh

(***************************************************************************)
(* initialSetup: the bootstrap snapshot is read, then applied; pushes may  *)
(* come in between.  A node whose bootstrap fails waits for a push or a    *)
(* poll.                                                                   *)
(***************************************************************************)
InitialPoll ==
    /\ boot.stage = "start"
    /\ \E i \in {replica, Len(past)} \cup (IF mode = "node" THEN {0} ELSE {}) :
         boot' = [stage |-> "read", snap |-> i]
    /\ UNCHANGED <<replicaVars, linkVars, box, certVars, svc>>

\* The bootstrap applied: applyChanges comes before the version is accepted.
Booted(s) ==
    LET r == past[boot.snap]
    IN IF boot.snap = 0 THEN {s}
       ELSE {[t EXCEPT !.gate = Accept(@, r)] :
               t \in applyChanges([s EXCEPT !.config = r.config,
                                            !.users = IF r.config \in Landing THEN {}
                                                      ELSE r.users])}

\* markMailboxReadyAndDrain ends it on a machine.
initialSetup ==
    /\ boot.stage = "read"
    /\ boot' = [stage |-> "done", snap |-> 0]
    /\ \E s \in Booted(svc) :
         IF mode = "machine"
           THEN LET b == [SeedBaseline(box, s) EXCEPT !.ready = TRUE, !.notified = TRUE]
                IN box' = Drained(b) /\ svc' \in drainMachineMailbox(s, b)
           ELSE svc' = s /\ UNCHANGED box
    /\ UNCHANGED <<replicaVars, linkVars, certVars>>

(***************************************************************************)
(* The cases of the main loop.                                             *)
(***************************************************************************)
Running == boot.stage = "done"

HandleEvent ==
    /\ Running /\ events # <<>>
    /\ svc' \in handleWSEvent(svc, Head(events))
    /\ events' = Tail(events)
    /\ UNCHANGED <<replicaVars, up, links, statuses, box, certVars, boot>>

HandleStatus ==
    /\ Running /\ statuses # <<>>
    /\ svc' = handleWSStatus(svc, Head(statuses))
    /\ statuses' = Tail(statuses)
    /\ UNCHANGED <<replicaVars, up, links, events, box, certVars, boot>>

DrainMailbox ==
    /\ Running /\ box.notified
    /\ svc' \in drainMachineMailbox(svc, box)
    /\ box' = [Drained(box) EXCEPT !.notified = FALSE]
    /\ UNCHANGED <<replicaVars, linkVars, certVars, boot>>

\* pullTicker: polls go on while the connection is not known to be in step;
\* in step, the complete state is compared from time to time.
InStep == up /\ ~svc.resync /\ svc.sync

PullTick ==
    /\ Running /\ ~InStep
    /\ svc' = pullViaAPIAsync(svc)
    /\ UNCHANGED <<replicaVars, linkVars, box, certVars, boot>>

Reconcile ==
    /\ Running /\ InStep
    /\ svc' = pullViaAPIAsync(svc)
    /\ UNCHANGED <<replicaVars, linkVars, box, certVars, boot>>

PullResult ==
    /\ Running /\ svc.pull.stage = "result"
    /\ svc' \in applyPullResult([svc EXCEPT !.pull = NoPull], past[svc.pull.snap],
                                svc.pull.stale, svc.pull.cert)
    /\ UNCHANGED <<replicaVars, linkVars, box, certVars, boot>>

trackAndEnforce ==
    /\ Running
    /\ svc' \in {Enforced(t) : t \in UNION {Checked(r) : r \in Retried(svc)}}
    /\ UNCHANGED <<replicaVars, linkVars, box, certVars, boot>>

(***************************************************************************)
(* Other goroutines of the node.                                           *)
(***************************************************************************)
\* The flag of the certificate is taken only with an answer.
PollAnswered ==
    /\ svc.pull.stage = "asked"
    /\ \E i \in {replica, Len(past)} :
         svc' = [svc EXCEPT !.pull = [@ EXCEPT !.stage = "result", !.snap = i,
                                               !.cert = renewed]]
    /\ renewed' = FALSE
    /\ UNCHANGED <<replicaVars, linkVars, box, cert, boot>>

\* Mutant: pullActive is not reset after a failure.
PollFailedActive ==
    /\ svc.pull.stage = "asked"
    /\ svc' = [svc EXCEPT !.pull.stage = "failed", !.backoff = TRUE]
    /\ UNCHANGED <<replicaVars, linkVars, box, certVars, boot>>

PollFailed ==
    /\ svc.pull.stage = "asked"
    /\ svc' = [svc EXCEPT !.pull = NoPull, !.backoff = TRUE]
    /\ UNCHANGED <<replicaVars, linkVars, box, certVars, boot>>

BackoffEnds ==
    /\ svc.backoff
    /\ svc' = [svc EXCEPT !.backoff = FALSE]
    /\ UNCHANGED <<replicaVars, linkVars, box, certVars, boot>>

CertRenewed ==
    /\ cert < MaxCerts
    /\ cert' = cert + 1
    /\ renewed' = TRUE
    /\ UNCHANGED <<replicaVars, linkVars, box, boot, svc>>

KernelDies ==
    /\ svc.kernel.running
    /\ svc' = [svc EXCEPT !.kernel = Stopped, !.skipped = FALSE]
    /\ UNCHANGED <<replicaVars, linkVars, box, certVars, boot>>

(***************************************************************************)
(* The connection.  A full channel loses what is put into it; a lost event *)
(* asks for a resynchronisation, if there is room to ask.                  *)
(***************************************************************************)

\* A node of a machine gets its statuses once it is registered (Initial).
Posted(queue, status) ==
    IF boot.stage # "start" /\ Len(queue) < StatusCap THEN Append(queue, status) ELSE queue

\* A node connects after its bootstrap; a machine's connection is shared.
Connect ==
    /\ ~up /\ links < MaxLinks
    /\ mode = "node" => Running
    /\ up' = TRUE
    /\ links' = links + 1
    /\ statuses' = Posted(statuses, [resync |-> FALSE])
    /\ UNCHANGED <<replicaVars, events, box, certVars, boot, svc>>

Disconnect ==
    /\ up
    /\ up' = FALSE
    /\ statuses' = Posted(statuses, [resync |-> FALSE])
    /\ UNCHANGED <<replicaVars, links, events, box, certVars, boot, svc>>

\* A push reaches the mailbox or the channel.
Pushed(e) ==
    \/ /\ mode = "machine"
       /\ box' = BoxApply(box, e)
       /\ UNCHANGED <<events, statuses>>
    \/ /\ mode = "node" /\ Len(events) < EventCap
       /\ events' = Append(events, e)
       /\ UNCHANGED <<statuses, box>>
    \/ /\ mode = "node" /\ Len(events) = EventCap
       /\ statuses' = Posted(statuses, [resync |-> TRUE])
       /\ UNCHANGED <<events, box>>

(***************************************************************************)
(* The panel (external).                                                   *)
(***************************************************************************)
Event(p, type, action, users) ==
    [type |-> type, epoch |-> p.epoch, seq |-> p.seq, config |-> p.config,
     users |-> users, action |-> action]

\* What the panel may push when it goes from state p to state q.
Pushes(p, q) ==
    LET added == q.users \ p.users
        removed == p.users \ q.users
    IN {Event(q, "snapshot", "add", q.users)}
       \cup {Event(q, "config", "add", {}) : x \in {y \in {0} : q.users = p.users}}
       \cup {Event(q, "users", "add", q.users) : x \in {y \in {0} : q.config = p.config}}
       \cup {Event(q, "delta", "add", added) :
               x \in {y \in {0} : q.config = p.config /\ removed = {}}}
       \cup {Event(q, "delta", "remove", removed) :
               x \in {y \in {0} : q.config = p.config /\ added = {}}}

PanelChange ==
    /\ Len(past) < MaxVersions
    /\ \E c \in Configs, us \in SUBSET UserIds :
         LET q == [panel EXCEPT !.seq = @ + 1, !.config = c, !.users = us]
         IN /\ c # panel.config \/ us # panel.users
            /\ past' = Append(past, q)
            /\ \/ up /\ \E e \in Pushes(panel, q) : Pushed(e)
               \/ ~up /\ UNCHANGED <<events, statuses, box>>
    /\ UNCHANGED <<mode, replica, up, links, certVars, boot, svc>>

\* The panel starts over with a new epoch; its connections break.
PanelRestart ==
    /\ Len(past) < MaxVersions /\ panel.epoch < MaxEpochs
    /\ past' = Append(past, [panel EXCEPT !.epoch = @ + 1, !.seq = 1])
    /\ up' = FALSE
    /\ statuses' = IF up THEN Posted(statuses, [resync |-> FALSE]) ELSE statuses
    /\ UNCHANGED <<mode, replica, links, events, box, certVars, boot, svc>>

ReplicaFollows ==
    /\ replica < Len(past)
    /\ replica' = Len(past)
    /\ UNCHANGED <<mode, past, linkVars, box, certVars, boot, svc>>

ControlNext ==
    \/ InitialPoll \/ initialSetup
    \/ HandleEvent \/ HandleStatus \/ DrainMailbox \/ PullTick \/ Reconcile
    \/ PullResult \/ trackAndEnforce
    \/ PollAnswered \/ PollFailed \/ BackoffEnds \/ CertRenewed \/ KernelDies
    \/ Connect \/ Disconnect
    \/ PanelChange \/ PanelRestart \/ ReplicaFollows

ControlSpec == ControlInit /\ [][ControlNext]_controlVars

\* The scheduler serves every goroutine and select serves every ready case;
\* the panel answers some poll and its replica catches up.
ControlFairness ==
    /\ WF_controlVars(InitialPoll) /\ WF_controlVars(initialSetup)
    /\ WF_controlVars(HandleEvent) /\ WF_controlVars(HandleStatus)
    /\ WF_controlVars(DrainMailbox) /\ WF_controlVars(PullTick \/ Reconcile)
    /\ WF_controlVars(PullResult) /\ WF_controlVars(BackoffEnds)
    /\ SF_controlVars(PollAnswered) /\ WF_controlVars(ReplicaFollows)

FairControlSpec == ControlSpec /\ ControlFairness

-----------------------------------------------------------------------------
(***************************************************************************)
(* The type invariant.                                                     *)
(***************************************************************************)
Gates == [epoch : Nat, seq : Nat, retired : SUBSET Nat]
Hashes == {KernelHash[c] : c \in Configs}
Attempts == Hashes \X (SUBSET UserIds) \X Nat
States == [epoch : Nat \ {0}, seq : Nat, config : Configs, users : SUBSET UserIds]

Services ==
    [config : Configs \cup {None}, users : SUBSET UserIds,
     kernel : [running : BOOLEAN, config : Hashes \cup {None}, users : SUBSET UserIds,
               cert : Nat],
     applied : BOOLEAN,
     failed : {None} \cup [attempt : Attempts, retry : BOOLEAN],
     skipped : BOOLEAN, gate : Gates, sync : BOOLEAN, resync : BOOLEAN,
     pull : [stage : {"idle", "asked", "result"}, stale : BOOLEAN, snap : Nat, cert : BOOLEAN],
     backoff : BOOLEAN, certPending : BOOLEAN]

\* Only a configuration and a complete state carry a configuration for sure.
Events ==
    {e \in [type : {"snapshot", "config", "users", "delta"}, epoch : Nat, seq : Nat,
            config : Configs \cup {None}, users : SUBSET UserIds, action : {"add", "remove"}] :
       e.type \in {"snapshot", "config"} => e.config \in Configs}

Boxes ==
    [ready : BOOLEAN, notified : BOOLEAN, config : Configs \cup {None},
     users : SUBSET UserIds, full : BOOLEAN, dirtyConfig : BOOLEAN, dirtyUsers : BOOLEAN,
     reconcile : BOOLEAN, snapshot : BOOLEAN, gate : Gates]

ControlTypeOK ==
    /\ mode \in {"node", "machine"}
    /\ past \in Seq(States) /\ past # <<>>
    /\ replica \in 1 .. Len(past)
    /\ up \in BOOLEAN /\ links \in Nat
    /\ events \in Seq(Events) /\ statuses \in Seq([resync : BOOLEAN])
    /\ box \in Boxes
    /\ cert \in Nat /\ renewed \in BOOLEAN
    /\ boot \in [stage : {"start", "read", "done"}, snap : Nat]
    /\ svc \in Services

(***************************************************************************)
(* The inductive invariant.                                                *)
(***************************************************************************)
\* The kernel and the failure remembered fit what is wanted.  Users may be
\* wanted that the kernel was not told of, but a kernel that serves no users
\* of its own has none.
Coherent(s) ==
    /\ s.kernel.running =>
         /\ s.failed = None /\ s.config \in Configs
         /\ s.kernel.config = KernelHash[s.config]
         /\ s.kernel.users = s.users \/ s.skipped
         /\ s.config \in Landing => s.kernel.users = {}
    /\ s.failed # None =>
         /\ s.config \in Configs
         /\ s.failed.attempt[1] = KernelHash[s.config] /\ s.failed.attempt[2] = s.users
    /\ s.applied => s.config \in Configs

\* A push was one of the panel's states, or a part of one.
KnownIn(states, e) ==
    \E i \in 1 .. Len(states) :
        /\ states[i].epoch = e.epoch /\ states[i].seq = e.seq
        /\ e.type \in {"snapshot", "users"} => e.users = states[i].users
        /\ e.type = "delta" /\ e.action = "add" => e.users \subseteq states[i].users

ControlInv ==
    /\ ControlTypeOK
    /\ Coherent(svc)
    /\ boot.stage # "done" => svc = Fresh
    /\ boot.stage = "read" => boot.snap \in 0 .. Len(past)
    /\ svc.pull.stage = "result" => svc.pull.snap \in 1 .. Len(past)
    /\ box.dirtyConfig \/ box.snapshot => box.config \in Configs
    /\ mode = "node" => ~box.notified
    /\ \A i \in 1 .. Len(events) : KnownIn(past, events[i])

-----------------------------------------------------------------------------
(***************************************************************************)
(* Properties.                                                             *)
(***************************************************************************)

\* "lastConfig keeps what the panel wants last, whether it could be applied or
\* not ... so that no later user update starts an old configuration again"
\* (applyConfigUpdate): whatever pushes, polls, failures and restarts come in
\* between, a kernel that runs, runs the wanted configuration and serves the
\* wanted users, but for users that came with a configuration that did not
\* concern the kernel.
RunsWhatIsDesired ==
    svc.kernel.running =>
        /\ svc.failed = None
        /\ svc.kernel.config = KernelHash[svc.config]
        /\ svc.kernel.users = svc.users \/ svc.skipped

\* A complete user update reaches the kernel (applyUserUpdate "replaces the
\* full user set and hot-swaps the kernel"), also when it comes with a
\* configuration.
UsersReachKernel == svc.kernel.running => svc.kernel.users = svc.users

\* What failed is not started again, however often it is polled or pushed
\* (runtimeAttemptHash), unless its environment failed.
FailedNotRetried ==
    [][svc.failed # None /\ ~svc.failed.retry /\ ~svc.kernel.running /\ svc'.kernel.running
         => <<svc'.kernel.config, svc'.kernel.users, svc'.kernel.cert>> # svc.failed.attempt]_controlVars

\* The users the panel had at the version the service has accepted.
AcceptedUsers ==
    UNION {past[i].users : i \in {j \in 1 .. Len(past) :
               past[j].epoch = svc.gate.epoch /\ past[j].seq = svc.gate.seq}}

AddsCurrentUsers ==
    /\ svc'.users \ svc.users \subseteq AcceptedUsers'
    /\ svc'.gate.epoch = svc.gate.epoch => svc'.gate.seq >= svc.gate.seq

\* A user the panel has removed does not come back through a late push, a poll
\* from a replica that lags, a lost event or a restart: every user a step adds
\* is one of the panel's users at the version the step leaves the node with.
NoRemovedUserReturns == [][mode = "node" => AddsCurrentUsers]_controlVars

\* The same on a machine: the mailbox has the bootstrap's users as its base "so
\* delta events can be applied incrementally" (markMailboxReadyAndDrain).
MailboxBaseIsCurrent == [][mode = "machine" => AddsCurrentUsers]_controlVars

\* Whatever was lost on the way, the node gets to the panel's state: the
\* polls after a change of the connection, the resynchronisation after a drop
\* and the periodic comparison make up for it.
EventuallyCurrent ==
    <>[](svc.config = panel.config /\ (panel.config \in Landing \/ svc.users = panel.users))

\* A renewed certificate reaches a running kernel, although the answer that
\* carries the flag may be refused (pendingCertReload).
EventuallyRenewed == <>[](svc.kernel.running => svc.kernel.cert = cert)

=============================================================================
