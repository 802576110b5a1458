------------------------------ MODULE Firewall ------------------------------
(***************************************************************************)
(* The firewall manager the nodes of a process share (internal/firewall)   *)
(* and the order in which a node's service calls it                        *)
(* (internal/service/firewall.go, service.go).                             *)
(*                                                                         *)
(* Every call and the periodic check hold Manager.mu to the end, but each  *)
(* command and each write of the ownership record in between may fail, and *)
(* the process may die there.  The host (external) is UFW for admissions,  *)
(* nftables for redirections and for the drops that guard a listener, both *)
(* replaced by one transaction.  An administrator edits UFW between two    *)
(* holders of the lock.                                                    *)
(***************************************************************************)
EXTENDS Integers, FiniteSets, FiniteSetsExt

CONSTANTS
    Owners,
    Confs,        \* what the panel may ask: [port, kind]
    HopPort,      \* the port a "hop" node redirects to its own
    NoPlan,
    FwFaults,     \* subset of FwFaultKinds
    MaxConfs,     \* bound: configurations delivered
    MaxTroubles   \* bound: deaths, failing commands and writes, and edits, together

\* A "hop" node and a "landing" (of a relay) are admitted, a "guarded" node is admitted and has
\* drops, a "manual" one leaves the firewall alone (AutoFirewall is off).
Kinds == {"landing", "hop", "guarded", "manual"}

\* A command fails without effect or after it; the record is not replaced, or it is replaced
\* and its directory not synchronised; the record of the sources is not replaced.
FwFaultKinds == {"command", "late", "save", "dirsync", "sourcesave"}

ASSUME FirewallAssumption ==
    /\ HopPort \in Nat \ {0} /\ FwFaults \subseteq FwFaultKinds
    /\ NoPlan \notin Owners /\ NoPlan \notin Confs
    /\ NoPlan \notin [port : Nat, kind : Kinds, ready : BOOLEAN]
    /\ \A c \in Confs : c.port \in Nat \ {0, HopPort} /\ c.kind \in Kinds

VARIABLES
    agent,      \* "down", "up" or "closing"
    node,       \* a service: last configuration, what its kernel runs, its next step
    plans, confirm, expected, discovery, lastErr,   \* Manager
    backend,    \* systemBackend.state
    record,     \* its file
    host,
    job,        \* who holds Manager.mu, and where
    before,     \* history: what an owner had when the process died
    used        \* what the bounds count

managerVars == <<plans, confirm, expected, discovery>>
firewallVars == <<agent, node, plans, confirm, expected, discovery, lastErr, backend, record,
                  host, job, before, used>>

RulePorts == {c.port : c \in Confs} \cup {HopPort}
Nobody == [o \in Owners |-> NoPlan]
NoDrops == [o \in Owners |-> 0]
NothingOwned == [owned |-> {}, redirect |-> FALSE, driver |-> FALSE, sources |-> NoDrops]
Unlocked == [op |-> "none", owner |-> NoPlan, at |-> "none", todo |-> {}, rule |-> 0]
NoService == [conf |-> NoPlan, runs |-> NoPlan, phase |-> "idle"]
NothingLeft == [allow |-> {}, drop |-> 0]
NothingBefore == [o \in Owners |-> NothingLeft]

FirewallInit ==
    /\ agent = "down" /\ node = [o \in Owners |-> NoService]
    /\ plans = Nobody /\ confirm = Nobody
    /\ expected = [o \in Owners |-> "unlisted"] /\ discovery = FALSE /\ lastErr = FALSE
    /\ backend = NothingOwned /\ record = NothingOwned
    /\ host = [allow |-> [p \in RulePorts |-> "none"], redirect |-> {}, drop |-> NoDrops]
    /\ job = Unlocked /\ before = NothingBefore
    /\ used = [confs |-> 0, troubles |-> 0]

-----------------------------------------------------------------------------
(* Plans *)

\* PlanForNode: the ports a plan admits, and what it redirects to its own port.
Admits(p) == IF p = NoPlan THEN {} ELSE {p.port} \cup IF p.kind = "hop" THEN {HopPort} ELSE {}
Guarded(p) == p # NoPlan /\ p.kind = "guarded"

\* combinePlans refuses two plans for a port that one of them guards, and two targets for the
\* same redirected port.
Conflict(p, q) ==
    \/ Admits(p) \cap Admits(q) # {} /\ (Guarded(p) \/ Guarded(q))
    \/ HopPort \in Admits(p) \cap Admits(q) /\ p.port # q.port

Active == {o \in Owners : plans[o] # NoPlan /\ plans[o].ready}
Allows == UNION {Admits(plans[o]) : o \in Active}
Redirects == {plans[o].port : o \in {a \in Active : plans[a].kind = "hop"}}

\* updateProtection
Recovering == discovery \/ \E o \in Owners : expected[o] = "awaited"
Protected == {confirm[o].port : o \in {c \in Owners : confirm[c] # NoPlan}}

keepOwned(p) == Recovering \/ p \in Protected

\* Mutant: only nodes that are listening are guarded.
DesiredOfActive ==
    [o \in Owners |-> IF o \in Active THEN IF Guarded(plans[o]) THEN plans[o].port ELSE 0
                      ELSE IF Recovering THEN backend.sources[o] ELSE 0]

\* ApplySources: the drops wanted.
Desired ==
    [o \in Owners |-> IF plans[o] # NoPlan THEN IF Guarded(plans[o]) THEN plans[o].port ELSE 0
                      ELSE IF Recovering THEN backend.sources[o] ELSE 0]

-----------------------------------------------------------------------------
(* Commands and writes of the holder of the lock *)

Trouble == used.troubles < MaxTroubles /\ used' = [used EXCEPT !.troubles = @ + 1]

Fails(kind) == kind \in FwFaults /\ Trouble

At(step) == [job EXCEPT !.at = step]
Failed == At("failed")

\* save of b; when it fails, memory is left with fallback.
save(kinds, b, fallback, next) ==
    \/ backend' = b /\ record' = b /\ job' = next /\ UNCHANGED used
    \/ \E k \in kinds : /\ Fails(k)
                        /\ backend' = fallback /\ job' = Failed
                        /\ record' = IF k = "dirsync" THEN b ELSE record

Saves == {"save", "dirsync"}
SourceSaves == {"sourcesave"}

\* A command brings the host to h.
Run(h, next) ==
    \/ host' = h /\ job' = next /\ UNCHANGED used
    \/ \E k \in {"command", "late"} : /\ Fails(k)
                                      /\ host' = IF k = "late" THEN h ELSE host
                                      /\ job' = Failed

Skip(next) == job' = next /\ UNCHANGED <<backend, record, used>>
WithRule(p, state) == [host EXCEPT !.allow[p] = state]

\* prepareSourceTools, which only plans with a source policy need.
NoSourceTools ==
    /\ \E o \in Owners : Guarded(plans[o])
    /\ Fails("command") /\ job' = Failed /\ UNCHANGED <<backend, record>>

\* ApplySources up to the recorded intent.
SourceIntent ==
    /\ job.at = "sources"
    /\ \/ NoSourceTools
       \/ /\ Desired # NoDrops /\ ~backend.driver
          /\ LET b == [backend EXCEPT !.driver = TRUE] IN save(SourceSaves, b, b, At("sync"))
       \/ /\ Desired = NoDrops \/ backend.driver
          /\ Skip(At(IF backend.driver THEN "sync" ELSE "allows"))
    /\ UNCHANGED host

syncSourceNFT ==
    /\ job.at = "sync"
    /\ Run([host EXCEPT !.drop = Desired], At("sourcesave"))
    /\ UNCHANGED <<backend, record>>

\* The end of ApplySources.
SourceSave ==
    /\ job.at = "sourcesave"
    /\ IF Desired # NoDrops /\ backend.sources = Desired THEN Skip(At("allows"))
       ELSE LET b == [backend EXCEPT !.sources = Desired, !.driver = Desired # NoDrops]
            IN save(SourceSaves, b, b, At("allows"))
    /\ UNCHANGED host

\* apply reads the state of the host first.
ReadHost ==
    /\ job.at = "allows"
    /\ \/ Skip([job EXCEPT !.at = "ensure", !.todo = Allows])
       \/ Fails("command") /\ job' = Failed /\ UNCHANGED <<backend, record>>
    /\ UNCHANGED host

NextRule == Min(job.todo)
Ensured(next) == [job EXCEPT !.at = next, !.todo = @ \ {NextRule}]
remember(p) == [backend EXCEPT !.owned = @ \cup {p}]
forget(p) == [backend EXCEPT !.owned = @ \ {p}]
Owning(b, next) == IF b = backend THEN Skip(next) ELSE save(Saves, b, backend, next)

\* ensureUFWManaged: a rule is recorded, then created; one that is there is recorded.
Remember ==
    /\ job.at = "ensure" /\ job.todo # {} /\ host.allow[NextRule] \in {"none", "own"}
    /\ Owning(remember(NextRule),
              IF host.allow[NextRule] = "own" THEN Ensured("ensure") ELSE At("prepend"))
    /\ UNCHANGED host

\* A rule of the administrator's is used and not claimed.
LeaveManual ==
    /\ job.at = "ensure" /\ job.todo # {} /\ host.allow[NextRule] = "manual"
    /\ Owning(forget(NextRule), Ensured("ensure"))
    /\ UNCHANGED host

\* A rule that has come to stand behind a refusal is removed, forgotten and created again.
Uproot ==
    /\ job.at = "ensure" /\ job.todo # {} /\ host.allow[NextRule] = "behind"
    /\ Run(WithRule(NextRule, "none"), At("replant"))
    /\ UNCHANGED <<backend, record>>

Replant ==
    /\ job.at = "replant"
    /\ Owning(forget(NextRule), At("ensure"))
    /\ UNCHANGED host

Prepend ==
    /\ job.at = "prepend"
    /\ Run(WithRule(NextRule, "own"), Ensured("ensure"))
    /\ UNCHANGED <<backend, record>>

\* applyRedirects: the driver is recorded, the table replaced, and forgotten when empty.
RedirectIntent ==
    /\ job.at = "ensure" /\ job.todo = {}
    /\ IF Redirects = {} /\ ~backend.redirect THEN Skip(At("reclaim"))
       ELSE LET b == [backend EXCEPT !.redirect = TRUE] IN save(Saves, b, b, At("redirect"))
    /\ UNCHANGED host

syncNFT ==
    /\ job.at = "redirect"
    /\ Run([host EXCEPT !.redirect = Redirects],
           At(IF Redirects = {} THEN "noredirect" ELSE "reclaim"))
    /\ UNCHANGED <<backend, record>>

RedirectForgotten ==
    /\ job.at = "noredirect"
    /\ LET b == [backend EXCEPT !.redirect = FALSE] IN save(Saves, b, b, At("reclaim"))
    /\ UNCHANGED host

Reclaimed == {p \in backend.owned \ Allows : ~keepOwned(p)}

\* removeUFW of the rules no node wants any more.
Reclaim ==
    /\ job.at = "reclaim" /\ Reclaimed # {}
    /\ \E p \in Reclaimed :
          LET next == [job EXCEPT !.at = "forget", !.rule = p]
          IN IF host.allow[p] \in {"own", "behind"} THEN Run(WithRule(p, "none"), next)
             ELSE job' = next /\ UNCHANGED <<host, used>>
    /\ UNCHANGED <<backend, record>>

Forget ==
    /\ job.at = "forget"
    /\ Owning(forget(job.rule), [job EXCEPT !.at = "reclaim", !.rule = 0])
    /\ UNCHANGED host

Reconciled ==
    /\ job.at = "reclaim" /\ Reclaimed = {}
    /\ Skip(At("done")) /\ UNCHANGED host

Work ==
    /\ \/ SourceIntent \/ syncSourceNFT \/ SourceSave
       \/ ReadHost \/ Remember \/ LeaveManual \/ Uproot \/ Replant \/ Prepend
       \/ RedirectIntent \/ syncNFT \/ RedirectForgotten
       \/ Reclaim \/ Forget \/ Reconciled
    /\ UNCHANGED <<agent, node, managerVars, lastErr, before>>

-----------------------------------------------------------------------------
(* Calls *)

Take(op, o, step) == job' = [Unlocked EXCEPT !.op = op, !.owner = o, !.at = step]

\* Manager.apply: the plan joins the others, or waits for a confirmation.
Apply_(o, plan) ==
    /\ expected' = [expected EXCEPT ![o] = "seen"]
    /\ IF \E q \in Owners \ {o} : \/ plans[q] # NoPlan /\ Conflict(plan, plans[q])
                                  \/ confirm[q] # NoPlan /\ Conflict(plan, confirm[q])
       THEN /\ confirm' = [confirm EXCEPT ![o] = plan]
            /\ Take("node", o, "refused") /\ UNCHANGED plans
       ELSE /\ plans' = [plans EXCEPT ![o] = plan]
            /\ confirm' = [confirm EXCEPT ![o] = NoPlan]
            /\ Take("node", o, "sources")

\* Manager.Release
Release(o) ==
    /\ expected' = [expected EXCEPT ![o] = "seen"]
    /\ plans' = [plans EXCEPT ![o] = NoPlan]
    /\ confirm' = [confirm EXCEPT ![o] = NoPlan]
    /\ LET recorded == backend.owned # {} \/ backend.driver \/ backend.redirect
           others == discovery \/ \E q \in Owners \ {o} : expected[q] = "awaited"
           nothing == plans[o] = NoPlan /\ confirm[o] = NoPlan /\ ~lastErr
       IN Take("node", o, IF recorded THEN IF others THEN "refused" ELSE "sources"
                          ELSE IF nothing THEN "returned" ELSE "sources")

PlanOf(c, ready) == [port |-> c.port, kind |-> c.kind, ready |-> ready]

\* The next call of a node's service: startKernel prepares a guarded node and withdraws the
\* rules of a manual one; a node that listens is confirmed; one that stopped is released.
NodeCalls(o) ==
    /\ agent = "up" /\ job = Unlocked
    /\ \/ node[o].phase = "start" /\ Guarded(node[o].conf) /\ Apply_(o, PlanOf(node[o].conf, FALSE))
       \/ node[o].phase = "start" /\ node[o].conf.kind = "manual" /\ Release(o)
       \/ node[o].phase = "confirm" /\ Apply_(o, PlanOf(node[o].conf, TRUE))
       \/ node[o].phase \in {"release", "restart"} /\ Release(o)
    /\ UNCHANGED <<agent, node, discovery, lastErr, backend, record, host, before, used>>

\* What the service does with the result: an error stops the kernel (failRuntime), and the
\* rules are released, unless the node is an unrestricted landing, which goes on listening; an
\* error of that release is only logged.
AfterCall(n, ok) ==
    IF n.phase = "release" \/ (n.phase = "confirm" /\ n.conf.kind = "landing")
    THEN [n EXCEPT !.phase = "idle"]
    ELSE IF n.phase = "restart" THEN [n EXCEPT !.phase = "start"]
    ELSE IF ~ok THEN [n EXCEPT !.phase = "release", !.runs = NoPlan]
    ELSE [n EXCEPT !.phase = IF n.phase = "start" THEN "kernel" ELSE "idle"]

Return ==
    /\ job.at \in {"done", "failed", "refused", "returned"}
    /\ lastErr' = IF job.at = "done" THEN FALSE ELSE job.at = "failed" \/ lastErr
    /\ node' = IF job.op # "node" THEN node
               ELSE [node EXCEPT ![job.owner] = AfterCall(@, job.at \in {"done", "returned"})]
    /\ agent' = IF job.op = "close" THEN "down" ELSE agent
    /\ job' = Unlocked
    /\ UNCHANGED <<managerVars, backend, record, host, before, used>>

\* The periodic check of Start.
PeriodicCheck ==
    /\ agent = "up" /\ job = Unlocked /\ Take("tick", NoPlan, "sources")
    /\ UNCHANGED <<agent, node, managerVars, lastErr, backend, record, host, before, used>>

\* ExpectNodes, with the nodes the panel lists.
ExpectNodes ==
    /\ agent = "up" /\ job = Unlocked
    /\ \E listed \in SUBSET Owners :
          /\ discovery \/ \E o \in listed : expected[o] = "unlisted"
          /\ expected' = [o \in Owners |-> IF o \in listed /\ expected[o] = "unlisted"
                                           THEN "awaited" ELSE expected[o]]
    /\ discovery' = FALSE
    /\ before' = [o \in Owners |-> IF expected'[o] = "unlisted" THEN NothingLeft ELSE before[o]]
    /\ UNCHANGED <<agent, node, plans, confirm, lastErr, backend, record, host, job, used>>

-----------------------------------------------------------------------------
(* A node's service, between its calls *)

Step(o, n) ==
    /\ agent = "up" /\ expected[o] # "unlisted" /\ node' = [node EXCEPT ![o] = n]
    /\ UNCHANGED <<agent, managerVars, lastErr, backend, record, host, job, before>>

Manual(c) == c.kind = "manual"

\* applyChanges: a change that concerns a guarded listener, or turns management on or off, stops
\* the kernel first; another one reloads it.
NodeConfigured(o) ==
    /\ node[o].phase = "idle" /\ used.confs < MaxConfs /\ used' = [used EXCEPT !.confs = @ + 1]
    /\ \E c \in Confs \ {node[o].conf} :
          LET old == node[o].runs
              stops == old # NoPlan /\ (Guarded(c) \/ Guarded(old) \/ Manual(c) # Manual(old))
          IN Step(o, [conf |-> c,
                      runs |-> IF stops THEN NoPlan ELSE old,
                      phase |-> IF old = NoPlan THEN "start" ELSE IF stops THEN "restart"
                                ELSE "kernel"])

\* kernel.Start, once startKernel has prepared the firewall, or kernel.Reload.
NodeStarts(o) ==
    /\ \/ node[o].phase = "kernel"
       \/ node[o].phase = "start" /\ node[o].conf.kind \in {"landing", "hop"}
    /\ \/ Step(o, [node[o] EXCEPT !.runs = node[o].conf,
                                  !.phase = IF Manual(node[o].conf) THEN "idle" ELSE "confirm"])
       \/ Step(o, [node[o] EXCEPT !.runs = NoPlan, !.phase = "release"])
    /\ UNCHANGED used

\* A node with no user left, or that ends, stops its kernel and releases its rules.
NodeStops(o) ==
    /\ node[o].phase = "idle"
    /\ Step(o, [node[o] EXCEPT !.runs = NoPlan, !.phase = "release"])
    /\ UNCHANGED used

\* Users return or retrySourceFirewall tries again; trackAndEnforce checks a guarded node and a
\* landing.
NodeTries(o) ==
    /\ node[o].phase = "idle" /\ node[o].conf # NoPlan
    /\ \/ node[o].runs = NoPlan /\ Step(o, [node[o] EXCEPT !.phase = "start"])
       \/ node[o].runs # NoPlan /\ node[o].runs.kind \in {"guarded", "landing"}
          /\ Step(o, [node[o] EXCEPT !.phase = "confirm"])
    /\ UNCHANGED used

-----------------------------------------------------------------------------
(* The process and the host *)

OpenRecord == backend' = record
NoneExpected == expected' = [o \in Owners |-> "unlisted"]
BeginDiscovery == NoneExpected /\ discovery' = TRUE
NoPlans == plans' = Nobody /\ confirm' = Nobody

\* New reads the record, and BeginDiscovery protects it.
StartAgent ==
    /\ agent = "down" /\ agent' = "up"
    /\ OpenRecord /\ lastErr' = FALSE
    /\ NoPlans /\ BeginDiscovery
    /\ UNCHANGED <<node, record, host, job, before, used>>

\* Close, after every service has ended; cleanup-firewall opens the record and closes.
Close ==
    /\ \/ /\ agent = "up" /\ job = Unlocked /\ UNCHANGED backend
          /\ \A o \in Owners : node[o].phase = "idle" /\ node[o].runs = NoPlan
       \/ agent = "down" /\ OpenRecord
    /\ agent' = "closing" /\ NoPlans /\ NoneExpected /\ discovery' = FALSE
    /\ node' = [o \in Owners |-> NoService] /\ before' = NothingBefore
    /\ Take("close", NoPlan, "sources")
    /\ UNCHANGED <<lastErr, record, host, used>>

\* What an owner leaves behind: the rules of its plan that are on the host and in the record.
LeftBy(o) ==
    IF expected[o] # "seen" THEN before[o]
    ELSE [allow |-> IF o \in Active THEN {p \in Admits(plans[o]) \cap record.owned : host.allow[p] = "own"}
                    ELSE {},
          drop |-> IF Guarded(plans[o]) /\ record.sources[o] = host.drop[o] THEN host.drop[o] ELSE 0]

\* The process dies, at any command, and its kernels with it.
AgentDies ==
    /\ agent # "down" /\ Trouble
    /\ agent' = "down" /\ job' = Unlocked /\ node' = [o \in Owners |-> NoService]
    /\ before' = [o \in Owners |-> LeftBy(o)]
    /\ backend' = NothingOwned /\ lastErr' = FALSE /\ NoPlans /\ NoneExpected /\ discovery' = FALSE
    /\ UNCHANGED <<record, host>>

\* The administrator deletes a rule of the manager, makes it his own, puts a refusal before it,
\* or adds one.
AdminEdits ==
    /\ job = Unlocked /\ Trouble
    /\ \E p \in RulePorts :
          /\ \/ /\ host.allow[p] \in {"own", "behind"}
                /\ \E state \in {"none", "manual", "behind"} \ {host.allow[p]} : host' = WithRule(p, state)
             \/ host.allow[p] = "none" /\ host' = WithRule(p, "manual")
          /\ before' = [o \in Owners |-> [before[o] EXCEPT !.allow = @ \ {p}]]
    /\ UNCHANGED <<agent, node, managerVars, lastErr, backend, record, job>>

FirewallNext ==
    \/ Work \/ Return \/ PeriodicCheck \/ ExpectNodes
    \/ \E o \in Owners : NodeCalls(o) \/ NodeConfigured(o) \/ NodeStarts(o) \/ NodeStops(o) \/ NodeTries(o)
    \/ StartAgent \/ Close \/ AgentDies \/ AdminEdits

FirewallSpec == FirewallInit /\ [][FirewallNext]_firewallVars

-----------------------------------------------------------------------------
(* Correctness *)

\* Whatever fails and wherever the process dies, each rule the manager has on the host is in its
\* record: the next start, or cleanup-firewall, can take it back (remember, ApplySources and
\* applyRedirects write the intent before the command).
NothingOrphaned ==
    /\ \A p \in RulePorts : host.allow[p] \in {"own", "behind"} => p \in record.owned
    /\ host.redirect # {} => record.redirect
    /\ host.drop # NoDrops => record.driver

\* When reconcile ends without error every port of a listening node is admitted, ahead of any
\* refusal, the redirections and the guards are those of the plans, and, with no node awaited or
\* waiting for a confirmation, no other port is open; whatever earlier attempts left half done.
ReconcileIsExact ==
    job.at = "done" =>
        /\ \A p \in Allows : host.allow[p] \in {"own", "manual"}
        /\ host.redirect = Redirects
        /\ \A o \in Owners : Guarded(plans[o]) => host.drop[o] = plans[o].port
        /\ ~Recovering /\ confirm = Nobody =>
              /\ \A p \in RulePorts \ Allows : host.allow[p] \in {"none", "manual"}
              /\ \A o \in Owners : ~Guarded(plans[o]) => host.drop[o] = 0

\* A node with a source policy listens only behind its drops, from the moment its kernel opens
\* the port until it has closed it, whatever the other nodes do to the shared rules meanwhile.
GuardedWhileListening ==
    \A o \in Owners : Guarded(node[o].runs) => host.drop[o] = node[o].runs.port

\* After a restart no faster node takes away what a node that has not reported yet had: its
\* admissions and its guard stay until it reports or turns out not to be listed (BeginDiscovery,
\* ExpectNodes, keepOwned).
AwaitedRulesStay ==
    agent = "up" =>
        \A o \in Owners :
            expected[o] = "awaited" \/ (discovery /\ expected[o] = "unlisted") =>
                /\ \A p \in before[o].allow : host.allow[p] # "none" \/ p \in Allows
                /\ before[o].drop # 0 => host.drop[o] = before[o].drop

\* What the rules of the host owe to the nodes and to the file, at every step of the manager.
FirewallHolds ==
    NothingOrphaned /\ ReconcileIsExact /\ GuardedWhileListening /\ AwaitedRulesStay
=============================================================================
