------------------------------ MODULE Machine ------------------------------
(***************************************************************************)
(* The nodes of a machine (internal/machine/machine.go, traffic.go).  The  *)
(* orchestrator learns the list of nodes from the panel, runs one service  *)
(* per node, and cancels all of them while the machine's traffic quota is  *)
(* used up.                                                                *)
(*                                                                         *)
(* The main loop starts the nodes of the first list; a discovery that runs *)
(* in a goroutine of its own compares every later list with what runs.     *)
(* Both start and stop nodes at the same time as services end by           *)
(* themselves, the traffic meter changes its verdict and the process is    *)
(* told to stop.  One action is one critical section of Orchestrator.mu or *)
(* eventsMu.                                                               *)
(*                                                                         *)
(* A handle is one instance of a node's service and owns the mailbox made  *)
(* with it; a handle whose service has ended is free, and used again once  *)
(* nobody refers to it.  The steps at the end of a service, and those of   *)
(* its start after it was entered, are one action each where no other      *)
(* actor can tell.  The states shown by the health endpoint are left out.  *)
(***************************************************************************)
EXTENDS Naturals, FiniteSets

CONSTANTS
    Nodes,
    Kernels,
    Handles,     \* handles in use at a time
    Absent,
    MaxEvents    \* bound: changes of the list, of the connection and of the
                 \* meter's verdict, policies that cannot be applied, and
                 \* services that end by themselves

ASSUME MachineAssumption ==
    /\ Absent \notin Kernels /\ Absent \notin Handles
    /\ MaxEvents \in Nat

VARIABLES
    want,      \* panel: the kernel of each node of the machine, or Absent
    happened,  \* events so far
    online, gen,  \* the shared connection and its Generation
    synced,    \* discoveryVersion while discoverySocket is set, else 0
    pending,   \* rediscoverPending
    disc,      \* the discovery: its stage, what it read, what is to be removed
    phase,     \* stage of Run
    stopped,   \* the context of Run is cancelled
    start,     \* what main and the discovery do about each node
    nodes,     \* Orchestrator.nodes
    mailboxes, \* Orchestrator.mailboxes, as the handle they belong to
    handle,    \* the handles
    metered,   \* there is a traffic meter
    verdict,   \* what the meter says
    held,      \* what the goroutines of trafficLoop have read from it
    blocked    \* trafficBlocked

discoveryVars == <<pending, disc, synced>>
connVars == <<online, gen>>
meterVars == <<metered, verdict, held, blocked>>
machineVars == <<want, happened, online, gen, synced, pending, disc, phase, stopped,
                 start, nodes, mailboxes, handle, metered, verdict, held, blocked>>

Starters == {"main", "disc"}
Idle == [stage |-> "no", h |-> Absent, kernel |-> Absent]
Free == [stage |-> "free", node |-> Absent, kernel |-> Absent, cancelled |-> FALSE]
NoDiscovery == [stage |-> "none", gen |-> 0, list |-> [n \in Nodes |-> Absent], todo |-> {}]

Listed(list) == {n \in Nodes : list[n] # Absent}
\* The service runs, or its start has begun.
Alive(h) == handle[h].stage \in {"made", "running"}

AnEvent == happened < MaxEvents /\ happened' = happened + 1

-----------------------------------------------------------------------------
MachineInit ==
    /\ want \in [Nodes -> Kernels \cup {Absent}]
    /\ happened = 0
    /\ online = FALSE /\ gen = 0 /\ synced = 0
    /\ pending = FALSE /\ disc = NoDiscovery
    /\ phase = "boot" /\ stopped = FALSE
    /\ start = [s \in Starters |-> [n \in Nodes |-> Idle]]
    /\ nodes = [n \in Nodes |-> Absent]
    /\ mailboxes = [n \in Nodes |-> Absent]
    /\ handle = [h \in Handles |-> Free]
    /\ metered \in BOOLEAN
    /\ verdict \in {FALSE, metered}
    /\ held = [g \in {"tick", "report"} |-> Absent]
    /\ blocked = FALSE

-----------------------------------------------------------------------------
(***************************************************************************)
(* rediscover: a call while the discovery is active only leaves its mark.  *)
(***************************************************************************)
rediscover ==
    /\ pending' = TRUE
    /\ disc' = IF disc.stage = "none" THEN [disc EXCEPT !.stage = "swap"] ELSE disc

NoCall == UNCHANGED <<pending, disc>>
CallIf(event) == (event /\ rediscover) \/ (~event /\ NoCall)

\* The loop of rediscover: one more round, or the end.
NextRound ==
    /\ disc.stage = "swap"
    /\ pending' = FALSE
    /\ disc' = IF pending /\ ~stopped
               THEN [NoDiscovery EXCEPT !.stage = "ask", !.gen = gen]
               ELSE [NoDiscovery EXCEPT !.stage = "leave"]
    /\ UNCHANGED <<want, happened, connVars, synced, phase, stopped, start, nodes,
                   mailboxes, handle, meterVars>>

\* rediscoverActive is reset when the loop has ended.
LeaveDiscovery ==
    /\ disc.stage = "leave"
    /\ disc' = NoDiscovery
    /\ UNCHANGED <<want, happened, connVars, synced, pending, phase, stopped, start, nodes,
                   mailboxes, handle, meterVars>>

\* GetMachineNodes answers or fails.
ListAnswered ==
    /\ disc.stage = "ask"
    /\ disc' = [disc EXCEPT !.stage = "got", !.list = want]
    /\ UNCHANGED <<want, happened, connVars, synced, pending, phase, stopped, start, nodes,
                   mailboxes, handle, meterVars>>
ListFails ==
    /\ disc.stage = "ask"
    /\ disc' = [NoDiscovery EXCEPT !.stage = "swap"]
    /\ UNCHANGED <<want, happened, connVars, synced, pending, phase, stopped, start, nodes,
                   mailboxes, handle, meterVars>>

\* rediscoverOnce: an answer overtaken by another call is left to it.
CompareNodes ==
    /\ disc.stage = "got"
    /\ disc' = IF stopped \/ pending THEN [NoDiscovery EXCEPT !.stage = "swap"]
               ELSE [disc EXCEPT !.stage = "remove",
                                 !.todo = {n \in Nodes : nodes[n] # Absent} \ Listed(disc.list)]
    /\ UNCHANGED <<want, happened, connVars, synced, pending, phase, stopped, start, nodes,
                   mailboxes, handle, meterVars>>

Begin(list, stage) == [n \in Nodes |->
    IF n \in Listed(list) THEN [Idle EXCEPT !.stage = stage, !.kernel = list[n]] ELSE Idle]

\* The next node to be removed, and after them startNodes.
RemoveNext ==
    /\ disc.stage = "remove" /\ start["disc"] = Begin([n \in Nodes |-> Absent], "no")
    /\ \/ \E n \in disc.todo :
            /\ disc' = [disc EXCEPT !.todo = @ \ {n}]
            /\ start' = [start EXCEPT !["disc"][n].stage = "stop"]
       \/ /\ disc.todo = {}
          /\ disc' = [disc EXCEPT !.stage = "start"]
          /\ start' = [start EXCEPT !["disc"] = Begin(disc.list, "check")]
    /\ UNCHANGED <<want, happened, connVars, synced, pending, phase, stopped, nodes,
                   mailboxes, handle, meterVars>>

\* startNodes has returned; the list counts as complete for a connection that
\* is the same as before the question.
Discovered ==
    /\ disc.stage = "start" /\ start["disc"] = Begin([n \in Nodes |-> Absent], "no")
    /\ synced' = IF online /\ gen = disc.gen THEN gen ELSE synced
    /\ disc' = [NoDiscovery EXCEPT !.stage = "swap"]
    /\ UNCHANGED <<want, happened, connVars, pending, phase, stopped, start, nodes,
                   mailboxes, handle, meterVars>>

-----------------------------------------------------------------------------
(***************************************************************************)
(* startNode and stopNode, by main or by the discovery.                    *)
(***************************************************************************)
Unreferenced(h) ==
    /\ handle[h].stage = "free"
    /\ \A s \in Starters, n \in Nodes : start[s][n].h # h

Goes(s, n, stage, h) == start' = [start EXCEPT ![s][n].stage = stage, ![s][n].h = h]
Ends(s, n) == start' = [start EXCEPT ![s][n] = Idle]

\* A handle is entered and the start goes on.
Enter(s, n, cancelled) ==
    /\ \E h \in Handles : Unreferenced(h)
    /\ LET h == CHOOSE g \in Handles : Unreferenced(g)
       IN /\ handle' = [handle EXCEPT ![h] = [stage |-> "made", node |-> n,
                           kernel |-> start[s][n].kernel, cancelled |-> cancelled]]
          /\ nodes' = [nodes EXCEPT ![n] = h]
          /\ Goes(s, n, "made", h)
NotStarted(s, n) == Ends(s, n) /\ UNCHANGED <<nodes, handle>>

\* Mutants: shutdown, or protection, is not looked at under the lock.
InsertWhenStopped(s, n) == IF blocked THEN NotStarted(s, n) ELSE Enter(s, n, stopped)

\* Under the lock: neither traffic protection nor shutdown forbids the node.
Insert(s, n) == IF blocked \/ stopped THEN NotStarted(s, n) ELSE Enter(s, n, FALSE)

startNode(s, n) ==
    /\ start[s][n].stage = "check"
    /\ IF nodes[n] = Absent THEN Insert(s, n)
       ELSE /\ IF handle[nodes[n]].kernel = start[s][n].kernel THEN Ends(s, n)
               ELSE Goes(s, n, "stop", Absent)
            /\ UNCHANGED <<nodes, handle>>
    /\ UNCHANGED <<want, happened, connVars, discoveryVars, phase, stopped, mailboxes,
                   meterVars>>

\* After stopNode the entry must still be free.
StartAgain(s, n) ==
    /\ start[s][n].stage = "again"
    /\ IF nodes[n] = Absent THEN Insert(s, n)
       ELSE Ends(s, n) /\ UNCHANGED <<nodes, handle>>
    /\ UNCHANGED <<want, happened, connVars, discoveryVars, phase, stopped, mailboxes,
                   meterVars>>

\* The mailbox is entered, the configuration was fetched or could not be, and
\* the service runs.
Spawn(s, n) ==
    /\ start[s][n].stage = "made"
    /\ mailboxes' = [mailboxes EXCEPT ![n] = start[s][n].h]
    /\ handle' = [handle EXCEPT ![start[s][n].h].stage = "running"]
    /\ Ends(s, n)
    /\ UNCHANGED <<want, happened, connVars, discoveryVars, phase, stopped, nodes,
                   meterVars>>

\* Where stopNode returns to: startNode, or the discovery.
StopReturns(s, n) == IF start[s][n].kernel # Absent THEN Goes(s, n, "again", Absent) ELSE Ends(s, n)

StopLookup(s, n) ==
    /\ start[s][n].stage = "stop"
    /\ IF nodes[n] = Absent THEN StopReturns(s, n) ELSE Goes(s, n, "cancel", nodes[n])
    /\ UNCHANGED <<want, happened, connVars, discoveryVars, phase, stopped, nodes,
                   mailboxes, handle, meterVars>>

StopCancel(s, n) ==
    /\ start[s][n].stage = "cancel"
    /\ mailboxes' = [mailboxes EXCEPT ![n] = Absent]
    /\ handle' = [handle EXCEPT ![start[s][n].h].cancelled = TRUE]
    /\ Goes(s, n, "await", start[s][n].h)
    /\ UNCHANGED <<want, happened, connVars, discoveryVars, phase, stopped, nodes,
                   meterVars>>

StopAwait(s, n) ==
    /\ start[s][n].stage = "await"
    /\ handle[start[s][n].h].stage = "free"
    /\ nodes' = [nodes EXCEPT ![n] = IF @ = start[s][n].h THEN Absent ELSE @]
    /\ StopReturns(s, n)
    /\ UNCHANGED <<want, happened, connVars, discoveryVars, phase, stopped, mailboxes,
                   handle, meterVars>>

-----------------------------------------------------------------------------
(***************************************************************************)
(* The goroutine of a service.                                             *)
(***************************************************************************)
\* The entry goes only when it is still this service's.
Removed(h) == [nodes EXCEPT ![handle[h].node] = IF @ = h THEN Absent ELSE @]

\* Run has returned, because it was cancelled or because it failed; then
\* unregisterNode, finishNode and close(done).  A protected service may end
\* after the protection has.
finishNode(h) ==
    /\ handle[h].stage = "running"
    /\ (handle[h].cancelled /\ UNCHANGED happened) \/ (~handle[h].cancelled /\ AnEvent)
    /\ mailboxes' = [mailboxes EXCEPT ![handle[h].node] = Absent]
    /\ nodes' = Removed(h)
    /\ handle' = [handle EXCEPT ![h] = Free]
    /\ \E err \in BOOLEAN : CallIf(~err /\ metered /\ ~blocked /\ ~stopped)
    /\ UNCHANGED <<want, connVars, synced, phase, stopped, start, meterVars>>

-----------------------------------------------------------------------------
(***************************************************************************)
(* Run.                                                                    *)
(***************************************************************************)
\* The first list, initTraffic and the start of the first nodes.
RunBegins ==
    /\ phase = "boot"
    /\ phase' = "starting"
    /\ blocked' = verdict
    /\ start' = [start EXCEPT !["main"] = Begin(want, "check")]
    /\ UNCHANGED <<want, happened, connVars, discoveryVars, stopped, nodes, mailboxes,
                   handle, metered, verdict, held>>

FirstNodesStarted ==
    /\ phase = "starting" /\ start["main"] = Begin([n \in Nodes |-> Absent], "no")
    /\ phase' = "loop"
    /\ UNCHANGED <<want, happened, connVars, discoveryVars, stopped, start, nodes,
                   mailboxes, handle, meterVars>>

\* Mutant: a connection that is in step is never compared again.
DiscoveryTickNotInStep ==
    /\ phase = "loop" /\ ~stopped /\ ~(online /\ synced = gen)
    /\ rediscover
    /\ UNCHANGED <<want, happened, connVars, synced, phase, stopped, start, nodes,
                   mailboxes, handle, meterVars>>

\* The ten seconds' fallback of a connection that is not in step, and the five
\* minutes' comparison.
DiscoveryTick ==
    /\ phase = "loop" /\ ~stopped
    /\ rediscover
    /\ UNCHANGED <<want, happened, connVars, synced, phase, stopped, start, nodes,
                   mailboxes, handle, meterVars>>

\* The contexts of all services derive from that of Run.
Cancel ==
    /\ phase # "boot" /\ ~stopped
    /\ stopped' = TRUE
    /\ handle' = [h \in Handles |-> [handle[h] EXCEPT !.cancelled = @ \/ Alive(h)]]
    /\ UNCHANGED <<want, happened, connVars, discoveryVars, phase, start, nodes, mailboxes,
                   meterVars>>

\* stopAll waits for every service it finds.
stopAll ==
    /\ phase = "loop" /\ stopped
    /\ \A n \in Nodes : nodes[n] = Absent
    /\ phase' = "stopped"
    /\ UNCHANGED <<want, happened, connVars, discoveryVars, stopped, start, nodes,
                   mailboxes, handle, meterVars>>

-----------------------------------------------------------------------------
(***************************************************************************)
(* Traffic protection.                                                     *)
(***************************************************************************)
setTrafficBlocked(b) ==
    /\ blocked' = b
    /\ handle' = [h \in Handles |->
         [handle[h] EXCEPT !.cancelled = @ \/ (b /\ \E n \in Nodes : nodes[n] = h)]]
    /\ CallIf(blocked /\ ~b)

\* The ticker asks the meter (Tick), the reporter after an answer (Snapshot).
AskMeter(g) ==
    /\ metered /\ phase # "boot" /\ ~stopped /\ held[g] = Absent
    /\ held' = [held EXCEPT ![g] = verdict]
    /\ UNCHANGED <<want, happened, connVars, discoveryVars, phase, stopped, start, nodes,
                   mailboxes, handle, metered, verdict, blocked>>

UseVerdict(g) ==
    /\ held[g] # Absent
    /\ held' = [held EXCEPT ![g] = Absent]
    /\ setTrafficBlocked(held[g])
    /\ UNCHANGED <<want, happened, connVars, synced, phase, stopped, start, nodes,
                   mailboxes, metered, verdict>>

\* The panel's policy could not be applied: blocked until the next tick.
ApplyFails ==
    /\ metered /\ phase # "boot" /\ ~stopped /\ held["report"] = Absent
    /\ AnEvent
    /\ setTrafficBlocked(TRUE)
    /\ UNCHANGED <<want, connVars, synced, phase, stopped, start, nodes, mailboxes,
                   metered, verdict, held>>

VerdictTurns ==
    /\ metered /\ AnEvent
    /\ verdict' = ~verdict
    /\ UNCHANGED <<want, connVars, discoveryVars, phase, stopped, start, nodes,
                   mailboxes, handle, metered, held, blocked>>

-----------------------------------------------------------------------------
(***************************************************************************)
(* The connection and the panel (external).                                *)
(***************************************************************************)
onWSStatus ==
    /\ phase # "boot" /\ AnEvent
    /\ \/ ~online /\ online' = TRUE /\ gen' = gen + 1
       \/ online /\ online' = FALSE /\ gen' = gen
    /\ synced' = 0
    /\ rediscover
    /\ UNCHANGED <<want, phase, stopped, start, nodes, mailboxes, handle,
                   meterVars>>

\* A change of the list is pushed as sync.nodes while there is a connection.
ListChange ==
    /\ AnEvent
    /\ \E n \in Nodes, k \in Kernels \cup {Absent} :
         k # want[n] /\ want' = [want EXCEPT ![n] = k]
    /\ CallIf(online)
    /\ UNCHANGED <<connVars, synced, phase, stopped, start, nodes, mailboxes, handle,
                   meterVars>>

StarterStep(s, n) ==
    \/ startNode(s, n) \/ StartAgain(s, n) \/ Spawn(s, n)
    \/ StopLookup(s, n) \/ StopCancel(s, n) \/ StopAwait(s, n)
DiscoveryStep ==
    \/ NextRound \/ LeaveDiscovery \/ ListAnswered \/ ListFails
    \/ CompareNodes \/ RemoveNext \/ Discovered

MachineNext ==
    \/ RunBegins \/ FirstNodesStarted \/ DiscoveryTick \/ Cancel \/ stopAll
    \/ DiscoveryStep
    \/ \E s \in Starters, n \in Nodes : StarterStep(s, n)
    \/ \E h \in Handles : finishNode(h)
    \/ \E g \in {"tick", "report"} : AskMeter(g) \/ UseVerdict(g)
    \/ ApplyFails \/ VerdictTurns \/ onWSStatus \/ ListChange

MachineSpec == MachineInit /\ [][MachineNext]_machineVars

\* Goroutines go on, a cancelled service ends and tickers tick; some question
\* for the list is answered, and the answer used, before the next call, the
\* tickers being ten seconds or minutes apart.
MachineFairness ==
    /\ WF_machineVars(RunBegins \/ FirstNodesStarted) /\ WF_machineVars(stopAll)
    /\ WF_machineVars(DiscoveryTick) /\ WF_machineVars(DiscoveryStep)
    /\ SF_machineVars(~pending /\ ListAnswered) /\ SF_machineVars(~pending /\ CompareNodes)
    /\ \A s \in Starters, n \in Nodes : WF_machineVars(StarterStep(s, n))
    /\ \A h \in Handles : WF_machineVars(handle[h].cancelled /\ finishNode(h))
    /\ WF_machineVars(AskMeter("tick"))
    /\ \A g \in {"tick", "report"} : WF_machineVars(UseVerdict(g))

FairMachineSpec == MachineSpec /\ MachineFairness

-----------------------------------------------------------------------------
(***************************************************************************)
(* Properties.                                                             *)
(***************************************************************************)
\* A node never has two services, whoever starts, stops and ends it at the
\* same time: they would share its ports and its files.
OneService ==
    \A g, h \in Handles : Alive(g) /\ Alive(h) /\ handle[g].node = handle[h].node => g = h

\* While traffic protection is on no service runs that has not been told to
\* stop, also none whose start was under way.
ProtectionReachesAll == blocked => \A h \in Handles : Alive(h) => handle[h].cancelled

\* When Run has returned no service is left, also none that a discovery was
\* about to start.
NothingLeftRunning == phase = "stopped" => \A h \in Handles : ~Alive(h)

\* What holds of the services at every step of discoveries, quota and shutdown.
ServicesHold == OneService /\ ProtectionReachesAll /\ NothingLeftRunning

\* A call to discover the nodes is served without waiting for a ticker
\* (onWSEvent: "triggers immediate rediscovery").
NoLostDiscovery == pending /\ ~stopped => disc.stage # "none"

\* The services get to be those of the panel's list, with its kernels, and
\* none while the quota is used up: nothing a race has started, stopped or
\* forgotten stays so.
EventuallyAsListed ==
    <>[](stopped \/ \A n \in Nodes :
            IF verdict \/ want[n] = Absent THEN nodes[n] = Absent
            ELSE /\ nodes[n] # Absent /\ handle[nodes[n]].stage = "running"
                 /\ handle[nodes[n]].kernel = want[n] /\ ~handle[nodes[n]].cancelled)

-----------------------------------------------------------------------------
(***************************************************************************)
(* Types, and why the services hold.                                       *)
(***************************************************************************)
Lists == [Nodes -> Kernels \cup {Absent}]

MachineTypeOK ==
    /\ want \in Lists /\ happened \in 0..MaxEvents
    /\ online \in BOOLEAN /\ gen \in Nat /\ synced \in Nat /\ pending \in BOOLEAN
    /\ disc \in [stage : {"none", "swap", "ask", "got", "remove", "start", "leave"},
                  gen : Nat, list : Lists, todo : SUBSET Nodes]
    /\ phase \in {"boot", "starting", "loop", "stopped"} /\ stopped \in BOOLEAN
    /\ start \in [Starters -> [Nodes ->
                   [stage : {"no", "check", "again", "made", "stop", "cancel", "await"},
                    h : Handles \cup {Absent}, kernel : Kernels \cup {Absent}]]]
    /\ nodes \in [Nodes -> Handles \cup {Absent}]
    /\ mailboxes \in [Nodes -> Handles \cup {Absent}]
    /\ handle \in [Handles -> [stage : {"free", "made", "running"}, node : Nodes \cup {Absent},
                               kernel : Kernels \cup {Absent}, cancelled : BOOLEAN]]
    /\ metered \in BOOLEAN /\ verdict \in BOOLEAN /\ blocked \in BOOLEAN
    /\ held \in [{"tick", "report"} -> BOOLEAN \cup {Absent}]

\* A service is found in the map from its start to its end.
ServicesEntered ==
    \A h \in Handles : Alive(h) => handle[h].node \in Nodes /\ nodes[handle[h].node] = h

\* What a start or stop refers to is a handle, and a start under way is the
\* only one that will let its service run.
StartsOwnHandles ==
    \A s \in Starters, n \in Nodes :
      /\ start[s][n].stage \in {"made", "cancel", "await"} => start[s][n].h \in Handles
      /\ start[s][n].stage = "made" =>
           /\ handle[start[s][n].h].stage = "made"
           /\ \A r \in Starters, m \in Nodes :
                start[r][m].stage = "made" /\ start[r][m].h = start[s][n].h => r = s /\ m = n

\* Whoever forbids services has told those that run, and those under way.
ForbiddenAreTold == blocked \/ stopped => \A h \in Handles : Alive(h) => handle[h].cancelled

\* Before Run has begun nothing else has.
NothingBeforeRun ==
    phase = "boot" =>
      /\ ~stopped /\ ~online /\ disc.stage = "none"
      /\ \A g \in {"tick", "report"} : held[g] = Absent
      /\ \A h \in Handles : ~Alive(h)
      /\ \A s \in Starters, n \in Nodes : start[s][n].stage = "no"

MachineInv ==
    /\ ServicesEntered /\ StartsOwnHandles /\ ForbiddenAreTold /\ NothingBeforeRun
    /\ phase = "stopped" => stopped
    /\ NothingLeftRunning
=============================================================================
