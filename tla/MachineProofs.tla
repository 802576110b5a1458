--------------------------- MODULE MachineProofs ---------------------------
(***************************************************************************)
(* Theorems about the nodes of a machine, for every number of nodes,       *)
(* kernels, handles and events, and about the firewall manager their       *)
(* services share, for all nodes, ports and troubles.                      *)
(***************************************************************************)
EXTENDS Machine, Firewall, WellFoundedInduction, TLAPS

(***************************************************************************)
(* Types.                                                                  *)
(***************************************************************************)
Stages == {"no", "check", "again", "made", "stop", "cancel", "await"}
Starts == [stage : Stages, h : Handles \cup {Absent}, kernel : Kernels \cup {Absent}]
HandleStates == [stage : {"free", "made", "running"}, node : Nodes \cup {Absent},
                 kernel : Kernels \cup {Absent}, cancelled : BOOLEAN]
Discoveries == [stage : {"none", "swap", "ask", "got", "remove", "start", "leave"},
                gen : Nat, list : Lists, todo : SUBSET Nodes]

\* What the records of a machine hold when nothing is under way.
LEMMA RestTypes == Idle \in Starts /\ Free \in HandleStates /\ NoDiscovery \in Discoveries
BY DEF Idle, Starts, Stages, Free, HandleStates, NoDiscovery, Discoveries, Lists

\* startNodes puts down a start for every node of the list.
LEMMA BeginType ==
    ASSUME NEW list \in Lists, NEW stage \in Stages
    PROVE  Begin(list, stage) \in [Nodes -> Starts]
BY DEF Begin, Listed, Lists, Idle, Starts, Stages

\* rediscover marks a call and starts the loop.
LEMMA CallTypes ==
    ASSUME MachineTypeOK, NEW event \in BOOLEAN, CallIf(event)
    PROVE  pending' \in BOOLEAN /\ disc' \in Discoveries
<1>1. disc \in Discoveries /\ pending \in BOOLEAN
    BY DEF MachineTypeOK, Discoveries
<1> QED
    BY <1>1 DEF CallIf, NoCall, rediscover, Discoveries

\* A starter goes on, with or without a handle.
LEMMA GoesType ==
    ASSUME MachineTypeOK, NEW s \in Starters, NEW n \in Nodes, NEW stage \in Stages,
           NEW h \in Handles \cup {Absent}, Goes(s, n, stage, h) \/ Ends(s, n)
    PROVE  start' \in [Starters -> [Nodes -> Starts]]
<1>1. start \in [Starters -> [Nodes -> Starts]]
    BY DEF MachineTypeOK, Starts, Stages
<1>2. CASE Goes(s, n, stage, h)
  <2> DEFINE mid == [start EXCEPT ![s][n].stage = stage]
  <2>0. start[s][n] \in Starts
      BY <1>1
  <2>1. [start[s][n] EXCEPT !.stage = stage] \in Starts
      BY <2>0 DEF Starts
  <2>2. mid \in [Starters -> [Nodes -> Starts]] /\ mid[s][n] \in Starts
      BY <1>1, <2>1
  <2>3. start' = [mid EXCEPT ![s][n].h = h]
      BY <1>2 DEF Goes
  <2> HIDE DEF mid
  <2>4. [mid[s][n] EXCEPT !.h = h] \in Starts
      BY <2>2 DEF Starts
  <2> QED
      BY <2>2, <2>3, <2>4
<1>3. CASE Ends(s, n)
    BY <1>1, <1>3, RestTypes DEF Ends
<1> QED
    BY <1>2, <1>3

\* A service is entered, or not.
LEMMA InsertType ==
    ASSUME MachineTypeOK, NEW s \in Starters, NEW n \in Nodes, Insert(s, n)
    PROVE  /\ start' \in [Starters -> [Nodes -> Starts]]
           /\ nodes' \in [Nodes -> Handles \cup {Absent}]
           /\ handle' \in [Handles -> HandleStates]
<1>0. nodes \in [Nodes -> Handles \cup {Absent}] /\ handle \in [Handles -> HandleStates]
      /\ start[s][n].kernel \in Kernels \cup {Absent}
    BY DEF MachineTypeOK, HandleStates
<1>1. CASE NotStarted(s, n)
    BY <1>0, <1>1, GoesType DEF NotStarted, Stages
<1>2. CASE Enter(s, n, FALSE)
  <2> DEFINE h == CHOOSE g \in Handles : Unreferenced(g)
  <2>1. h \in Handles
      BY <1>2 DEF Enter
  <2>2. /\ handle' = [handle EXCEPT ![h] = [stage |-> "made", node |-> n,
                         kernel |-> start[s][n].kernel, cancelled |-> FALSE]]
        /\ nodes' = [nodes EXCEPT ![n] = h]
        /\ Goes(s, n, "made", h)
      BY <1>2 DEF Enter
  <2> HIDE DEF h
  <2>3. start' \in [Starters -> [Nodes -> Starts]]
      BY <2>1, <2>2, GoesType DEF Stages
  <2> QED
      BY <1>0, <2>1, <2>2, <2>3 DEF HandleStates
<1> QED
    BY <1>1, <1>2 DEF Insert

\* The steps of startNode and stopNode keep the types.
LEMMA StarterType ==
    ASSUME MachineTypeOK, NEW s \in Starters, NEW n \in Nodes, StartsOwnHandles,
           StarterStep(s, n)
    PROVE  MachineTypeOK'
<1>0. nodes[n] \in Handles \cup {Absent} /\ start[s][n].h \in Handles \cup {Absent}
    BY DEF MachineTypeOK
<1>a. start[s][n].stage \in {"made", "cancel"} => start[s][n].h \in Handles
    BY DEF StartsOwnHandles
<1>1. CASE startNode(s, n)
  <2>1. start' \in [Starters -> [Nodes -> Starts]] /\ nodes' \in [Nodes -> Handles \cup {Absent}]
        /\ handle' \in [Handles -> HandleStates]
    <3>1. CASE nodes[n] = Absent
        BY <1>1, <3>1, InsertType DEF startNode
    <3>2. CASE nodes[n] # Absent
      <4>1. Ends(s, n) \/ Goes(s, n, "stop", Absent)
          BY <1>1, <3>2 DEF startNode
      <4>2. start' \in [Starters -> [Nodes -> Starts]]
          BY <4>1, GoesType DEF Stages
      <4> QED
          BY <1>1, <3>2, <4>2 DEF startNode, MachineTypeOK, HandleStates
    <3> QED
        BY <3>1, <3>2
  <2> QED
      BY <1>1, <2>1 DEF startNode, MachineTypeOK, Starts, Stages, HandleStates, connVars,
                        discoveryVars, meterVars
<1>2. CASE StartAgain(s, n)
  <2>1. start' \in [Starters -> [Nodes -> Starts]] /\ nodes' \in [Nodes -> Handles \cup {Absent}]
        /\ handle' \in [Handles -> HandleStates]
    <3>1. CASE nodes[n] = Absent
        BY <1>2, <3>1, InsertType DEF StartAgain
    <3>2. CASE nodes[n] # Absent
        BY <1>2, <3>2, GoesType DEF StartAgain, MachineTypeOK, HandleStates, Stages
    <3> QED
        BY <3>1, <3>2
  <2> QED
      BY <1>2, <2>1 DEF StartAgain, MachineTypeOK, Starts, Stages, HandleStates, connVars,
                        discoveryVars, meterVars
<1>3. CASE Spawn(s, n)
  <2>1. start' \in [Starters -> [Nodes -> Starts]]
      BY <1>3, GoesType DEF Spawn, Stages
  <2>2. handle' \in [Handles -> HandleStates]
    <3>1. handle \in [Handles -> HandleStates] /\ start[s][n].h \in Handles
        BY <1>3, <1>a DEF Spawn, MachineTypeOK, HandleStates
    <3>2. [handle[start[s][n].h] EXCEPT !.stage = "running"] \in HandleStates
        BY <3>1 DEF HandleStates
    <3> QED
        BY <1>3, <3>1, <3>2 DEF Spawn
  <2> QED
      BY <1>0, <1>3, <2>1, <2>2 DEF Spawn, MachineTypeOK, Starts, Stages, HandleStates, connVars,
                        discoveryVars, meterVars
<1>4. CASE StopLookup(s, n)
  <2>1. start' \in [Starters -> [Nodes -> Starts]]
      BY <1>0, <1>4, GoesType DEF StopLookup, StopReturns, Stages
  <2> QED
      BY <1>4, <2>1 DEF StopLookup, MachineTypeOK, Starts, Stages, connVars,
                        discoveryVars, meterVars
<1>5. CASE StopCancel(s, n)
  <2>1. start' \in [Starters -> [Nodes -> Starts]]
      BY <1>0, <1>5, GoesType DEF StopCancel, Stages
  <2>2. handle' \in [Handles -> HandleStates]
    <3>1. handle \in [Handles -> HandleStates] /\ start[s][n].h \in Handles
        BY <1>5, <1>a DEF StopCancel, MachineTypeOK, HandleStates
    <3>2. [handle[start[s][n].h] EXCEPT !.cancelled = TRUE] \in HandleStates
        BY <3>1 DEF HandleStates
    <3> QED
        BY <1>5, <3>1, <3>2 DEF StopCancel
  <2> QED
      BY <1>5, <2>1, <2>2 DEF StopCancel, MachineTypeOK, Starts, Stages, HandleStates, connVars,
                        discoveryVars, meterVars
<1>6. CASE StopAwait(s, n)
  <2>1. start' \in [Starters -> [Nodes -> Starts]]
      BY <1>0, <1>6, GoesType DEF StopAwait, StopReturns, Stages
  <2>2. nodes' \in [Nodes -> Handles \cup {Absent}]
      BY <1>6 DEF StopAwait, MachineTypeOK
  <2> QED
      BY <1>6, <2>1, <2>2 DEF StopAwait, MachineTypeOK, Starts, Stages, connVars,
                        discoveryVars, meterVars
<1> QED
    BY <1>1, <1>2, <1>3, <1>4, <1>5, <1>6 DEF StarterStep

\* The discovery's own steps keep the types.
LEMMA DiscoveryType == MachineTypeOK /\ DiscoveryStep => MachineTypeOK'
<1> SUFFICES ASSUME MachineTypeOK, DiscoveryStep PROVE MachineTypeOK'
    OBVIOUS
<1>0. disc \in Discoveries /\ start \in [Starters -> [Nodes -> Starts]] /\ want \in Lists
      /\ gen \in Nat /\ synced \in Nat /\ "disc" \in Starters
    BY DEF MachineTypeOK, Discoveries, Starts, Stages, Starters
<1>1. disc' \in Discoveries
  <2>1. \A at \in {"swap", "ask", "leave"} : [NoDiscovery EXCEPT !.stage = at] \in Discoveries
      BY RestTypes DEF Discoveries
  <2>2. [[NoDiscovery EXCEPT !.stage = "ask"] EXCEPT !.gen = gen] \in Discoveries
      BY <1>0, RestTypes DEF Discoveries
  <2>3. CASE NextRound
      BY <2>1, <2>2, <2>3 DEF NextRound
  <2>4. CASE LeaveDiscovery \/ ListFails \/ Discovered
      BY <2>1, <2>4, RestTypes DEF LeaveDiscovery, ListFails, Discovered
  <2>5. CASE ListAnswered
      BY <1>0, <2>5 DEF ListAnswered, Discoveries
  <2>6. CASE CompareNodes
      BY <1>0, <2>1, <2>6 DEF CompareNodes, Discoveries
  <2>7. CASE RemoveNext
      BY <1>0, <2>7 DEF RemoveNext, Discoveries
  <2> QED
      BY <2>3, <2>4, <2>5, <2>6, <2>7 DEF DiscoveryStep
<1>2. start' \in [Starters -> [Nodes -> Starts]]
  <2>1. CASE RemoveNext
    <3>1. disc.list \in Lists /\ disc.todo \subseteq Nodes
        BY <1>0 DEF Discoveries
    <3>2. Begin(disc.list, "check") \in [Nodes -> Starts]
        BY <3>1, BeginType DEF Stages
    <3>3. ASSUME NEW n \in disc.todo, start' = [start EXCEPT !["disc"][n].stage = "stop"]
          PROVE  start' \in [Starters -> [Nodes -> Starts]]
      <4>1. start["disc"][n] \in Starts /\ n \in Nodes
          BY <1>0, <3>1
      <4>2. [start["disc"][n] EXCEPT !.stage = "stop"] \in Starts
          BY <4>1 DEF Starts, Stages
      <4> QED
          BY <1>0, <3>3, <4>1, <4>2
    <3> QED
        BY <1>0, <2>1, <3>2, <3>3 DEF RemoveNext
  <2>2. CASE start' = start
      BY <1>0, <2>2
  <2> QED
      BY <2>1, <2>2 DEF DiscoveryStep, NextRound, LeaveDiscovery, ListFails, Discovered,
                        ListAnswered, CompareNodes
<1>3. pending' \in BOOLEAN /\ synced' \in Nat
    BY <1>0 DEF DiscoveryStep, NextRound, LeaveDiscovery, ListFails, Discovered,
                ListAnswered, CompareNodes, RemoveNext, MachineTypeOK
<1>4. UNCHANGED <<want, happened, online, gen, phase, stopped, nodes, mailboxes, handle, metered,
                  verdict, held, blocked>>
    BY DEF DiscoveryStep, NextRound, LeaveDiscovery, ListFails, Discovered, ListAnswered,
           CompareNodes, RemoveNext, connVars, meterVars
<1> QED
    BY <1>1, <1>2, <1>3, <1>4 DEF MachineTypeOK, Discoveries, Starts, Stages

\* The end of a service keeps the types.
LEMMA FinishType ==
    ASSUME MachineTypeOK, NEW h \in Handles, finishNode(h)
    PROVE  MachineTypeOK'
<1>1. nodes' \in [Nodes -> Handles \cup {Absent}] /\ mailboxes' \in [Nodes -> Handles \cup {Absent}]
    BY DEF finishNode, Removed, MachineTypeOK
<1>2. handle' \in [Handles -> HandleStates]
    BY RestTypes DEF finishNode, MachineTypeOK, HandleStates
<1>3. pending' \in BOOLEAN /\ disc' \in Discoveries
  <2>1. PICK err \in BOOLEAN : CallIf(~err /\ metered /\ ~blocked /\ ~stopped)
      BY DEF finishNode
  <2>2. (~err /\ metered /\ ~blocked /\ ~stopped) \in BOOLEAN
      OBVIOUS
  <2> QED
      BY <2>1, <2>2, CallTypes
<1>4. happened' \in 0..MaxEvents
    BY MachineAssumption DEF finishNode, AnEvent, MachineTypeOK
<1> QED
    BY <1>1, <1>2, <1>3, <1>4 DEF finishNode, MachineTypeOK, HandleStates, Discoveries, connVars,
                                  meterVars

\* Run's own steps keep the types.
LEMMA RunTypes ==
    ASSUME MachineTypeOK, RunBegins \/ FirstNodesStarted \/ DiscoveryTick \/ Cancel \/ stopAll
    PROVE  MachineTypeOK'
<1>1. CASE RunBegins
  <2>1. start' \in [Starters -> [Nodes -> Starts]]
    <3>1. Begin(want, "check") \in [Nodes -> Starts]
        BY BeginType DEF MachineTypeOK, Stages
    <3> QED
        BY <1>1, <3>1 DEF RunBegins, MachineTypeOK, Starts, Stages
  <2> QED
      BY <1>1, <2>1 DEF RunBegins, MachineTypeOK, Starts, Stages, connVars, discoveryVars
<1>2. CASE FirstNodesStarted \/ stopAll
    BY <1>2 DEF FirstNodesStarted, stopAll, MachineTypeOK, connVars, discoveryVars, meterVars
<1>3. CASE DiscoveryTick
  <2>1. pending' \in BOOLEAN /\ disc' \in Discoveries
      BY <1>3, CallTypes DEF DiscoveryTick, CallIf
  <2> QED
      BY <1>3, <2>1 DEF DiscoveryTick, MachineTypeOK, Discoveries, connVars, meterVars
<1>4. CASE Cancel
  <2>1. handle' \in [Handles -> HandleStates]
    <3>1. ASSUME NEW h \in Handles
          PROVE  [handle[h] EXCEPT !.cancelled = @ \/ Alive(h)] \in HandleStates
      <4>1. handle[h] \in HandleStates /\ Alive(h) \in BOOLEAN
          BY DEF MachineTypeOK, HandleStates, Alive
      <4> QED
          BY <4>1 DEF HandleStates
    <3> QED
        BY <1>4, <3>1 DEF Cancel
  <2> QED
      BY <1>4, <2>1 DEF Cancel, MachineTypeOK, HandleStates, connVars, discoveryVars, meterVars
<1> QED
    BY <1>1, <1>2, <1>3, <1>4

\* setTrafficBlocked keeps the types.
LEMMA BlockType ==
    ASSUME MachineTypeOK, NEW b \in BOOLEAN, setTrafficBlocked(b)
    PROVE  /\ blocked' \in BOOLEAN /\ handle' \in [Handles -> HandleStates]
           /\ pending' \in BOOLEAN /\ disc' \in Discoveries
<1>1. ASSUME NEW h \in Handles
      PROVE  [handle[h] EXCEPT !.cancelled = @ \/ (b /\ \E n \in Nodes : nodes[n] = h)] \in HandleStates
  <2>1. handle[h] \in HandleStates
      BY DEF MachineTypeOK, HandleStates
  <2> QED
      BY <2>1 DEF HandleStates
<1>2. (blocked /\ ~b) \in BOOLEAN
    OBVIOUS
<1>3. pending' \in BOOLEAN /\ disc' \in Discoveries
    BY <1>2, CallTypes DEF setTrafficBlocked
<1> QED
    BY <1>1, <1>3 DEF setTrafficBlocked

\* The meter's verdict, the connection and the panel's list keep the types.
LEMMA OutsideType ==
    ASSUME MachineTypeOK,
           \/ \E g \in {"tick", "report"} : AskMeter(g) \/ UseVerdict(g)
           \/ ApplyFails \/ VerdictTurns \/ onWSStatus \/ ListChange
    PROVE  MachineTypeOK'
<1>1. ASSUME NEW g \in {"tick", "report"}, AskMeter(g) PROVE MachineTypeOK'
    BY <1>1 DEF AskMeter, MachineTypeOK, connVars, discoveryVars
<1>2. ASSUME NEW g \in {"tick", "report"}, UseVerdict(g) PROVE MachineTypeOK'
  <2>1. held[g] \in BOOLEAN
      BY <1>2 DEF UseVerdict, MachineTypeOK
  <2>2. /\ blocked' \in BOOLEAN /\ handle' \in [Handles -> HandleStates]
        /\ pending' \in BOOLEAN /\ disc' \in Discoveries
      BY <1>2, <2>1, BlockType DEF UseVerdict
  <2>3. held' \in [{"tick", "report"} -> BOOLEAN \cup {Absent}]
      BY <1>2 DEF UseVerdict, MachineTypeOK
  <2> QED
      BY <1>2, <2>2, <2>3 DEF UseVerdict, MachineTypeOK, HandleStates, Discoveries, connVars
<1>3. CASE ApplyFails
  <2>1. /\ blocked' \in BOOLEAN /\ handle' \in [Handles -> HandleStates]
        /\ pending' \in BOOLEAN /\ disc' \in Discoveries
      BY <1>3, BlockType DEF ApplyFails
  <2>2. happened' \in 0..MaxEvents
      BY <1>3, MachineAssumption DEF ApplyFails, AnEvent, MachineTypeOK
  <2> QED
      BY <1>3, <2>1, <2>2 DEF ApplyFails, MachineTypeOK, HandleStates, Discoveries, connVars
<1>4. CASE VerdictTurns
  <2>1. happened' \in 0..MaxEvents
      BY <1>4, MachineAssumption DEF VerdictTurns, AnEvent, MachineTypeOK
  <2> QED
      BY <1>4, <2>1 DEF VerdictTurns, MachineTypeOK, connVars, discoveryVars
<1>5. CASE onWSStatus
  <2>1. pending' \in BOOLEAN /\ disc' \in Discoveries
      BY <1>5, CallTypes DEF onWSStatus, CallIf
  <2>2. happened' \in 0..MaxEvents
      BY <1>5, MachineAssumption DEF onWSStatus, AnEvent, MachineTypeOK
  <2>3. online' \in BOOLEAN
      BY <1>5 DEF onWSStatus
  <2>4. gen' \in Nat /\ synced' = 0
      BY <1>5 DEF onWSStatus, MachineTypeOK
  <2> QED
      BY <1>5, <2>1, <2>2, <2>3, <2>4 DEF onWSStatus, MachineTypeOK, Discoveries, meterVars
<1>6. CASE ListChange
  <2>1. pending' \in BOOLEAN /\ disc' \in Discoveries
      BY <1>6, CallTypes DEF ListChange, MachineTypeOK
  <2>2. happened' \in 0..MaxEvents /\ want' \in Lists
      BY <1>6, MachineAssumption DEF ListChange, AnEvent, MachineTypeOK, Lists
  <2> QED
      BY <1>6, <2>1, <2>2 DEF ListChange, MachineTypeOK, Discoveries, connVars, meterVars
<1> QED
    BY <1>1, <1>2, <1>3, <1>4, <1>5, <1>6

\* A machine begins with nothing but the panel's list.
LEMMA InitType == MachineInit => MachineTypeOK
<1> SUFFICES ASSUME MachineInit PROVE MachineTypeOK
    OBVIOUS
<1>1. metered \in BOOLEAN /\ verdict \in BOOLEAN /\ online \in BOOLEAN /\ pending \in BOOLEAN
      /\ stopped \in BOOLEAN /\ blocked \in BOOLEAN
    BY Zenon DEF MachineInit
<1>2. disc \in Discoveries /\ start \in [Starters -> [Nodes -> Starts]]
      /\ handle \in [Handles -> HandleStates]
    BY RestTypes DEF MachineInit
<1>3. /\ want \in Lists /\ happened \in 0..MaxEvents /\ gen \in Nat /\ synced \in Nat
      /\ phase = "boot" /\ nodes \in [Nodes -> Handles \cup {Absent}]
      /\ mailboxes \in [Nodes -> Handles \cup {Absent}]
      /\ held \in [{"tick", "report"} -> BOOLEAN \cup {Absent}]
    BY MachineAssumption DEF MachineInit, Lists
<1> QED
    BY <1>1, <1>2, <1>3 DEF MachineTypeOK, Starts, Stages, HandleStates, Discoveries

\* No step leaves the types.
LEMMA MachineTypeStep ==
    MachineTypeOK /\ StartsOwnHandles /\ [MachineNext]_machineVars => MachineTypeOK'
<1> SUFFICES ASSUME MachineTypeOK, StartsOwnHandles, [MachineNext]_machineVars
             PROVE  MachineTypeOK'
    OBVIOUS
<1>1. CASE UNCHANGED machineVars
    BY <1>1 DEF machineVars, MachineTypeOK
<1> QED
    BY <1>1, DiscoveryType, StarterType, FinishType, RunTypes, OutsideType DEF MachineNext

-----------------------------------------------------------------------------
(***************************************************************************)
(* The services.  Most steps are calm: they let services end or tell them  *)
(* to, and start none.                                                     *)
(***************************************************************************)
\* Nothing new is begun before Run.
QuietBoot == phase' = "boot" => phase = "boot" /\ UNCHANGED <<stopped, online, disc, held, start>>

\* No start goes on to run its service; what it refers to is a handle.
CalmStarts ==
    \A s \in Starters, n \in Nodes :
      \/ start'[s][n] = start[s][n]
      \/ /\ start'[s][n].stage # "made"
         /\ start'[s][n].stage \in {"cancel", "await"} => start'[s][n].h \in Handles

\* Services end or are told to, and those that go on are still in the map.
CalmHandles ==
    /\ \A h \in Handles :
         /\ handle[h].stage = "made" => handle'[h].stage = "made"
         /\ handle'[h].stage # "free" =>
              /\ handle'[h].stage = handle[h].stage /\ handle'[h].node = handle[h].node
              /\ handle[h].cancelled => handle'[h].cancelled
              /\ nodes[handle[h].node] = h => nodes'[handle[h].node] = h

\* Who begins to forbid services tells them, and Run ends with none left.
CalmOrders ==
    /\ stopped => stopped'
    /\ blocked' \/ stopped' =>
         \/ blocked \/ stopped
         \/ \A h \in Handles : handle'[h].stage # "free" => handle'[h].cancelled
    /\ phase' = "stopped" => phase = "stopped" \/ (stopped /\ \A n \in Nodes : nodes[n] = Absent)

\* A calm step keeps what holds of the services.
LEMMA CalmStep ==
    ASSUME MachineTypeOK, MachineTypeOK', MachineInv,
           QuietBoot, CalmStarts, CalmHandles, CalmOrders
    PROVE  MachineInv'
<1>0. \A h \in Handles : /\ Alive(h) <=> handle[h].stage # "free"
                         /\ Alive(h)' <=> handle'[h].stage # "free"
    BY DEF Alive, MachineTypeOK
<1>1. \A h \in Handles : Alive(h)' => Alive(h)
    BY <1>0 DEF CalmHandles
<1>2. ServicesEntered'
    BY <1>0, <1>1 DEF ServicesEntered, MachineInv, CalmHandles
<1>3. StartsOwnHandles'
  <2>1. ASSUME NEW s \in Starters, NEW n \in Nodes, start'[s][n].stage = "made"
        PROVE  start'[s][n] = start[s][n]
      BY <2>1 DEF CalmStarts
  <2>2. \A s \in Starters, n \in Nodes :
          start'[s][n].stage \in {"made", "cancel", "await"} => start'[s][n].h \in Handles
      BY DEF CalmStarts, StartsOwnHandles, MachineInv
  <2>3. ASSUME NEW s \in Starters, NEW n \in Nodes, start'[s][n].stage = "made"
        PROVE  handle'[start'[s][n].h].stage = "made"
      BY <2>1, <2>2, <2>3 DEF CalmHandles, StartsOwnHandles, MachineInv
  <2>4. ASSUME NEW s \in Starters, NEW n \in Nodes, NEW r \in Starters, NEW m \in Nodes,
               start'[s][n].stage = "made", start'[r][m].stage = "made",
               start'[r][m].h = start'[s][n].h
        PROVE  r = s /\ m = n
      BY <2>1, <2>4 DEF StartsOwnHandles, MachineInv
  <2> QED
      BY <2>2, <2>3, <2>4 DEF StartsOwnHandles
<1>4. ForbiddenAreTold'
    BY <1>0, <1>1 DEF ForbiddenAreTold, MachineInv, CalmHandles, CalmOrders
<1>5. NothingBeforeRun'
    BY <1>1 DEF NothingBeforeRun, MachineInv, QuietBoot
<1>6. (phase = "stopped" => stopped)'
    BY DEF MachineInv, CalmOrders
<1>7. NothingLeftRunning'
  <2>1. CASE phase = "stopped"
      BY <1>1, <2>1 DEF NothingLeftRunning, MachineInv
  <2>2. CASE stopped /\ \A n \in Nodes : nodes[n] = Absent
    <3>1. \A h \in Handles : ~Alive(h)
        BY <2>2, MachineAssumption DEF ServicesEntered, MachineInv
    <3> QED
        BY <1>1, <3>1 DEF NothingLeftRunning
  <2> QED
      BY <2>1, <2>2 DEF NothingLeftRunning, CalmOrders
<1> QED
    BY <1>2, <1>3, <1>4, <1>5, <1>6, <1>7 DEF MachineInv

\* What a starter's next stage leaves of all the starts.
LEMMA GoesEffect ==
    ASSUME MachineTypeOK, NEW s \in Starters, NEW n \in Nodes, NEW stage \in Stages,
           NEW h \in Handles \cup {Absent}, Goes(s, n, stage, h)
    PROVE  /\ start'[s][n].stage = stage /\ start'[s][n].h = h
           /\ \A r \in Starters, m \in Nodes : r # s \/ m # n => start'[r][m] = start[r][m]
<1>1. start \in [Starters -> [Nodes -> Starts]]
    BY DEF MachineTypeOK, Starts, Stages
<1> DEFINE mid == [start EXCEPT ![s][n].stage = stage]
<1>2. start[s][n] \in Starts
    BY <1>1
<1>3. [start[s][n] EXCEPT !.stage = stage] \in Starts
    BY <1>2 DEF Starts
<1>4. /\ mid \in [Starters -> [Nodes -> Starts]] /\ mid[s][n] \in Starts
      /\ mid[s][n] = [start[s][n] EXCEPT !.stage = stage]
      /\ \A r \in Starters, m \in Nodes : r # s \/ m # n => mid[r][m] = start[r][m]
    BY <1>1, <1>3
<1>5. start' = [mid EXCEPT ![s][n].h = h]
    BY DEF Goes
<1>6. mid[s][n].stage = stage
    BY <1>2, <1>4 DEF Starts
<1> HIDE DEF mid
<1>7. /\ start'[s][n] = [mid[s][n] EXCEPT !.h = h]
      /\ \A r \in Starters, m \in Nodes : r # s \/ m # n => start'[r][m] = mid[r][m]
    BY <1>4, <1>5
<1>8. start'[s][n].stage = stage /\ start'[s][n].h = h
    BY <1>4, <1>6, <1>7 DEF Starts
<1> QED
    BY <1>4, <1>7, <1>8

\* A starter that is through refers to nothing.
LEMMA EndsEffect ==
    ASSUME MachineTypeOK, NEW s \in Starters, NEW n \in Nodes, Ends(s, n)
    PROVE  /\ start'[s][n].stage = "no" /\ start'[s][n].h = Absent
           /\ \A r \in Starters, m \in Nodes : r # s \/ m # n => start'[r][m] = start[r][m]
BY DEF Ends, Idle, MachineTypeOK

\* Steps that touch no service and no order.
LEMMA Untouched ==
    ASSUME MachineTypeOK, UNCHANGED <<nodes, handle, stopped, blocked>>,
           phase' = "stopped" => phase = "stopped"
    PROVE  CalmHandles /\ CalmOrders
<1>1. CalmHandles
    BY DEF CalmHandles, MachineTypeOK
<1>2. CalmOrders
    BY DEF CalmOrders
<1> QED
    BY <1>1, <1>2

\* The discovery only decides what the starters do (rediscoverOnce).
LEMMA DiscoveryKept ==
    ASSUME MachineTypeOK, MachineTypeOK', MachineInv, DiscoveryStep
    PROVE  MachineInv'
<1>1. /\ UNCHANGED <<nodes, handle, stopped, blocked, phase, online, held>>
      /\ disc.stage # "none"
    BY DEF DiscoveryStep, NextRound, LeaveDiscovery, ListFails, Discovered,
           ListAnswered, CompareNodes, RemoveNext, connVars, meterVars
<1>2. phase # "boot"
    BY <1>1 DEF MachineInv, NothingBeforeRun
<1>3. QuietBoot
    BY <1>1, <1>2 DEF QuietBoot
<1>4. CalmStarts
  <2>1. CASE RemoveNext
    <3>1. disc.list \in Lists /\ disc.todo \subseteq Nodes /\ "disc" \in Starters
        BY DEF MachineTypeOK, Starters
    <3>2. CASE start' = [start EXCEPT !["disc"] = Begin(disc.list, "check")]
      <4>1. \A n \in Nodes : Begin(disc.list, "check")[n].stage \in {"check", "no"}
          BY DEF Begin, Idle
      <4> QED
          BY <3>1, <3>2, <4>1 DEF CalmStarts, MachineTypeOK
    <3>3. ASSUME NEW k \in disc.todo, start' = [start EXCEPT !["disc"][k].stage = "stop"]
          PROVE  CalmStarts
        BY <3>1, <3>3 DEF CalmStarts, MachineTypeOK
    <3> QED
        BY <2>1, <3>2, <3>3 DEF RemoveNext
  <2>2. CASE start' = start
      BY <2>2 DEF CalmStarts
  <2> QED
      BY <2>1, <2>2 DEF DiscoveryStep, NextRound, LeaveDiscovery, ListFails, Discovered,
                        ListAnswered, CompareNodes
<1> QED
    BY <1>1, <1>3, <1>4, Untouched, CalmStep

\* startNode and stopNode, but for the two steps that begin a service.
LEMMA StopKept ==
    ASSUME MachineTypeOK, MachineTypeOK', MachineInv, NEW s \in Starters, NEW n \in Nodes,
           \/ StopLookup(s, n) \/ StopCancel(s, n) \/ StopAwait(s, n)
           \/ (startNode(s, n) \/ StartAgain(s, n)) /\ UNCHANGED <<nodes, handle>>
    PROVE  MachineInv'
<1>1. UNCHANGED <<stopped, blocked, phase, online, disc, held>> /\ start[s][n].stage # "no"
    BY DEF StopLookup, StopCancel, StopAwait, startNode, StartAgain, connVars, discoveryVars,
           meterVars
<1>2. QuietBoot
    BY <1>1 DEF QuietBoot, MachineInv, NothingBeforeRun
<1>3. CalmOrders
    BY <1>1 DEF CalmOrders
<1>4. start[s][n].stage = "cancel" => start[s][n].h \in Handles
    BY DEF MachineInv, StartsOwnHandles
<1>5. CalmStarts
  <2>1. ASSUME NEW stage \in Stages, NEW h \in Handles \cup {Absent}, Goes(s, n, stage, h),
               stage # "made", stage \in {"cancel", "await"} => h \in Handles
        PROVE  CalmStarts
      BY <2>1, GoesEffect DEF CalmStarts
  <2>2. Ends(s, n) => CalmStarts
      BY EndsEffect DEF CalmStarts
  <2>3. CASE StopLookup(s, n)
    <3>1. nodes[n] # Absent => nodes[n] \in Handles
        BY DEF MachineTypeOK
    <3> QED
        BY <2>1, <2>2, <2>3, <3>1 DEF StopLookup, StopReturns, Stages
  <2>4. CASE StopCancel(s, n)
      BY <1>4, <2>1, <2>4 DEF StopCancel, Stages
  <2>5. CASE StopAwait(s, n)
      BY <2>1, <2>2, <2>5 DEF StopAwait, StopReturns, Stages
  <2>6. CASE startNode(s, n) /\ UNCHANGED <<nodes, handle>>
    <3>1. CASE nodes[n] = Absent
      <4>1. Insert(s, n)
          BY <2>6, <3>1 DEF startNode
      <4>2. ~Enter(s, n, FALSE)
          BY <2>6, <3>1, MachineAssumption DEF Enter, MachineTypeOK
      <4> QED
          BY <2>2, <4>1, <4>2 DEF Insert, NotStarted
    <3>2. CASE nodes[n] # Absent
        BY <2>1, <2>2, <2>6, <3>2 DEF startNode, Stages
    <3> QED
        BY <3>1, <3>2
  <2>7. CASE StartAgain(s, n) /\ UNCHANGED <<nodes, handle>>
    <3>1. CASE nodes[n] = Absent
      <4>1. Insert(s, n)
          BY <2>7, <3>1 DEF StartAgain
      <4>2. ~Enter(s, n, FALSE)
          BY <2>7, <3>1, MachineAssumption DEF Enter, MachineTypeOK
      <4> QED
          BY <2>2, <4>1, <4>2 DEF Insert, NotStarted
    <3>2. CASE nodes[n] # Absent
        BY <2>2, <2>7, <3>2 DEF StartAgain
    <3> QED
        BY <3>1, <3>2
  <2> QED
      BY <2>3, <2>4, <2>5, <2>6, <2>7
<1>6. CalmHandles
  <2>1. CASE StopCancel(s, n)
    <3>1. /\ UNCHANGED nodes
          /\ handle' = [handle EXCEPT ![start[s][n].h].cancelled = TRUE]
          /\ start[s][n].h \in Handles
        BY <1>4, <2>1 DEF StopCancel
    <3>2. \A h \in Handles :
             /\ handle'[h].stage = handle[h].stage /\ handle'[h].node = handle[h].node
             /\ handle[h].cancelled => handle'[h].cancelled
        BY <3>1 DEF MachineTypeOK, HandleStates
    <3> QED
        BY <3>1, <3>2 DEF CalmHandles
  <2>2. CASE StopAwait(s, n)
    <3>1. /\ UNCHANGED handle
          /\ nodes' = [nodes EXCEPT ![n] = IF @ = start[s][n].h THEN Absent ELSE @]
          /\ handle[start[s][n].h].stage = "free"
        BY <2>2 DEF StopAwait
    <3>2. ASSUME NEW h \in Handles, handle[h].stage # "free", nodes[handle[h].node] = h
          PROVE  nodes'[handle[h].node] = h
        BY <3>1, <3>2 DEF MachineTypeOK
    <3> QED
        BY <3>1, <3>2 DEF CalmHandles
  <2>3. CASE UNCHANGED <<nodes, handle>>
      BY <2>3 DEF CalmHandles
  <2> QED
      BY <2>1, <2>2, <2>3 DEF StopLookup
<1> QED
    BY <1>2, <1>3, <1>5, <1>6, CalmStep

\* A service is entered under the lock: the entry is free, nobody refers to
\* the handle, and nothing forbids the node (startNode).
LEMMA EnterKept ==
    ASSUME MachineTypeOK, MachineTypeOK', MachineInv, NEW s \in Starters, NEW n \in Nodes,
           nodes[n] = Absent, ~blocked, ~stopped, Enter(s, n, FALSE),
           UNCHANGED <<phase, stopped, blocked, online, disc, held>>,
           start[s][n].stage # "no"
    PROVE  MachineInv'
<1> DEFINE h == CHOOSE g \in Handles : Unreferenced(g)
<1>1. /\ h \in Handles /\ Unreferenced(h)
      /\ handle' = [handle EXCEPT ![h] = [stage |-> "made", node |-> n,
                         kernel |-> start[s][n].kernel, cancelled |-> FALSE]]
      /\ nodes' = [nodes EXCEPT ![n] = h]
      /\ Goes(s, n, "made", h)
    BY DEF Enter
<1> HIDE DEF h
<1>2. /\ handle[h].stage = "free"
      /\ \A r \in Starters, m \in Nodes : start[r][m].h # h
    BY <1>1 DEF Unreferenced
<1>3. /\ handle'[h].stage = "made" /\ handle'[h].node = n
      /\ \A g \in Handles : g # h => handle'[g] = handle[g]
      /\ nodes'[n] = h /\ \A m \in Nodes : m # n => nodes'[m] = nodes[m]
    BY <1>1 DEF MachineTypeOK
<1>4. /\ start'[s][n].stage = "made" /\ start'[s][n].h = h
      /\ \A r \in Starters, m \in Nodes : r # s \/ m # n => start'[r][m] = start[r][m]
    BY <1>1, GoesEffect DEF Stages
<1>5. ServicesEntered'
  <2>1. ASSUME NEW g \in Handles, g # h, Alive(g)'
        PROVE  handle'[g].node \in Nodes /\ nodes'[handle'[g].node] = g
    <3>1. Alive(g) /\ handle'[g] = handle[g]
        BY <1>3, <2>1 DEF Alive
    <3>2. handle[g].node \in Nodes /\ nodes[handle[g].node] = g
        BY <3>1 DEF MachineInv, ServicesEntered
    <3>3. handle[g].node # n
        BY <3>2, MachineAssumption
    <3> QED
        BY <1>3, <3>1, <3>2, <3>3
  <2> QED
      BY <1>3, <2>1 DEF ServicesEntered
<1>6. StartsOwnHandles'
  <2>1. ASSUME NEW r \in Starters, NEW m \in Nodes, r # s \/ m # n
        PROVE  /\ start'[r][m] = start[r][m] /\ start[r][m].h # h
               /\ start[r][m].stage \in {"made", "cancel", "await"} => start[r][m].h \in Handles
               /\ start[r][m].stage = "made" => handle'[start[r][m].h].stage = "made"
    <3>1. /\ start[r][m].stage \in {"made", "cancel", "await"} => start[r][m].h \in Handles
          /\ start[r][m].stage = "made" => handle[start[r][m].h].stage = "made"
        BY DEF MachineInv, StartsOwnHandles
    <3> QED
        BY <1>2, <1>3, <1>4, <2>1, <3>1
  <2>2. \A r \in Starters, m \in Nodes : \A q \in Starters, k \in Nodes :
          (r # s \/ m # n) /\ (q # s \/ k # n) /\ start[r][m].stage = "made"
          /\ start[q][k].stage = "made" /\ start[q][k].h = start[r][m].h => q = r /\ k = m
      BY DEF MachineInv, StartsOwnHandles
  <2> QED
      BY <1>1, <1>3, <1>4, <2>1, <2>2 DEF StartsOwnHandles
<1>7. ForbiddenAreTold'
    BY DEF ForbiddenAreTold
<1>8. phase # "boot" /\ phase # "stopped"
    BY DEF MachineInv, NothingBeforeRun
<1> QED
    BY <1>5, <1>6, <1>7, <1>8 DEF MachineInv, NothingBeforeRun, NothingLeftRunning

\* The configuration was fetched or could not be, and the service runs.
LEMMA SpawnKept ==
    ASSUME MachineTypeOK, MachineTypeOK', MachineInv, NEW s \in Starters, NEW n \in Nodes,
           Spawn(s, n)
    PROVE  MachineInv'
<1> DEFINE h == start[s][n].h
<1>1. /\ h \in Handles /\ handle[h].stage = "made"
      /\ \A r \in Starters, m \in Nodes :
           start[r][m].stage = "made" /\ start[r][m].h = h => r = s /\ m = n
      /\ start[s][n].stage = "made"
    BY DEF Spawn, MachineInv, StartsOwnHandles
<1>2. /\ handle' = [handle EXCEPT ![h].stage = "running"] /\ Ends(s, n)
      /\ UNCHANGED <<nodes, phase, stopped, blocked, online, disc, held>>
    BY DEF Spawn, connVars, discoveryVars, meterVars
<1>3. /\ start'[s][n].stage = "no"
      /\ \A r \in Starters, m \in Nodes : r # s \/ m # n => start'[r][m] = start[r][m]
    BY <1>2, EndsEffect
<1> HIDE DEF h
<1>4. /\ handle'[h].stage = "running" /\ handle'[h].node = handle[h].node
      /\ handle'[h].cancelled = handle[h].cancelled
      /\ \A g \in Handles : g # h => handle'[g] = handle[g]
    BY <1>1, <1>2 DEF MachineTypeOK
<1>5. \A g \in Handles : /\ Alive(g)' <=> Alive(g)
                         /\ handle'[g].node = handle[g].node
                         /\ handle'[g].cancelled = handle[g].cancelled
    BY <1>1, <1>4 DEF Alive
<1>6. ServicesEntered'
    BY <1>2, <1>5 DEF ServicesEntered, MachineInv
<1>7. StartsOwnHandles'
  <2>1. ASSUME NEW r \in Starters, NEW m \in Nodes, start'[r][m].stage = "made"
        PROVE  start'[r][m] = start[r][m] /\ start[r][m].h # h /\ start[r][m].h \in Handles
               /\ handle[start[r][m].h].stage = "made"
      BY <1>1, <1>3, <2>1 DEF MachineInv, StartsOwnHandles
  <2>2. \A r \in Starters, m \in Nodes :
          start'[r][m].stage \in {"made", "cancel", "await"} => start'[r][m].h \in Handles
      BY <1>3 DEF MachineInv, StartsOwnHandles
  <2>3. \A r \in Starters, m \in Nodes :
          start'[r][m].stage = "made" => handle'[start'[r][m].h].stage = "made"
      BY <1>4, <2>1
  <2>4. \A r \in Starters, m \in Nodes : \A q \in Starters, k \in Nodes :
          start'[r][m].stage = "made" /\ start'[q][k].stage = "made"
          /\ start'[q][k].h = start'[r][m].h => q = r /\ k = m
      BY <2>1 DEF MachineInv, StartsOwnHandles
  <2> QED
      BY <2>2, <2>3, <2>4 DEF StartsOwnHandles
<1>8. ForbiddenAreTold'
    BY <1>2, <1>5 DEF ForbiddenAreTold, MachineInv
<1>9. phase # "boot"
    BY <1>1 DEF MachineInv, NothingBeforeRun
<1> QED
    BY <1>2, <1>5, <1>6, <1>7, <1>8, <1>9 DEF MachineInv, NothingBeforeRun, NothingLeftRunning

\* startNode and stopNode.
LEMMA StarterKept ==
    ASSUME MachineTypeOK, MachineTypeOK', MachineInv, NEW s \in Starters, NEW n \in Nodes,
           StarterStep(s, n)
    PROVE  MachineInv'
<1>1. ASSUME startNode(s, n) \/ StartAgain(s, n), nodes[n] = Absent, Insert(s, n)
      PROVE  MachineInv'
  <2>1. CASE NotStarted(s, n)
      BY <1>1, <2>1, StopKept DEF NotStarted
  <2>2. CASE ~blocked /\ ~stopped /\ Enter(s, n, FALSE)
    <3>1. UNCHANGED <<phase, stopped, blocked, online, disc, held>> /\ start[s][n].stage # "no"
        BY <1>1 DEF startNode, StartAgain, connVars, discoveryVars, meterVars
    <3> QED
        BY <1>1, <2>2, <3>1, EnterKept
  <2> QED
      BY <1>1, <2>1, <2>2 DEF Insert
<1>2. CASE startNode(s, n)
    BY <1>1, <1>2, StopKept DEF startNode
<1>3. CASE StartAgain(s, n)
    BY <1>1, <1>3, StopKept DEF StartAgain
<1> QED
    BY <1>2, <1>3, StopKept, SpawnKept DEF StarterStep

\* A service ends: only its own entry goes (finishNode).
LEMMA FinishKept ==
    ASSUME MachineTypeOK, MachineTypeOK', MachineInv, NEW h \in Handles, finishNode(h)
    PROVE  MachineInv'
<1>1. /\ handle[h].stage = "running" /\ handle' = [handle EXCEPT ![h] = Free]
      /\ nodes' = Removed(h) /\ UNCHANGED <<phase, stopped, blocked, online, start, held>>
    BY DEF finishNode, connVars, meterVars
<1>2. phase # "boot"
    BY <1>1 DEF MachineInv, NothingBeforeRun, Alive
<1>3. QuietBoot /\ CalmStarts /\ CalmOrders
    BY <1>1, <1>2 DEF QuietBoot, CalmStarts, CalmOrders
<1>4. CalmHandles
  <2>1. handle'[h].stage = "free" /\ \A g \in Handles : g # h => handle'[g] = handle[g]
      BY <1>1 DEF Free, MachineTypeOK
  <2>2. ASSUME NEW g \in Handles, g # h, nodes[handle[g].node] = g, handle[g].stage # "free"
        PROVE  nodes'[handle[g].node] = g
    <3>1. handle[g].node \in Nodes
        BY <2>2 DEF MachineInv, ServicesEntered, Alive, MachineTypeOK
    <3> QED
        BY <1>1, <2>2, <3>1 DEF Removed, MachineTypeOK
  <2> QED
      BY <1>1, <2>1, <2>2 DEF CalmHandles
<1> QED
    BY <1>3, <1>4, CalmStep

\* A cancelled context, or the quota, reaches whatever is in the map.
LEMMA TellKept ==
    ASSUME MachineTypeOK, MachineTypeOK', MachineInv, QuietBoot, CalmStarts,
           UNCHANGED nodes, stopped => stopped', phase' = "stopped" => phase = "stopped",
           \A h \in Handles : /\ handle'[h].stage = handle[h].stage
                              /\ handle'[h].node = handle[h].node
                              /\ handle[h].cancelled => handle'[h].cancelled,
           (blocked' /\ ~blocked) \/ (stopped' /\ ~stopped) =>
             \A h \in Handles : Alive(h) => handle'[h].cancelled
    PROVE  MachineInv'
<1>1. CalmHandles
    BY Zenon DEF CalmHandles
<1>2. CalmOrders
  <2>1. \A h \in Handles : handle'[h].stage # "free" => Alive(h)
      BY DEF Alive, MachineTypeOK
  <2>2. blocked' \/ stopped' => blocked \/ stopped \/ (blocked' /\ ~blocked) \/ (stopped' /\ ~stopped)
      OBVIOUS
  <2> QED
      BY <2>1, <2>2, Zenon DEF CalmOrders
<1> QED
    BY <1>1, <1>2, CalmStep

\* Run's own steps: its begin with the meter's verdict, and its end.
LEMMA RunKept ==
    ASSUME MachineTypeOK, MachineTypeOK', MachineInv,
           RunBegins \/ FirstNodesStarted \/ DiscoveryTick \/ Cancel \/ stopAll
    PROVE  MachineInv'
<1>1. CASE RunBegins
  <2>1. \A h \in Handles : ~Alive(h)
      BY <1>1 DEF RunBegins, MachineInv, NothingBeforeRun
  <2>2. QuietBoot
      BY <1>1 DEF RunBegins, QuietBoot
  <2>3. CalmStarts
    <3>1. /\ start' = [start EXCEPT !["main"] = Begin(want, "check")]
          /\ "main" \in Starters
          /\ \A n \in Nodes : Begin(want, "check")[n].stage \in {"check", "no"}
        BY <1>1 DEF RunBegins, Begin, Idle, Starters
    <3> QED
        BY <3>1 DEF CalmStarts, MachineTypeOK
  <2>4. UNCHANGED <<nodes, handle, stopped>> /\ phase' = "starting"
      BY <1>1 DEF RunBegins
  <2> QED
      BY <2>1, <2>2, <2>3, <2>4, TellKept
<1>2. CASE FirstNodesStarted
  <2>1. QuietBoot /\ CalmStarts
      BY <1>2 DEF FirstNodesStarted, QuietBoot, CalmStarts
  <2> QED
      BY <1>2, <2>1, Untouched, CalmStep DEF FirstNodesStarted, meterVars
<1>3. CASE DiscoveryTick
  <2>1. QuietBoot /\ CalmStarts
      BY <1>3 DEF DiscoveryTick, QuietBoot, CalmStarts
  <2> QED
      BY <1>3, <2>1, Untouched, CalmStep DEF DiscoveryTick, meterVars
<1>4. CASE Cancel
  <2>1. QuietBoot /\ CalmStarts
      BY <1>4 DEF Cancel, QuietBoot, CalmStarts
  <2>2. \A h \in Handles : /\ handle'[h].stage = handle[h].stage
                           /\ handle'[h].node = handle[h].node
                           /\ handle'[h].cancelled = (handle[h].cancelled \/ Alive(h))
      BY <1>4 DEF Cancel, MachineTypeOK
  <2> QED
      BY <1>4, <2>1, <2>2, TellKept DEF Cancel
<1>5. CASE stopAll
  <2>1. QuietBoot /\ CalmStarts
      BY <1>5 DEF stopAll, QuietBoot, CalmStarts
  <2>2. CalmHandles /\ CalmOrders
      BY <1>5 DEF stopAll, meterVars, CalmHandles, CalmOrders
  <2> QED
      BY <2>1, <2>2, CalmStep
<1> QED
    BY <1>1, <1>2, <1>3, <1>4, <1>5

\* setTrafficBlocked cancels whatever is in the map, so every service.
LEMMA BlockKept ==
    ASSUME MachineTypeOK, MachineTypeOK', MachineInv, NEW b \in BOOLEAN, setTrafficBlocked(b),
           UNCHANGED <<nodes, phase, stopped, online, start>>, phase # "boot"
    PROVE  MachineInv'
<1>1. QuietBoot /\ CalmStarts
    BY DEF QuietBoot, CalmStarts
<1>2. \A h \in Handles :
        /\ handle'[h].stage = handle[h].stage /\ handle'[h].node = handle[h].node
        /\ handle'[h].cancelled = (handle[h].cancelled \/ (b /\ \E n \in Nodes : nodes[n] = h))
    BY DEF setTrafficBlocked, MachineTypeOK
<1>3. \A h \in Handles : Alive(h) => \E n \in Nodes : nodes[n] = h
    BY DEF MachineInv, ServicesEntered
<1>4. blocked' = b
    BY DEF setTrafficBlocked
<1>5. (blocked' /\ ~blocked) \/ (stopped' /\ ~stopped) =>
        \A h \in Handles : Alive(h) => handle'[h].cancelled
    BY <1>2, <1>3, <1>4
<1> QED
    BY <1>1, <1>2, <1>5, TellKept

\* The meter, the connection and the panel's list.
LEMMA OutsideKept ==
    ASSUME MachineTypeOK, MachineTypeOK', MachineInv,
           \/ \E g \in {"tick", "report"} : AskMeter(g) \/ UseVerdict(g)
           \/ ApplyFails \/ VerdictTurns \/ onWSStatus \/ ListChange
    PROVE  MachineInv'
<1>1. ASSUME NEW g \in {"tick", "report"}, AskMeter(g) PROVE MachineInv'
  <2>1. QuietBoot /\ CalmStarts /\ UNCHANGED <<nodes, handle, stopped, blocked, phase>>
      BY <1>1 DEF AskMeter, QuietBoot, CalmStarts
  <2> QED
      BY <2>1, Untouched, CalmStep
<1>2. ASSUME NEW g \in {"tick", "report"}, UseVerdict(g) PROVE MachineInv'
  <2>1. held[g] \in BOOLEAN /\ held[g] # Absent
      BY <1>2 DEF UseVerdict, MachineTypeOK
  <2>2. phase # "boot"
      BY <2>1 DEF MachineInv, NothingBeforeRun
  <2> QED
      BY <1>2, <2>1, <2>2, BlockKept DEF UseVerdict, connVars
<1>3. CASE ApplyFails
    BY <1>3, BlockKept DEF ApplyFails, connVars
<1>4. CASE VerdictTurns
  <2>1. QuietBoot /\ CalmStarts /\ UNCHANGED <<nodes, handle, stopped, blocked, phase>>
      BY <1>4 DEF VerdictTurns, QuietBoot, CalmStarts, connVars, discoveryVars
  <2> QED
      BY <2>1, Untouched, CalmStep
<1>5. CASE onWSStatus
  <2>1. QuietBoot /\ CalmStarts /\ UNCHANGED <<nodes, handle, stopped, blocked, phase>>
      BY <1>5 DEF onWSStatus, QuietBoot, CalmStarts, meterVars
  <2> QED
      BY <2>1, Untouched, CalmStep
<1>6. CASE ListChange
  <2>1. phase = "boot" => UNCHANGED disc
      BY <1>6 DEF ListChange, CallIf, NoCall, MachineInv, NothingBeforeRun
  <2>2. QuietBoot /\ CalmStarts /\ UNCHANGED <<nodes, handle, stopped, blocked, phase>>
      BY <1>6, <2>1 DEF ListChange, QuietBoot, CalmStarts, connVars, meterVars
  <2> QED
      BY <2>2, Untouched, CalmStep
<1> QED
    BY <1>1, <1>2, <1>3, <1>4, <1>5, <1>6

\* Nothing runs at first.
LEMMA InitKept == MachineInit => MachineInv
BY DEF MachineInit, MachineInv, ServicesEntered, StartsOwnHandles, ForbiddenAreTold,
       NothingBeforeRun, NothingLeftRunning, Alive, Free, Idle, NoDiscovery

\* Every step keeps types and invariant.
LEMMA MachineStep ==
    MachineTypeOK /\ MachineInv /\ [MachineNext]_machineVars => MachineTypeOK' /\ MachineInv'
<1> SUFFICES ASSUME MachineTypeOK, MachineInv, [MachineNext]_machineVars
             PROVE  MachineTypeOK' /\ MachineInv'
    OBVIOUS
<1>1. MachineTypeOK'
    BY MachineTypeStep DEF MachineInv
<1>2. CASE UNCHANGED machineVars
  <2>1. QuietBoot /\ CalmStarts /\ UNCHANGED <<nodes, handle, stopped, blocked, phase>>
      BY <1>2 DEF machineVars, QuietBoot, CalmStarts
  <2> QED
      BY <1>1, <2>1, Untouched, CalmStep
<1> QED
    BY <1>1, <1>2, DiscoveryKept, StarterKept, FinishKept, RunKept, OutsideKept DEF MachineNext

-----------------------------------------------------------------------------
(***************************************************************************)
(* Theorems.                                                               *)
(***************************************************************************)
\* The inductive invariant of the orchestrator: a service is in the map from
\* startNode to finishNode, a start under way owns its handle, and who
\* forbids services has told every one of them.
THEOREM MachineInvHolds == MachineSpec => [](MachineTypeOK /\ MachineInv)
BY InitType, InitKept, MachineStep, PTL DEF MachineSpec

\* For every number of nodes, however discoveries, starts, stops, ends, the
\* quota and the shutdown overlap: a node never has two services, traffic
\* protection reaches also those whose start was under way, and Run returns
\* with none left (machine.go: startNode, stopNode, finishNode, stopAll;
\* traffic.go: setTrafficBlocked).
THEOREM MachineServicesHold == MachineSpec => []ServicesHold
<1>1. MachineTypeOK /\ MachineInv => ServicesHold
  <2> SUFFICES ASSUME MachineTypeOK, MachineInv PROVE ServicesHold
      OBVIOUS
  <2>1. OneService
      BY DEF OneService, MachineInv, ServicesEntered
  <2>2. ProtectionReachesAll
      BY DEF ProtectionReachesAll, MachineInv, ForbiddenAreTold
  <2> QED
      BY <2>1, <2>2 DEF ServicesHold, MachineInv
<1> QED
    BY <1>1, MachineInvHolds, PTL

-----------------------------------------------------------------------------
(* Firewall: the types, and the invariant.                                  *)

\* A record is replaced with its directory, or not at all; the record of the sources always is.
RecordsReplaced == FwFaults \cap {"dirsync", "sourcesave"} = {}

\* Every variable of the firewall holds values of its kind.
ListenPorts == {c.port : c \in Confs}
Plans == [port : ListenPorts, kind : Kinds, ready : BOOLEAN]
Records == [owned : SUBSET RulePorts, redirect : BOOLEAN, driver : BOOLEAN, sources : [Owners -> Nat]]
Phases == {"idle", "start", "kernel", "confirm", "release", "restart"}
JobSteps == {"none", "sources", "sync", "sourcesave", "allows", "ensure", "prepend", "replant",
             "redirect", "noredirect", "reclaim", "forget", "done", "failed", "refused", "returned"}

NodesTyped == node \in [Owners -> [conf : Confs \cup {NoPlan}, runs : Confs \cup {NoPlan}, phase : Phases]]
PlansTyped ==
    /\ plans \in [Owners -> Plans \cup {NoPlan}] /\ confirm \in [Owners -> Plans \cup {NoPlan}]
    /\ expected \in [Owners -> {"unlisted", "awaited", "seen"}]
    /\ discovery \in BOOLEAN /\ lastErr \in BOOLEAN
HostTyped ==
    host \in [allow : [RulePorts -> {"none", "own", "behind", "manual"}],
              redirect : SUBSET ListenPorts, drop : [Owners -> Nat]]
BooksTyped == backend \in Records /\ record \in Records
JobTyped ==
    job \in [op : {"none", "node", "tick", "close"}, owner : Owners \cup {NoPlan}, at : JobSteps,
             todo : SUBSET RulePorts, rule : RulePorts \cup {0}]
BeforeTyped == before \in [Owners -> [allow : SUBSET RulePorts, drop : Nat]]

FirewallTypeOK ==
    /\ agent \in {"down", "up", "closing"}
    /\ NodesTyped /\ PlansTyped /\ HostTyped /\ BooksTyped /\ JobTyped /\ BeforeTyped

\* Memory and file agree, but for the redirections, whose driver memory forgets early.
BooksAgree ==
    agent # "down" =>
        /\ backend.owned = record.owned /\ backend.driver = record.driver
        /\ backend.sources = record.sources
        /\ host.redirect # {} => backend.redirect

\* How far the holder of the lock has come.
AtSources == job.at \in {"sync", "sourcesave"} => backend.driver
AtDrops ==
    job.at \in {"sourcesave", "allows", "ensure", "prepend", "replant", "redirect", "noredirect",
                "reclaim", "forget", "done"} => host.drop = Desired
Opened(p) == host.allow[p] \in {"own", "manual"}
AtRules ==
    job.at \in {"ensure", "prepend", "replant"} =>
        job.todo \subseteq Allows /\ \A p \in Allows \ job.todo : Opened(p)
AtRule ==
    job.at \in {"prepend", "replant"} =>
        /\ job.todo # {} /\ host.allow[NextRule] = "none"
        /\ job.at = "prepend" => NextRule \in backend.owned
AtOpened ==
    job.at \in {"redirect", "noredirect", "reclaim", "forget", "done"} => \A p \in Allows : Opened(p)
AtRedirect ==
    /\ job.at = "redirect" => backend.redirect /\ record.redirect
    /\ job.at = "noredirect" => Redirects = {}
    /\ job.at \in {"noredirect", "reclaim", "forget", "done"} => host.redirect = Redirects
AtForget ==
    /\ job.at = "forget" => /\ job.rule \in RulePorts \ Allows
                            /\ host.allow[job.rule] \notin {"own", "behind"}
    /\ job.at = "done" => Reclaimed = {}
StepsHold ==
    /\ AtSources /\ AtDrops /\ AtRules /\ AtRule /\ AtOpened /\ AtRedirect /\ AtForget

\* Whose the lock is.
LockHolds ==
    /\ job.op = "none" => job = Unlocked
    /\ agent = "down" => job = Unlocked
    /\ agent = "closing" <=> job.op = "close"
    /\ job.op \in {"node", "tick"} => agent = "up"
CallHolds ==
    job.op = "node" =>
        /\ job.owner \in Owners
        /\ node[job.owner].phase \in {"start", "confirm", "release", "restart"}
        /\ node[job.owner].phase = "start" =>
              \/ node[job.owner].conf.kind = "manual"
              \/ /\ Guarded(node[job.owner].conf) /\ job.at # "returned"
                 /\ job.at # "refused" => plans[job.owner] = PlanOf(node[job.owner].conf, FALSE)

\* A guarded node keeps its plan and its drops from the preparation to the end of its kernel.
Behind(o, c) == Guarded(plans[o]) /\ plans[o].port = c.port /\ host.drop[o] = c.port
ServiceHolds(o) ==
    /\ node[o].phase \notin {"idle", "release"} => node[o].conf \in Confs
    /\ node[o].phase \in {"start", "release", "restart"} => node[o].runs = NoPlan
    /\ Guarded(node[o].runs) =>
          /\ node[o].conf = node[o].runs /\ node[o].phase \in {"idle", "confirm"}
          /\ Behind(o, node[o].runs)
    /\ node[o].phase = "kernel" /\ Guarded(node[o].conf) => Behind(o, node[o].conf)
ServicesGuarded ==
    /\ agent # "up" => \A o \in Owners : node[o] = NoService
    /\ \A o \in Owners : ServiceHolds(o)

\* What a node that has not reported yet left behind is there, and recorded.
Awaits(o) == expected[o] = "awaited" \/ (discovery /\ expected[o] = "unlisted")
Kept(o) ==
    /\ \A p \in before[o].allow : host.allow[p] = "own"
    /\ before[o].drop # 0 => host.drop[o] = before[o].drop /\ record.sources[o] = before[o].drop
LeftHolds ==
    /\ \A o \in Owners : agent = "down" \/ Awaits(o) => Kept(o)
    /\ \A o \in Owners : agent # "down" /\ expected[o] = "unlisted" /\ ~discovery => before[o] = NothingLeft
    /\ \A o \in Owners : plans[o] # NoPlan => expected[o] = "seen"
    /\ agent = "closing" => ~discovery /\ \A o \in Owners : expected[o] = "unlisted"

FirewallInv ==
    /\ FirewallTypeOK /\ BooksAgree /\ NothingOrphaned /\ StepsHold
    /\ LockHolds /\ CallHolds /\ ServicesGuarded /\ LeftHolds

-----------------------------------------------------------------------------
(* Commands, the record and the plans.                                      *)

\* The least of some numbers is one of them: what ensureUFWManaged takes next is to be done.
LEMMA LeastIsMember ==
    ASSUME NEW S, S \subseteq Nat, S # {}
    PROVE  Min(S) \in S
<1>1. PICK m \in S : \A k \in S : <<k, m>> \notin OpToRel(<, Nat)
  BY WFMin, NatLessThanWellFounded, Zenon
<1>2. \A k \in S : m <= k
  <2>1. SUFFICES ASSUME NEW k \in S PROVE m <= k
    OBVIOUS
  <2>2. k \in Nat /\ m \in Nat /\ ~(k < m)
    BY <1>1 DEF OpToRel
  <2> QED BY <2>2
<1> QED BY <1>2, Zenon DEF Min

\* The ports of the rules are numbers, those of the listeners among them.
LEMMA PortsAreNumbers == RulePorts \subseteq Nat \ {0} /\ ListenPorts \subseteq RulePorts
BY FirewallAssumption DEF RulePorts, ListenPorts

\* A command has its effect, or it fails with its effect or without.
LEMMA RunsOrFails ==
    ASSUME NEW h, NEW next, Run(h, next)
    PROVE  \/ host' = h /\ job' = next
           \/ host' \in {h, host} /\ job' = Failed
BY DEF Run

\* The record is replaced as a whole, or it stays and memory is left with the fallback.
LEMMA SavedOrNot ==
    ASSUME RecordsReplaced, NEW b, NEW fallback, NEW next, save(Saves, b, fallback, next)
    PROVE  \/ backend' = b /\ record' = b /\ job' = next
           \/ backend' = fallback /\ record' = record /\ job' = Failed
BY DEF save, Saves, Fails, RecordsReplaced

\* The record of the sources is replaced.
LEMMA SourcesSaved ==
    ASSUME RecordsReplaced, NEW b, NEW fallback, NEW next, save(SourceSaves, b, fallback, next)
    PROVE  backend' = b /\ record' = b /\ job' = next
BY DEF save, SourceSaves, Fails, RecordsReplaced

\* A rule is recorded, or nothing changes.
LEMMA OwnedOrNot ==
    ASSUME RecordsReplaced, NEW b, NEW next, Owning(b, next)
    PROVE  \/ backend' = b /\ job' = next /\ (record' = b \/ (b = backend /\ record' = record))
           \/ backend' = backend /\ record' = record /\ job' = Failed
<1>1. CASE b = backend
    BY <1>1 DEF Owning, Skip
<1>2. CASE b # backend
    BY <1>2, SavedOrNot DEF Owning
<1> QED BY <1>1, <1>2

\* What the work wants depends on the plans alone.
LEMMA PlansKept ==
    ASSUME UNCHANGED managerVars
    PROVE  /\ Allows' = Allows /\ Redirects' = Redirects
           /\ Recovering' = Recovering /\ Protected' = Protected
<1>1. plans' = plans /\ confirm' = confirm /\ expected' = expected /\ discovery' = discovery
    BY DEF managerVars
<1>2. Active' = Active
    BY <1>1 DEF Active
<1> QED BY <1>1, <1>2 DEF Allows, Redirects, Recovering, Protected

\* The drops wanted depend on the plans and on the recorded sources.
LEMMA DesiredKept ==
    ASSUME UNCHANGED managerVars, backend'.sources = backend.sources
    PROVE  Desired' = Desired
BY PlansKept DEF Desired, managerVars

\* The drops wanted are a port, or none, for each owner.
LEMMA DesiredTyped ==
    ASSUME FirewallTypeOK
    PROVE  Desired \in [Owners -> Nat]
<1>1. ASSUME NEW o \in Owners, plans[o] # NoPlan PROVE plans[o].port \in Nat
    BY <1>1, PortsAreNumbers DEF FirewallTypeOK, PlansTyped, Plans
<1>2. \A o \in Owners : backend.sources[o] \in Nat
    BY DEF FirewallTypeOK, BooksTyped, Records
<1> QED BY <1>1, <1>2 DEF Desired

\* The rules and redirections wanted are among those there can be.
LEMMA AllowsArePorts ==
    ASSUME FirewallTypeOK
    PROVE  Allows \subseteq RulePorts /\ Redirects \subseteq ListenPorts
<1>1. ASSUME NEW o \in Owners, plans[o] # NoPlan PROVE plans[o].port \in ListenPorts
    BY <1>1 DEF FirewallTypeOK, PlansTyped, Plans
<1>2. HopPort \in RulePorts
    BY DEF RulePorts
<1>3. \A o \in Active : Admits(plans[o]) \subseteq RulePorts
    BY <1>1, <1>2, PortsAreNumbers DEF Active, Admits
<1> QED BY <1>1, <1>3 DEF Allows, Redirects, Active

\* The next rule is one to be done.
LEMMA NextIsToDo ==
    ASSUME FirewallTypeOK, job.todo # {}
    PROVE  NextRule \in job.todo /\ NextRule \in RulePorts
BY LeastIsMember, PortsAreNumbers DEF FirewallTypeOK, JobTyped, NextRule

\* What the holder of the lock relies on, and what each of its steps leaves to the others.
WorkInv ==
    /\ FirewallTypeOK /\ BooksAgree /\ NothingOrphaned /\ StepsHold /\ agent # "down"
WorkFrame == UNCHANGED <<agent, node, managerVars, lastErr, before>>
WorkLeaves ==
    /\ job'.op = job.op /\ job'.owner = job.owner
    /\ job'.at \notin {"none", "refused", "returned"}
    /\ host'.drop \in {host.drop, Desired}
    /\ Recovering => \A p \in RulePorts : host.allow[p] = "own" => host'.allow[p] = "own"
    /\ Recovering => \A o \in Owners : plans[o] = NoPlan => record'.sources[o] = record.sources[o]

\* The work changes the types of nothing but the host, the books and the lock.
LEMMA TypesLeft ==
    ASSUME FirewallTypeOK, WorkFrame, HostTyped', BooksTyped', JobTyped'
    PROVE  FirewallTypeOK'
BY DEF FirewallTypeOK, WorkFrame, managerVars, NodesTyped, PlansTyped, BeforeTyped

\* A rule changes alone.
LEMMA RuleWritten ==
    ASSUME HostTyped, NEW p \in RulePorts, NEW state, host' = WithRule(p, state)
    PROVE  /\ host'.drop = host.drop /\ host'.redirect = host.redirect
           /\ host'.allow[p] = state
           /\ \A q \in RulePorts \ {p} : host'.allow[q] = host.allow[q]
BY DEF HostTyped, WithRule

\* ApplySources records that there will be drops before there are any.
LEMMA SourceIntentHolds ==
    ASSUME RecordsReplaced, WorkInv, WorkFrame, SourceIntent
    PROVE  WorkInv' /\ WorkLeaves
<1>1. \/ job' = Failed /\ backend' = backend /\ record' = record
      \/ /\ job' = At("sync") /\ backend' = [backend EXCEPT !.driver = TRUE]
         /\ record' = [backend EXCEPT !.driver = TRUE]
      \/ job' = At("sync") /\ backend' = backend /\ record' = record /\ backend.driver
      \/ /\ job' = At("allows") /\ backend' = backend /\ record' = record /\ ~backend.driver
         /\ Desired = NoDrops
    BY SourcesSaved DEF SourceIntent, NoSourceTools, Skip
<1>2. host' = host /\ agent' = agent
    BY DEF SourceIntent, WorkFrame
<1>3. HostTyped' /\ BooksTyped' /\ JobTyped'
    <2>1. HostTyped'
        BY <1>2 DEF WorkInv, FirewallTypeOK, HostTyped
    <2>2. BooksTyped'
        BY <1>1 DEF WorkInv, FirewallTypeOK, BooksTyped, Records
    <2>3. JobTyped'
        BY <1>1 DEF WorkInv, FirewallTypeOK, JobTyped, JobSteps, At, Failed
    <2> QED BY <2>1, <2>2, <2>3
<1>4. BooksAgree'
    BY <1>1, <1>2 DEF WorkInv, BooksAgree, FirewallTypeOK, BooksTyped, Records
<1>5. NothingOrphaned'
    BY <1>1, <1>2 DEF WorkInv, BooksAgree, NothingOrphaned, FirewallTypeOK, BooksTyped, Records
<1>6. /\ Allows' = Allows /\ Redirects' = Redirects /\ Desired' = Desired
    <2>1. backend'.sources = backend.sources
        BY <1>1 DEF WorkInv, FirewallTypeOK, BooksTyped, Records
    <2> QED BY <2>1, PlansKept, DesiredKept DEF WorkFrame
<1>7. StepsHold'
    BY <1>1, <1>2, <1>6
    DEF WorkInv, StepsHold, AtSources, AtDrops, AtRules, AtRule, AtOpened, AtRedirect, AtForget,
        At, Failed,
        FirewallTypeOK, JobTyped, BooksTyped, Records, BooksAgree, NothingOrphaned
<1>8. WorkLeaves
    BY <1>1, <1>2
    DEF WorkInv, WorkLeaves, At, Failed, FirewallTypeOK, JobTyped, BooksTyped, Records, BooksAgree
<1> QED BY <1>2, <1>3, <1>4, <1>5, <1>7, <1>8, TypesLeft DEF WorkInv
\* The drops become those wanted, while the record says that there are drops.
LEMMA syncSourceNFTHolds ==
    ASSUME RecordsReplaced, WorkInv, WorkFrame, syncSourceNFT
    PROVE  WorkInv' /\ WorkLeaves
<1>1. \/ host' = [host EXCEPT !.drop = Desired] /\ job' = At("sourcesave")
      \/ host' \in {[host EXCEPT !.drop = Desired], host} /\ job' = Failed
    BY RunsOrFails DEF syncSourceNFT
<1>2. job.at = "sync" /\ backend' = backend /\ record' = record /\ agent' = agent
    BY DEF syncSourceNFT, WorkFrame
<1>3. /\ Allows' = Allows /\ Redirects' = Redirects /\ Desired' = Desired
    <2>1. backend'.sources = backend.sources
        BY <1>1, <1>2 DEF WorkInv, FirewallTypeOK, BooksTyped, Records
    <2> QED BY <2>1, PlansKept, DesiredKept DEF WorkFrame
<1>4. Desired \in [Owners -> Nat] /\ backend.driver
    BY DesiredTyped DEF WorkInv, StepsHold, AtSources, syncSourceNFT
<1>5. HostTyped' /\ BooksTyped' /\ JobTyped'
    <2>1. HostTyped'
        BY <1>1, <1>2, <1>4 DEF WorkInv, FirewallTypeOK, HostTyped
    <2>2. BooksTyped'
        BY <1>1, <1>2, <1>4 DEF WorkInv, FirewallTypeOK, BooksTyped, Records
    <2>3. JobTyped'
        BY <1>1, <1>2, <1>4 DEF WorkInv, FirewallTypeOK, JobTyped, JobSteps, At, Failed
    <2> QED BY <2>1, <2>2, <2>3
<1>6. BooksAgree'
    BY <1>1, <1>2, <1>4 DEF WorkInv, BooksAgree, FirewallTypeOK, BooksTyped, HostTyped, Records
<1>7. NothingOrphaned'
    BY <1>1, <1>2, <1>4
    DEF WorkInv, BooksAgree, NothingOrphaned, FirewallTypeOK, BooksTyped, HostTyped, Records
<1>8. StepsHold'
    <2>1. AtSources' /\ AtDrops'
        BY <1>1, <1>2, <1>3, <1>4
        DEF AtSources, AtDrops, BooksTyped, HostTyped, Records, BooksAgree, NothingOrphaned,
            WorkInv, StepsHold, At, Failed, FirewallTypeOK, JobTyped
    <2>2. AtRules'
        BY <1>1, <1>2, <1>3, <1>4
        DEF AtRules, Opened, HostTyped, WorkInv, StepsHold, At, Failed, FirewallTypeOK, JobTyped
    <2>3. AtRule'
        BY <1>1, <1>2, <1>3, <1>4
        DEF AtRule, BooksTyped, HostTyped, Records, WorkInv, StepsHold, At, Failed, FirewallTypeOK,
            JobTyped
    <2>4. AtOpened'
        BY <1>1, <1>2, <1>3, <1>4
        DEF AtOpened, AtRules, Opened, HostTyped, WorkInv, StepsHold, At, Failed, FirewallTypeOK,
            JobTyped
    <2>5. AtRedirect'
        BY <1>1, <1>2, <1>3, <1>4
        DEF AtRedirect, BooksTyped, HostTyped, Records, BooksAgree, WorkInv, StepsHold, At, Failed,
            FirewallTypeOK, JobTyped
    <2>6. AtForget'
        BY <1>1, <1>2, <1>3, <1>4
        DEF AtForget, Reclaimed, keepOwned, HostTyped, BooksTyped, Records, WorkInv, StepsHold, At,
            Failed, FirewallTypeOK, JobTyped
    <2> QED BY <2>1, <2>2, <2>3, <2>4, <2>5, <2>6 DEF StepsHold
<1>9. WorkLeaves
    BY <1>1, <1>2, <1>4
    DEF WorkInv, WorkLeaves, At, Failed, FirewallTypeOK, JobTyped, BooksTyped, HostTyped, Records,
        BooksAgree
<1> QED BY <1>2, <1>5, <1>6, <1>7, <1>8, <1>9, TypesLeft DEF WorkInv

\* The sources recorded are the drops of the host, those of awaited nodes unchanged.
LEMMA SourceSaveHolds ==
    ASSUME RecordsReplaced, WorkInv, WorkFrame, SourceSave
    PROVE  WorkInv' /\ WorkLeaves
<1>1. /\ job' = At("allows")
      /\ \/ backend' = backend /\ record' = record /\ backend.sources = Desired /\ Desired # NoDrops
         \/ /\ backend' = [backend EXCEPT !.sources = Desired, !.driver = Desired # NoDrops]
            /\ record' = [backend EXCEPT !.sources = Desired, !.driver = Desired # NoDrops]
    BY SourcesSaved DEF SourceSave, Skip
<1>2. job.at = "sourcesave" /\ host' = host /\ agent' = agent
    BY DEF SourceSave, WorkFrame
<1>3. /\ Allows' = Allows /\ Redirects' = Redirects /\ Desired' = Desired
    <2>1. backend'.sources = Desired
        BY <1>1, <1>2 DEF WorkInv, FirewallTypeOK, BooksTyped, Records
    <2>2. Desired' = Desired
        BY <2>1, PlansKept DEF Desired, WorkFrame, managerVars
    <2> QED BY <2>2, PlansKept DEF WorkFrame
<1>4. Desired \in [Owners -> Nat] /\ host.drop = Desired /\ backend.driver
    BY DesiredTyped DEF WorkInv, StepsHold, AtDrops, AtSources, SourceSave
<1>5. Recovering => \A o \in Owners : plans[o] = NoPlan => Desired[o] = record.sources[o]
    BY DEF Desired, WorkInv, BooksAgree
<1>6. HostTyped' /\ BooksTyped' /\ JobTyped'
    <2>1. HostTyped'
        BY <1>1, <1>2, <1>4 DEF WorkInv, FirewallTypeOK, HostTyped
    <2>2. BooksTyped'
        BY <1>1, <1>2, <1>4 DEF WorkInv, FirewallTypeOK, BooksTyped, Records
    <2>3. JobTyped'
        BY <1>1, <1>2, <1>4 DEF WorkInv, FirewallTypeOK, JobTyped, JobSteps, At, Failed
    <2> QED BY <2>1, <2>2, <2>3
<1>7. BooksAgree'
    BY <1>1, <1>2, <1>4 DEF WorkInv, BooksAgree, FirewallTypeOK, BooksTyped, HostTyped, Records
<1>8. NothingOrphaned'
    BY <1>1, <1>2, <1>4
    DEF WorkInv, BooksAgree, NothingOrphaned, FirewallTypeOK, BooksTyped, HostTyped, Records
<1>9. StepsHold'
    <2>1. AtSources' /\ AtDrops'
        BY <1>1, <1>2, <1>3, <1>4, <1>5
        DEF AtSources, AtDrops, BooksTyped, HostTyped, Records, BooksAgree, NothingOrphaned,
            WorkInv, StepsHold, At, Failed, FirewallTypeOK, JobTyped
    <2>2. AtRules'
        BY <1>1, <1>2, <1>3, <1>4, <1>5
        DEF AtRules, Opened, HostTyped, WorkInv, StepsHold, At, Failed, FirewallTypeOK, JobTyped
    <2>3. AtRule'
        BY <1>1, <1>2, <1>3, <1>4, <1>5
        DEF AtRule, BooksTyped, HostTyped, Records, WorkInv, StepsHold, At, Failed, FirewallTypeOK,
            JobTyped
    <2>4. AtOpened'
        BY <1>1, <1>2, <1>3, <1>4, <1>5
        DEF AtOpened, AtRules, Opened, HostTyped, WorkInv, StepsHold, At, Failed, FirewallTypeOK,
            JobTyped
    <2>5. AtRedirect'
        BY <1>1, <1>2, <1>3, <1>4, <1>5
        DEF AtRedirect, BooksTyped, HostTyped, Records, BooksAgree, WorkInv, StepsHold, At, Failed,
            FirewallTypeOK, JobTyped
    <2>6. AtForget'
        BY <1>1, <1>2, <1>3, <1>4, <1>5
        DEF AtForget, Reclaimed, keepOwned, HostTyped, BooksTyped, Records, WorkInv, StepsHold, At,
            Failed, FirewallTypeOK, JobTyped
    <2> QED BY <2>1, <2>2, <2>3, <2>4, <2>5, <2>6 DEF StepsHold
<1>10. WorkLeaves
    <2>1. /\ job'.op = job.op /\ job'.owner = job.owner
          /\ job'.at \notin {"none", "refused", "returned"}
        BY <1>1 DEF WorkInv, At, FirewallTypeOK, JobTyped
    <2>2. Recovering => \A o \in Owners : plans[o] = NoPlan => record'.sources[o] = record.sources[o]
        <3>1. record' = record \/ record'.sources = Desired
            BY <1>1 DEF WorkInv, FirewallTypeOK, BooksTyped, Records
        <3> QED BY <1>5, <3>1
    <2> QED BY <1>2, <2>1, <2>2 DEF WorkLeaves
<1> QED BY <1>2, <1>6, <1>7, <1>8, <1>9, <1>10, TypesLeft DEF WorkInv

\* Every rule wanted is to be done.
LEMMA ReadHostHolds ==
    ASSUME RecordsReplaced, WorkInv, WorkFrame, ReadHost
    PROVE  WorkInv' /\ WorkLeaves
<1>1. \/ job' = [job EXCEPT !.at = "ensure", !.todo = Allows]
      \/ job' = Failed
    BY DEF ReadHost, Skip
<1>2. job.at = "allows" /\ host' = host /\ backend' = backend /\ record' = record /\ agent' = agent
    BY DEF ReadHost, WorkFrame, Skip
<1>3. /\ Allows' = Allows /\ Redirects' = Redirects /\ Desired' = Desired
    <2>1. backend'.sources = backend.sources
        BY <1>1, <1>2 DEF WorkInv, FirewallTypeOK, BooksTyped, Records
    <2> QED BY <2>1, PlansKept, DesiredKept DEF WorkFrame
<1>4. Allows \subseteq RulePorts
    BY AllowsArePorts DEF WorkInv
<1>5. HostTyped' /\ BooksTyped' /\ JobTyped'
    <2>1. HostTyped'
        BY <1>1, <1>2, <1>4 DEF WorkInv, FirewallTypeOK, HostTyped
    <2>2. BooksTyped'
        BY <1>1, <1>2, <1>4 DEF WorkInv, FirewallTypeOK, BooksTyped, Records
    <2>3. JobTyped'
        BY <1>1, <1>2, <1>4 DEF WorkInv, FirewallTypeOK, JobTyped, JobSteps, At, Failed
    <2> QED BY <2>1, <2>2, <2>3
<1>6. BooksAgree'
    BY <1>1, <1>2 DEF WorkInv, BooksAgree, FirewallTypeOK, BooksTyped, HostTyped, Records
<1>7. NothingOrphaned'
    BY <1>1, <1>2
    DEF WorkInv, BooksAgree, NothingOrphaned, FirewallTypeOK, BooksTyped, HostTyped, Records
<1>8. StepsHold'
    <2>1. AtSources' /\ AtDrops'
        BY <1>1, <1>2, <1>3, <1>4
        DEF AtSources, AtDrops, BooksTyped, HostTyped, Records, BooksAgree, NothingOrphaned,
            WorkInv, StepsHold, At, Failed, FirewallTypeOK, JobTyped
    <2>2. AtRules'
        BY <1>1, <1>2, <1>3, <1>4
        DEF AtRules, Opened, HostTyped, WorkInv, StepsHold, At, Failed, FirewallTypeOK, JobTyped
    <2>3. AtRule'
        BY <1>1, <1>2, <1>3, <1>4
        DEF AtRule, BooksTyped, HostTyped, Records, WorkInv, StepsHold, At, Failed, FirewallTypeOK,
            JobTyped
    <2>4. AtOpened'
        BY <1>1, <1>2, <1>3, <1>4
        DEF AtOpened, AtRules, Opened, HostTyped, WorkInv, StepsHold, At, Failed, FirewallTypeOK,
            JobTyped
    <2>5. AtRedirect'
        BY <1>1, <1>2, <1>3, <1>4
        DEF AtRedirect, BooksTyped, HostTyped, Records, BooksAgree, WorkInv, StepsHold, At, Failed,
            FirewallTypeOK, JobTyped
    <2>6. AtForget'
        BY <1>1, <1>2, <1>3, <1>4
        DEF AtForget, Reclaimed, keepOwned, HostTyped, BooksTyped, Records, WorkInv, StepsHold, At,
            Failed, FirewallTypeOK, JobTyped
    <2> QED BY <2>1, <2>2, <2>3, <2>4, <2>5, <2>6 DEF StepsHold
<1>9. WorkLeaves
    BY <1>1, <1>2, <1>4
    DEF WorkInv, WorkLeaves, At, Failed, FirewallTypeOK, JobTyped, BooksTyped, HostTyped, Records,
        BooksAgree
<1> QED BY <1>2, <1>5, <1>6, <1>7, <1>8, <1>9, TypesLeft DEF WorkInv

\* A rule is recorded before it is created.
LEMMA RememberHolds ==
    ASSUME RecordsReplaced, WorkInv, WorkFrame, Remember
    PROVE  WorkInv' /\ WorkLeaves
<1>1. \/ /\ /\ job' = Ensured("ensure") /\ host.allow[NextRule] = "own"
         /\ backend' = remember(NextRule)
         /\ record' = remember(NextRule) \/ (remember(NextRule) = backend /\ record' = record)
      \/ /\ job' = At("prepend") /\ host.allow[NextRule] = "none" /\ backend' = remember(NextRule)
         /\ record' = remember(NextRule) \/ (remember(NextRule) = backend /\ record' = record)
      \/ job' = Failed /\ backend' = backend /\ record' = record
    BY OwnedOrNot DEF Remember
<1>2. job.at = "ensure" /\ host' = host /\ agent' = agent
    BY DEF Remember, WorkFrame
<1>3. /\ Allows' = Allows /\ Redirects' = Redirects /\ Desired' = Desired
    <2>1. backend'.sources = backend.sources
        BY <1>1, <1>2 DEF WorkInv, FirewallTypeOK, BooksTyped, Records, remember
    <2> QED BY <2>1, PlansKept, DesiredKept DEF WorkFrame
<1>4. NextRule \in job.todo /\ NextRule \in RulePorts
    BY NextIsToDo DEF WorkInv, Remember
<1>5. HostTyped' /\ BooksTyped' /\ JobTyped'
    <2>1. HostTyped'
        BY <1>1, <1>2, <1>4 DEF WorkInv, FirewallTypeOK, HostTyped, remember, Ensured
    <2>2. BooksTyped'
        BY <1>1, <1>2, <1>4 DEF WorkInv, FirewallTypeOK, BooksTyped, Records, remember, Ensured
    <2>3. JobTyped'
        <3>1. JobTyped /\ job.todo \ {NextRule} \in SUBSET RulePorts
            BY DEF WorkInv, FirewallTypeOK, JobTyped
        <3> QED BY <1>1, <3>1 DEF JobTyped, JobSteps, At, Failed, Ensured
    <2> QED BY <2>1, <2>2, <2>3
<1>6. BooksAgree'
    BY <1>1, <1>2, <1>4
    DEF WorkInv, BooksAgree, FirewallTypeOK, BooksTyped, HostTyped, Records, remember
<1>7. NothingOrphaned'
    BY <1>1, <1>2, <1>4
    DEF WorkInv, BooksAgree, NothingOrphaned, FirewallTypeOK, BooksTyped, HostTyped, Records,
        remember
<1>8. /\ \/ job'.at = "failed"
         \/ job'.at = "ensure" /\ job'.todo = job.todo \ {NextRule} /\ host'.allow[NextRule] = "own"
         \/ job'.at = "prepend" /\ job'.todo = job.todo /\ host'.allow[NextRule] = "none"
      /\ host'.allow \in [RulePorts -> {"none", "own", "behind", "manual"}]
      /\ \A p \in RulePorts \ {NextRule} : host'.allow[p] = host.allow[p]
    BY <1>1, <1>2, <1>4, <1>5
    DEF WorkInv, FirewallTypeOK, HostTyped, JobTyped, At, Failed, Ensured, WithRule
<1>9. /\ job.todo \subseteq Allows /\ Allows \subseteq RulePorts
      /\ \A p \in Allows \ job.todo : Opened(p)
    BY <1>2, AllowsArePorts DEF WorkInv, StepsHold, AtRules
<1>10. job'.todo = job.todo => NextRule' = NextRule
    BY DEF NextRule
<1>11. StepsHold'
    <2>1. AtSources' /\ AtDrops'
        BY <1>1, <1>2, <1>3, <1>4
        DEF AtSources, AtDrops, BooksTyped, HostTyped, Records, BooksAgree, NothingOrphaned,
            WorkInv, StepsHold, At, Failed, FirewallTypeOK, JobTyped, remember, Ensured
    <2>2. AtRules'
        BY <1>3, <1>4, <1>8, <1>9 DEF AtRules, Opened
    <2>3. AtRule'
        BY <1>1, <1>4, <1>8, <1>10
        DEF AtRule, WorkInv, FirewallTypeOK, BooksTyped, Records, remember, At, Ensured, Failed,
            JobTyped
    <2>4. AtOpened'
        BY <1>1, <1>2, <1>3, <1>4
        DEF AtOpened, AtRules, Opened, HostTyped, WorkInv, StepsHold, At, Failed, FirewallTypeOK,
            JobTyped, remember, Ensured
    <2>5. AtRedirect'
        BY <1>1, <1>2, <1>3, <1>4
        DEF AtRedirect, BooksTyped, HostTyped, Records, BooksAgree, WorkInv, StepsHold, At, Failed,
            FirewallTypeOK, JobTyped, remember, Ensured
    <2>6. AtForget'
        BY <1>1, <1>2, <1>3, <1>4
        DEF AtForget, Reclaimed, keepOwned, HostTyped, BooksTyped, Records, WorkInv, StepsHold, At,
            Failed, FirewallTypeOK, JobTyped, remember, Ensured
    <2> QED BY <2>1, <2>2, <2>3, <2>4, <2>5, <2>6 DEF StepsHold
<1>12. WorkLeaves
    BY <1>1, <1>2, <1>4
    DEF WorkInv, WorkLeaves, At, Failed, FirewallTypeOK, JobTyped, BooksTyped, HostTyped, Records,
        BooksAgree, remember, Ensured
<1> QED BY <1>2, <1>5, <1>6, <1>7, <1>11, <1>12, TypesLeft DEF WorkInv

\* A rule of the administrator's is not claimed.
LEMMA LeaveManualHolds ==
    ASSUME RecordsReplaced, WorkInv, WorkFrame, LeaveManual
    PROVE  WorkInv' /\ WorkLeaves
<1>1. \/ /\ job' = Ensured("ensure") /\ backend' = forget(NextRule)
         /\ record' = forget(NextRule) \/ (forget(NextRule) = backend /\ record' = record)
      \/ job' = Failed /\ backend' = backend /\ record' = record
    BY OwnedOrNot DEF LeaveManual
<1>2. job.at = "ensure" /\ host.allow[NextRule] = "manual" /\ host' = host /\ agent' = agent
    BY DEF LeaveManual, WorkFrame
<1>3. /\ Allows' = Allows /\ Redirects' = Redirects /\ Desired' = Desired
    <2>1. backend'.sources = backend.sources
        BY <1>1, <1>2 DEF WorkInv, FirewallTypeOK, BooksTyped, Records, forget
    <2> QED BY <2>1, PlansKept, DesiredKept DEF WorkFrame
<1>4. NextRule \in job.todo /\ NextRule \in RulePorts
    BY NextIsToDo DEF WorkInv, LeaveManual
<1>5. HostTyped' /\ BooksTyped' /\ JobTyped'
    <2>1. HostTyped'
        BY <1>1, <1>2, <1>4 DEF WorkInv, FirewallTypeOK, HostTyped, forget, Ensured
    <2>2. BooksTyped'
        BY <1>1, <1>2, <1>4 DEF WorkInv, FirewallTypeOK, BooksTyped, Records, forget, Ensured
    <2>3. JobTyped'
        <3>1. JobTyped /\ job.todo \ {NextRule} \in SUBSET RulePorts
            BY DEF WorkInv, FirewallTypeOK, JobTyped
        <3> QED BY <1>1, <3>1 DEF JobTyped, JobSteps, At, Failed, Ensured
    <2> QED BY <2>1, <2>2, <2>3
<1>6. BooksAgree'
    BY <1>1, <1>2, <1>4
    DEF WorkInv, BooksAgree, FirewallTypeOK, BooksTyped, HostTyped, Records, forget
<1>7. NothingOrphaned'
    BY <1>1, <1>2, <1>4
    DEF WorkInv, BooksAgree, NothingOrphaned, FirewallTypeOK, BooksTyped, HostTyped, Records, forget
<1>8. /\ \/ job'.at = "failed"
         \/ /\ job'.at = "ensure" /\ job'.todo = job.todo \ {NextRule}
            /\ host'.allow[NextRule] = "manual"
      /\ host'.allow \in [RulePorts -> {"none", "own", "behind", "manual"}]
      /\ \A p \in RulePorts \ {NextRule} : host'.allow[p] = host.allow[p]
    BY <1>1, <1>2, <1>4, <1>5
    DEF WorkInv, FirewallTypeOK, HostTyped, JobTyped, At, Failed, Ensured, WithRule
<1>9. /\ job.todo \subseteq Allows /\ Allows \subseteq RulePorts
      /\ \A p \in Allows \ job.todo : Opened(p)
    BY <1>2, AllowsArePorts DEF WorkInv, StepsHold, AtRules
<1>10. job'.todo = job.todo => NextRule' = NextRule
    BY DEF NextRule
<1>11. StepsHold'
    <2>1. AtSources' /\ AtDrops'
        BY <1>1, <1>2, <1>3, <1>4
        DEF AtSources, AtDrops, BooksTyped, HostTyped, Records, BooksAgree, NothingOrphaned,
            WorkInv, StepsHold, At, Failed, FirewallTypeOK, JobTyped, forget, Ensured
    <2>2. AtRules'
        BY <1>3, <1>4, <1>8, <1>9 DEF AtRules, Opened
    <2>3. AtRule'
        BY <1>1, <1>4, <1>8, <1>10 DEF AtRule
    <2>4. AtOpened'
        BY <1>1, <1>2, <1>3, <1>4
        DEF AtOpened, AtRules, Opened, HostTyped, WorkInv, StepsHold, At, Failed, FirewallTypeOK,
            JobTyped, forget, Ensured
    <2>5. AtRedirect'
        BY <1>1, <1>2, <1>3, <1>4
        DEF AtRedirect, BooksTyped, HostTyped, Records, BooksAgree, WorkInv, StepsHold, At, Failed,
            FirewallTypeOK, JobTyped, forget, Ensured
    <2>6. AtForget'
        BY <1>1, <1>2, <1>3, <1>4
        DEF AtForget, Reclaimed, keepOwned, HostTyped, BooksTyped, Records, WorkInv, StepsHold, At,
            Failed, FirewallTypeOK, JobTyped, forget, Ensured
    <2> QED BY <2>1, <2>2, <2>3, <2>4, <2>5, <2>6 DEF StepsHold
<1>12. WorkLeaves
    BY <1>1, <1>2, <1>4
    DEF WorkInv, WorkLeaves, At, Failed, FirewallTypeOK, JobTyped, BooksTyped, HostTyped, Records,
        BooksAgree, forget, Ensured
<1> QED BY <1>2, <1>5, <1>6, <1>7, <1>11, <1>12, TypesLeft DEF WorkInv

\* A rule behind a refusal is removed before it is forgotten; no awaited node relies on it.
LEMMA UprootHolds ==
    ASSUME RecordsReplaced, WorkInv, WorkFrame, Uproot
    PROVE  WorkInv' /\ WorkLeaves
<1>1. \/ host' = WithRule(NextRule, "none") /\ job' = At("replant")
      \/ host' \in {WithRule(NextRule, "none"), host} /\ job' = Failed
    BY RunsOrFails DEF Uproot
<1>2. /\ job.at = "ensure" /\ job.todo # {} /\ host.allow[NextRule] = "behind"
      /\ backend' = backend /\ record' = record /\ agent' = agent
    BY DEF Uproot, WorkFrame
<1>3. /\ Allows' = Allows /\ Redirects' = Redirects /\ Desired' = Desired
    <2>1. backend'.sources = backend.sources
        BY <1>1, <1>2 DEF WorkInv, FirewallTypeOK, BooksTyped, Records, WithRule
    <2> QED BY <2>1, PlansKept, DesiredKept DEF WorkFrame
<1>4. NextRule \in job.todo /\ NextRule \in RulePorts
    BY NextIsToDo DEF WorkInv, Uproot
<1>5. HostTyped' /\ BooksTyped' /\ JobTyped'
    <2>1. HostTyped'
        BY <1>1, <1>2, <1>4 DEF WorkInv, FirewallTypeOK, HostTyped, WithRule
    <2>2. BooksTyped'
        BY <1>1, <1>2, <1>4 DEF WorkInv, FirewallTypeOK, BooksTyped, Records, WithRule
    <2>3. JobTyped'
        BY <1>1, <1>2, <1>4 DEF WorkInv, FirewallTypeOK, JobTyped, JobSteps, At, Failed, WithRule
    <2> QED BY <2>1, <2>2, <2>3
<1>6. BooksAgree'
    BY <1>1, <1>2, <1>4
    DEF WorkInv, BooksAgree, FirewallTypeOK, BooksTyped, HostTyped, Records, WithRule
<1>7. NothingOrphaned'
    BY <1>1, <1>2, <1>4
    DEF WorkInv, BooksAgree, NothingOrphaned, FirewallTypeOK, BooksTyped, HostTyped, Records,
        WithRule
<1>8. /\ \/ job'.at = "failed"
         \/ job'.at = "replant" /\ job'.todo = job.todo /\ host'.allow[NextRule] = "none"
      /\ host'.allow \in [RulePorts -> {"none", "own", "behind", "manual"}]
      /\ \A p \in RulePorts \ {NextRule} : host'.allow[p] = host.allow[p]
    BY <1>1, <1>2, <1>4, <1>5
    DEF WorkInv, FirewallTypeOK, HostTyped, JobTyped, At, Failed, Ensured, WithRule
<1>9. /\ job.todo \subseteq Allows /\ Allows \subseteq RulePorts
      /\ \A p \in Allows \ job.todo : Opened(p)
    BY <1>2, AllowsArePorts DEF WorkInv, StepsHold, AtRules
<1>10. job'.todo = job.todo => NextRule' = NextRule
    BY DEF NextRule
<1>11. StepsHold'
    <2>1. AtSources' /\ AtDrops'
        BY <1>1, <1>2, <1>3, <1>4
        DEF AtSources, AtDrops, BooksTyped, HostTyped, Records, BooksAgree, NothingOrphaned,
            WorkInv, StepsHold, At, Failed, FirewallTypeOK, JobTyped, WithRule
    <2>2. AtRules'
        BY <1>3, <1>4, <1>8, <1>9 DEF AtRules, Opened
    <2>3. AtRule'
        BY <1>1, <1>4, <1>8, <1>10 DEF AtRule
    <2>4. AtOpened'
        BY <1>1, <1>2, <1>3, <1>4
        DEF AtOpened, AtRules, Opened, HostTyped, WorkInv, StepsHold, At, Failed, FirewallTypeOK,
            JobTyped, WithRule
    <2>5. AtRedirect'
        BY <1>1, <1>2, <1>3, <1>4
        DEF AtRedirect, BooksTyped, HostTyped, Records, BooksAgree, WorkInv, StepsHold, At, Failed,
            FirewallTypeOK, JobTyped, WithRule
    <2>6. AtForget'
        BY <1>1, <1>2, <1>3, <1>4
        DEF AtForget, Reclaimed, keepOwned, HostTyped, BooksTyped, Records, WorkInv, StepsHold, At,
            Failed, FirewallTypeOK, JobTyped, WithRule
    <2> QED BY <2>1, <2>2, <2>3, <2>4, <2>5, <2>6 DEF StepsHold
<1>12. WorkLeaves
    BY <1>1, <1>2, <1>4
    DEF WorkInv, WorkLeaves, At, Failed, FirewallTypeOK, JobTyped, BooksTyped, HostTyped, Records,
        BooksAgree, WithRule
<1> QED BY <1>2, <1>5, <1>6, <1>7, <1>11, <1>12, TypesLeft DEF WorkInv

\* A rule is forgotten once it is gone.
LEMMA ReplantHolds ==
    ASSUME RecordsReplaced, WorkInv, WorkFrame, Replant
    PROVE  WorkInv' /\ WorkLeaves
<1>1. \/ /\ job' = At("ensure") /\ backend' = forget(NextRule)
         /\ record' = forget(NextRule) \/ (forget(NextRule) = backend /\ record' = record)
      \/ job' = Failed /\ backend' = backend /\ record' = record
    BY OwnedOrNot DEF Replant
<1>2. job.at = "replant" /\ host.allow[NextRule] = "none" /\ host' = host /\ agent' = agent
    BY DEF Replant, WorkFrame, WorkInv, StepsHold, AtRule
<1>3. /\ Allows' = Allows /\ Redirects' = Redirects /\ Desired' = Desired
    <2>1. backend'.sources = backend.sources
        BY <1>1, <1>2 DEF WorkInv, FirewallTypeOK, BooksTyped, Records, forget
    <2> QED BY <2>1, PlansKept, DesiredKept DEF WorkFrame
<1>4. HostTyped' /\ BooksTyped' /\ JobTyped'
    <2>1. HostTyped'
        BY <1>1, <1>2 DEF WorkInv, FirewallTypeOK, HostTyped, forget
    <2>2. BooksTyped'
        BY <1>1, <1>2 DEF WorkInv, FirewallTypeOK, BooksTyped, Records, forget
    <2>3. JobTyped'
        BY <1>1, <1>2 DEF WorkInv, FirewallTypeOK, JobTyped, JobSteps, At, Failed, forget
    <2> QED BY <2>1, <2>2, <2>3
<1>5. BooksAgree'
    BY <1>1, <1>2 DEF WorkInv, BooksAgree, FirewallTypeOK, BooksTyped, HostTyped, Records, forget
<1>6. NothingOrphaned'
    BY <1>1, <1>2
    DEF WorkInv, BooksAgree, NothingOrphaned, FirewallTypeOK, BooksTyped, HostTyped, Records, forget
<1>7. StepsHold'
    <2>1. AtSources' /\ AtDrops'
        BY <1>1, <1>2, <1>3
        DEF AtSources, AtDrops, BooksTyped, HostTyped, Records, BooksAgree, NothingOrphaned,
            WorkInv, StepsHold, At, Failed, FirewallTypeOK, JobTyped, forget
    <2>2. AtRules'
        BY <1>1, <1>2, <1>3
        DEF AtRules, Opened, HostTyped, WorkInv, StepsHold, At, Failed, FirewallTypeOK, JobTyped,
            forget
    <2>3. AtRule'
        BY <1>1, <1>2, <1>3
        DEF AtRule, BooksTyped, HostTyped, Records, WorkInv, StepsHold, At, Failed, FirewallTypeOK,
            JobTyped, forget
    <2>4. AtOpened'
        BY <1>1, <1>2, <1>3
        DEF AtOpened, AtRules, Opened, HostTyped, WorkInv, StepsHold, At, Failed, FirewallTypeOK,
            JobTyped, forget
    <2>5. AtRedirect'
        BY <1>1, <1>2, <1>3
        DEF AtRedirect, BooksTyped, HostTyped, Records, BooksAgree, WorkInv, StepsHold, At, Failed,
            FirewallTypeOK, JobTyped, forget
    <2>6. AtForget'
        BY <1>1, <1>2, <1>3
        DEF AtForget, Reclaimed, keepOwned, HostTyped, BooksTyped, Records, WorkInv, StepsHold, At,
            Failed, FirewallTypeOK, JobTyped, forget
    <2> QED BY <2>1, <2>2, <2>3, <2>4, <2>5, <2>6 DEF StepsHold
<1>8. WorkLeaves
    BY <1>1, <1>2
    DEF WorkInv, WorkLeaves, At, Failed, FirewallTypeOK, JobTyped, BooksTyped, HostTyped, Records,
        BooksAgree, forget
<1> QED BY <1>2, <1>4, <1>5, <1>6, <1>7, <1>8, TypesLeft DEF WorkInv

\* A rule is created when it is recorded.
LEMMA PrependHolds ==
    ASSUME RecordsReplaced, WorkInv, WorkFrame, Prepend
    PROVE  WorkInv' /\ WorkLeaves
<1>1. \/ host' = WithRule(NextRule, "own") /\ job' = Ensured("ensure")
      \/ host' \in {WithRule(NextRule, "own"), host} /\ job' = Failed
    BY RunsOrFails DEF Prepend
<1>2. job.at = "prepend" /\ backend' = backend /\ record' = record /\ agent' = agent
    BY DEF Prepend, WorkFrame
<1>3. /\ Allows' = Allows /\ Redirects' = Redirects /\ Desired' = Desired
    <2>1. backend'.sources = backend.sources
        BY <1>1, <1>2 DEF WorkInv, FirewallTypeOK, BooksTyped, Records, WithRule
    <2> QED BY <2>1, PlansKept, DesiredKept DEF WorkFrame
<1>4. NextRule \in job.todo /\ NextRule \in RulePorts /\ NextRule \in backend.owned
    BY NextIsToDo DEF WorkInv, Prepend, StepsHold, AtRule
<1>5. /\ host'.drop = host.drop /\ host'.redirect = host.redirect
      /\ \A q \in RulePorts : host'.allow[q] = host.allow[q] \/ (q = NextRule /\ host'.allow[q] = "own")
      /\ job'.at # "failed" => host'.allow[NextRule] = "own"
    BY <1>1, <1>2, <1>4, RuleWritten DEF WorkInv, FirewallTypeOK, At, Failed, JobTyped
<1>6. HostTyped' /\ BooksTyped' /\ JobTyped'
    <2>1. HostTyped'
        BY <1>1, <1>2, <1>4 DEF WorkInv, FirewallTypeOK, HostTyped, WithRule, Ensured
    <2>2. BooksTyped'
        BY <1>1, <1>2, <1>4 DEF WorkInv, FirewallTypeOK, BooksTyped, Records, WithRule, Ensured
    <2>3. JobTyped'
        <3>1. JobTyped /\ job.todo \ {NextRule} \in SUBSET RulePorts
            BY DEF WorkInv, FirewallTypeOK, JobTyped
        <3> QED BY <1>1, <3>1 DEF JobTyped, JobSteps, At, Failed, Ensured
    <2> QED BY <2>1, <2>2, <2>3
<1>7. BooksAgree'
    BY <1>1, <1>2, <1>4
    DEF WorkInv, BooksAgree, FirewallTypeOK, BooksTyped, HostTyped, Records, WithRule
<1>8. NothingOrphaned'
    BY <1>1, <1>2, <1>4
    DEF WorkInv, BooksAgree, NothingOrphaned, FirewallTypeOK, BooksTyped, HostTyped, Records,
        WithRule
<1>9. /\ \/ job'.at = "failed"
         \/ job'.at = "ensure" /\ job'.todo = job.todo \ {NextRule} /\ host'.allow[NextRule] = "own"
      /\ host'.allow \in [RulePorts -> {"none", "own", "behind", "manual"}]
      /\ \A p \in RulePorts \ {NextRule} : host'.allow[p] = host.allow[p]
    BY <1>1, <1>2, <1>5, <1>6 DEF WorkInv, FirewallTypeOK, HostTyped, JobTyped, At, Failed, Ensured
<1>10. /\ job.todo \subseteq Allows /\ Allows \subseteq RulePorts
      /\ \A p \in Allows \ job.todo : Opened(p)
    BY <1>2, AllowsArePorts DEF WorkInv, StepsHold, AtRules
<1>11. job'.todo = job.todo => NextRule' = NextRule
    BY DEF NextRule
<1>12. StepsHold'
    <2>1. AtSources' /\ AtDrops'
        BY <1>1, <1>2, <1>3, <1>5
        DEF AtSources, AtDrops, BooksTyped, HostTyped, Records, BooksAgree, NothingOrphaned,
            WorkInv, StepsHold, At, Failed, FirewallTypeOK, JobTyped, Ensured
    <2>2. AtRules'
        BY <1>3, <1>4, <1>9, <1>10 DEF AtRules, Opened
    <2>3. AtRule'
        BY <1>1, <1>4, <1>9, <1>11 DEF AtRule
    <2>4. AtOpened'
        BY <1>1, <1>2, <1>3, <1>4
        DEF AtOpened, AtRules, Opened, HostTyped, WorkInv, StepsHold, At, Failed, FirewallTypeOK,
            JobTyped, WithRule, Ensured
    <2>5. AtRedirect'
        BY <1>1, <1>2, <1>3, <1>4
        DEF AtRedirect, BooksTyped, HostTyped, Records, BooksAgree, WorkInv, StepsHold, At, Failed,
            FirewallTypeOK, JobTyped, WithRule, Ensured
    <2>6. AtForget'
        BY <1>9 DEF AtForget
    <2> QED BY <2>1, <2>2, <2>3, <2>4, <2>5, <2>6 DEF StepsHold
<1>13. WorkLeaves
    BY <1>1, <1>2, <1>5
    DEF WorkInv, WorkLeaves, At, Failed, FirewallTypeOK, JobTyped, BooksTyped, HostTyped, Records,
        BooksAgree, Ensured
<1> QED BY <1>2, <1>6, <1>7, <1>8, <1>12, <1>13, TypesLeft DEF WorkInv

\* The redirections are recorded before there are any.
LEMMA RedirectIntentHolds ==
    ASSUME RecordsReplaced, WorkInv, WorkFrame, RedirectIntent
    PROVE  WorkInv' /\ WorkLeaves
<1>1. \/ /\ job' = At("reclaim") /\ Redirects = {} /\ ~backend.redirect /\ backend' = backend
         /\ record' = record
      \/ /\ job' = At("redirect") /\ backend' = [backend EXCEPT !.redirect = TRUE]
         /\ record' = [backend EXCEPT !.redirect = TRUE]
      \/ job' = Failed /\ backend' = [backend EXCEPT !.redirect = TRUE] /\ record' = record
    BY SavedOrNot DEF RedirectIntent, Skip
<1>2. job.at = "ensure" /\ job.todo = {} /\ host' = host /\ agent' = agent
    BY DEF RedirectIntent, WorkFrame
<1>3. /\ Allows' = Allows /\ Redirects' = Redirects /\ Desired' = Desired
    <2>1. backend'.sources = backend.sources
        BY <1>1, <1>2 DEF WorkInv, FirewallTypeOK, BooksTyped, Records
    <2> QED BY <2>1, PlansKept, DesiredKept DEF WorkFrame
<1>4. HostTyped' /\ BooksTyped' /\ JobTyped'
    <2>1. HostTyped'
        BY <1>1, <1>2 DEF WorkInv, FirewallTypeOK, HostTyped
    <2>2. BooksTyped'
        BY <1>1, <1>2 DEF WorkInv, FirewallTypeOK, BooksTyped, Records
    <2>3. JobTyped'
        BY <1>1, <1>2 DEF WorkInv, FirewallTypeOK, JobTyped, JobSteps, At, Failed
    <2> QED BY <2>1, <2>2, <2>3
<1>5. BooksAgree'
    BY <1>1, <1>2 DEF WorkInv, BooksAgree, FirewallTypeOK, BooksTyped, HostTyped, Records
<1>6. NothingOrphaned'
    BY <1>1, <1>2
    DEF WorkInv, BooksAgree, NothingOrphaned, FirewallTypeOK, BooksTyped, HostTyped, Records
<1>7. StepsHold'
    <2>1. AtSources' /\ AtDrops'
        BY <1>1, <1>2, <1>3
        DEF AtSources, AtDrops, BooksTyped, HostTyped, Records, BooksAgree, NothingOrphaned,
            WorkInv, StepsHold, At, Failed, FirewallTypeOK, JobTyped
    <2>2. AtRules'
        BY <1>1, <1>2, <1>3
        DEF AtRules, Opened, HostTyped, WorkInv, StepsHold, At, Failed, FirewallTypeOK, JobTyped
    <2>3. AtRule'
        BY <1>1, <1>2, <1>3
        DEF AtRule, BooksTyped, HostTyped, Records, WorkInv, StepsHold, At, Failed, FirewallTypeOK,
            JobTyped
    <2>4. AtOpened'
        BY <1>1, <1>2, <1>3
        DEF AtOpened, AtRules, Opened, HostTyped, WorkInv, StepsHold, At, Failed, FirewallTypeOK,
            JobTyped
    <2>5. AtRedirect'
        BY <1>1, <1>2, <1>3
        DEF AtRedirect, BooksTyped, HostTyped, Records, BooksAgree, WorkInv, StepsHold, At, Failed,
            FirewallTypeOK, JobTyped
    <2>6. AtForget'
        BY <1>1, <1>2, <1>3
        DEF AtForget, Reclaimed, keepOwned, HostTyped, BooksTyped, Records, WorkInv, StepsHold, At,
            Failed, FirewallTypeOK, JobTyped
    <2> QED BY <2>1, <2>2, <2>3, <2>4, <2>5, <2>6 DEF StepsHold
<1>8. WorkLeaves
    BY <1>1, <1>2
    DEF WorkInv, WorkLeaves, At, Failed, FirewallTypeOK, JobTyped, BooksTyped, HostTyped, Records,
        BooksAgree
<1> QED BY <1>2, <1>4, <1>5, <1>6, <1>7, <1>8, TypesLeft DEF WorkInv

\* The redirections become those wanted, while the record says that there are some.
LEMMA syncNFTHolds ==
    ASSUME RecordsReplaced, WorkInv, WorkFrame, syncNFT
    PROVE  WorkInv' /\ WorkLeaves
<1>1. \/ /\ host' = [host EXCEPT !.redirect = Redirects]
         /\ job' = At(IF Redirects = {} THEN "noredirect" ELSE "reclaim")
      \/ host' \in {[host EXCEPT !.redirect = Redirects], host} /\ job' = Failed
    BY RunsOrFails DEF syncNFT
<1>2. job.at = "redirect" /\ backend' = backend /\ record' = record /\ agent' = agent
    BY DEF syncNFT, WorkFrame
<1>3. /\ Allows' = Allows /\ Redirects' = Redirects /\ Desired' = Desired
    <2>1. backend'.sources = backend.sources
        BY <1>1, <1>2 DEF WorkInv, FirewallTypeOK, BooksTyped, Records
    <2> QED BY <2>1, PlansKept, DesiredKept DEF WorkFrame
<1>4. Redirects \subseteq ListenPorts /\ backend.redirect /\ record.redirect
    BY AllowsArePorts DEF WorkInv, StepsHold, AtRedirect, syncNFT
<1>5. HostTyped' /\ BooksTyped' /\ JobTyped'
    <2>1. HostTyped'
        BY <1>1, <1>2, <1>4 DEF WorkInv, FirewallTypeOK, HostTyped
    <2>2. BooksTyped'
        BY <1>1, <1>2, <1>4 DEF WorkInv, FirewallTypeOK, BooksTyped, Records
    <2>3. JobTyped'
        BY <1>1, <1>2, <1>4 DEF WorkInv, FirewallTypeOK, JobTyped, JobSteps, At, Failed
    <2> QED BY <2>1, <2>2, <2>3
<1>6. BooksAgree'
    BY <1>1, <1>2, <1>4 DEF WorkInv, BooksAgree, FirewallTypeOK, BooksTyped, HostTyped, Records
<1>7. NothingOrphaned'
    BY <1>1, <1>2, <1>4
    DEF WorkInv, BooksAgree, NothingOrphaned, FirewallTypeOK, BooksTyped, HostTyped, Records
<1>8. StepsHold'
    <2>1. AtSources' /\ AtDrops'
        BY <1>1, <1>2, <1>3, <1>4
        DEF AtSources, AtDrops, BooksTyped, HostTyped, Records, BooksAgree, NothingOrphaned,
            WorkInv, StepsHold, At, Failed, FirewallTypeOK, JobTyped
    <2>2. AtRules'
        BY <1>1, <1>2, <1>3, <1>4
        DEF AtRules, Opened, HostTyped, WorkInv, StepsHold, At, Failed, FirewallTypeOK, JobTyped
    <2>3. AtRule'
        BY <1>1, <1>2, <1>3, <1>4
        DEF AtRule, BooksTyped, HostTyped, Records, WorkInv, StepsHold, At, Failed, FirewallTypeOK,
            JobTyped
    <2>4. AtOpened'
        BY <1>1, <1>2, <1>3, <1>4
        DEF AtOpened, AtRules, Opened, HostTyped, WorkInv, StepsHold, At, Failed, FirewallTypeOK,
            JobTyped
    <2>5. AtRedirect'
        BY <1>1, <1>2, <1>3, <1>4
        DEF AtRedirect, BooksTyped, HostTyped, Records, BooksAgree, WorkInv, StepsHold, At, Failed,
            FirewallTypeOK, JobTyped
    <2>6. AtForget'
        BY <1>1, <1>2, <1>3, <1>4
        DEF AtForget, Reclaimed, keepOwned, HostTyped, BooksTyped, Records, WorkInv, StepsHold, At,
            Failed, FirewallTypeOK, JobTyped
    <2> QED BY <2>1, <2>2, <2>3, <2>4, <2>5, <2>6 DEF StepsHold
<1>9. WorkLeaves
    BY <1>1, <1>2, <1>4
    DEF WorkInv, WorkLeaves, At, Failed, FirewallTypeOK, JobTyped, BooksTyped, HostTyped, Records,
        BooksAgree
<1> QED BY <1>2, <1>5, <1>6, <1>7, <1>8, <1>9, TypesLeft DEF WorkInv

\* The redirections are forgotten once there are none.
LEMMA RedirectForgottenHolds ==
    ASSUME RecordsReplaced, WorkInv, WorkFrame, RedirectForgotten
    PROVE  WorkInv' /\ WorkLeaves
<1>1. \/ /\ job' = At("reclaim") /\ backend' = [backend EXCEPT !.redirect = FALSE]
         /\ record' = [backend EXCEPT !.redirect = FALSE]
      \/ job' = Failed /\ backend' = [backend EXCEPT !.redirect = FALSE] /\ record' = record
    BY SavedOrNot DEF RedirectForgotten
<1>2. job.at = "noredirect" /\ host.redirect = {} /\ host' = host /\ agent' = agent
    BY DEF RedirectForgotten, WorkFrame, WorkInv, StepsHold, AtRedirect
<1>3. /\ Allows' = Allows /\ Redirects' = Redirects /\ Desired' = Desired
    <2>1. backend'.sources = backend.sources
        BY <1>1, <1>2 DEF WorkInv, FirewallTypeOK, BooksTyped, Records
    <2> QED BY <2>1, PlansKept, DesiredKept DEF WorkFrame
<1>4. HostTyped' /\ BooksTyped' /\ JobTyped'
    <2>1. HostTyped'
        BY <1>1, <1>2 DEF WorkInv, FirewallTypeOK, HostTyped
    <2>2. BooksTyped'
        BY <1>1, <1>2 DEF WorkInv, FirewallTypeOK, BooksTyped, Records
    <2>3. JobTyped'
        BY <1>1, <1>2 DEF WorkInv, FirewallTypeOK, JobTyped, JobSteps, At, Failed
    <2> QED BY <2>1, <2>2, <2>3
<1>5. BooksAgree'
    BY <1>1, <1>2 DEF WorkInv, BooksAgree, FirewallTypeOK, BooksTyped, HostTyped, Records
<1>6. NothingOrphaned'
    BY <1>1, <1>2
    DEF WorkInv, BooksAgree, NothingOrphaned, FirewallTypeOK, BooksTyped, HostTyped, Records
<1>7. StepsHold'
    <2>1. AtSources' /\ AtDrops'
        BY <1>1, <1>2, <1>3
        DEF AtSources, AtDrops, BooksTyped, HostTyped, Records, BooksAgree, NothingOrphaned,
            WorkInv, StepsHold, At, Failed, FirewallTypeOK, JobTyped
    <2>2. AtRules'
        BY <1>1, <1>2, <1>3
        DEF AtRules, Opened, HostTyped, WorkInv, StepsHold, At, Failed, FirewallTypeOK, JobTyped
    <2>3. AtRule'
        BY <1>1, <1>2, <1>3
        DEF AtRule, BooksTyped, HostTyped, Records, WorkInv, StepsHold, At, Failed, FirewallTypeOK,
            JobTyped
    <2>4. AtOpened'
        BY <1>1, <1>2, <1>3
        DEF AtOpened, AtRules, Opened, HostTyped, WorkInv, StepsHold, At, Failed, FirewallTypeOK,
            JobTyped
    <2>5. AtRedirect'
        BY <1>1, <1>2, <1>3
        DEF AtRedirect, BooksTyped, HostTyped, Records, BooksAgree, WorkInv, StepsHold, At, Failed,
            FirewallTypeOK, JobTyped
    <2>6. AtForget'
        BY <1>1, <1>2, <1>3
        DEF AtForget, Reclaimed, keepOwned, HostTyped, BooksTyped, Records, WorkInv, StepsHold, At,
            Failed, FirewallTypeOK, JobTyped
    <2> QED BY <2>1, <2>2, <2>3, <2>4, <2>5, <2>6 DEF StepsHold
<1>8. WorkLeaves
    BY <1>1, <1>2
    DEF WorkInv, WorkLeaves, At, Failed, FirewallTypeOK, JobTyped, BooksTyped, HostTyped, Records,
        BooksAgree
<1> QED BY <1>2, <1>4, <1>5, <1>6, <1>7, <1>8, TypesLeft DEF WorkInv

\* A rule no node wants is removed, and none while a node is awaited.
LEMMA ReclaimHolds ==
    ASSUME RecordsReplaced, WorkInv, WorkFrame, Reclaim
    PROVE  WorkInv' /\ WorkLeaves
<1>1. \E p \in Reclaimed :
         \/ /\ host.allow[p] \in {"own", "behind"} /\ host' = WithRule(p, "none")
            /\ job' = [job EXCEPT !.at = "forget", !.rule = p]
         \/ /\ host.allow[p] \in {"own", "behind"} /\ host' \in {WithRule(p, "none"), host}
            /\ job' = Failed
         \/ /\ host.allow[p] \notin {"own", "behind"} /\ host' = host
            /\ job' = [job EXCEPT !.at = "forget", !.rule = p]
    BY RunsOrFails DEF Reclaim
<1>2. job.at = "reclaim" /\ backend' = backend /\ record' = record /\ agent' = agent
    BY DEF Reclaim, WorkFrame
<1>3. /\ Allows' = Allows /\ Redirects' = Redirects /\ Desired' = Desired
    <2>1. backend'.sources = backend.sources
        BY <1>1, <1>2 DEF WorkInv, FirewallTypeOK, BooksTyped, Records, WithRule
    <2> QED BY <2>1, PlansKept, DesiredKept DEF WorkFrame
<1>4. /\ Reclaimed \subseteq RulePorts \ Allows
      /\ Recovering => Reclaimed = {}
    BY DEF Reclaimed, keepOwned, WorkInv, FirewallTypeOK, BooksTyped, Records
<1>5. /\ host'.drop = host.drop /\ host'.redirect = host.redirect
      /\ \A q \in RulePorts : host'.allow[q] = host.allow[q] \/ (q \in Reclaimed /\ host'.allow[q] = "none")
      /\ \/ job'.at = "failed"
         \/ /\ job'.at = "forget" /\ job'.rule \in Reclaimed
            /\ host'.allow[job'.rule] \notin {"own", "behind"}
    <2>1. PICK p \in Reclaimed :
             \/ /\ host.allow[p] \in {"own", "behind"} /\ host' = WithRule(p, "none")
                /\ job' = [job EXCEPT !.at = "forget", !.rule = p]
             \/ /\ host.allow[p] \in {"own", "behind"} /\ host' \in {WithRule(p, "none"), host}
                /\ job' = Failed
             \/ /\ host.allow[p] \notin {"own", "behind"} /\ host' = host
                /\ job' = [job EXCEPT !.at = "forget", !.rule = p]
        BY <1>1
    <2>2. p \in RulePorts /\ HostTyped /\ JobTyped
        BY <1>4 DEF WorkInv, FirewallTypeOK
    <2>3. CASE host' # WithRule(p, "none")
        BY <2>1, <2>2, <2>3 DEF At, Failed, JobTyped
    <2>4. CASE host' = WithRule(p, "none")
        <3>1. /\ host'.drop = host.drop /\ host'.redirect = host.redirect
              /\ host'.allow[p] = "none" /\ \A q \in RulePorts \ {p} : host'.allow[q] = host.allow[q]
            BY <2>2, <2>4, RuleWritten
        <3>2. job'.at = "failed" \/ (job'.at = "forget" /\ job'.rule = p)
            BY <2>1, <2>2 DEF At, Failed, JobTyped
        <3> QED BY <2>1, <3>1, <3>2
    <2> QED BY <2>1, <2>3, <2>4
<1>6. HostTyped' /\ BooksTyped' /\ JobTyped'
    <2>1. HostTyped'
        BY <1>1, <1>2, <1>4 DEF WorkInv, FirewallTypeOK, HostTyped, WithRule
    <2>2. BooksTyped'
        BY <1>1, <1>2, <1>4 DEF WorkInv, FirewallTypeOK, BooksTyped, Records, WithRule
    <2>3. JobTyped'
        BY <1>1, <1>2, <1>4 DEF WorkInv, FirewallTypeOK, JobTyped, JobSteps, At, Failed, WithRule
    <2> QED BY <2>1, <2>2, <2>3
<1>7. BooksAgree'
    BY <1>1, <1>2, <1>4
    DEF WorkInv, BooksAgree, FirewallTypeOK, BooksTyped, HostTyped, Records, WithRule
<1>8. NothingOrphaned'
    BY <1>1, <1>2, <1>4
    DEF WorkInv, BooksAgree, NothingOrphaned, FirewallTypeOK, BooksTyped, HostTyped, Records,
        WithRule
<1>9. StepsHold'
    <2>1. AtSources' /\ AtDrops'
        BY <1>1, <1>2, <1>3, <1>4
        DEF AtSources, AtDrops, BooksTyped, HostTyped, Records, BooksAgree, NothingOrphaned,
            WorkInv, StepsHold, At, Failed, FirewallTypeOK, JobTyped, WithRule
    <2>2. AtRules'
        BY <1>1, <1>2, <1>3, <1>4
        DEF AtRules, Opened, HostTyped, WorkInv, StepsHold, At, Failed, FirewallTypeOK, JobTyped,
            WithRule
    <2>3. AtRule'
        BY <1>1, <1>2, <1>3, <1>4
        DEF AtRule, BooksTyped, HostTyped, Records, WorkInv, StepsHold, At, Failed, FirewallTypeOK,
            JobTyped, WithRule
    <2>4. AtOpened'
        BY <1>2, <1>3, <1>4, <1>5, AllowsArePorts
        DEF AtOpened, AtRules, Opened, HostTyped, WorkInv, StepsHold, At, Failed, FirewallTypeOK,
            JobTyped, WithRule
    <2>5. AtRedirect'
        BY <1>1, <1>2, <1>3, <1>4
        DEF AtRedirect, BooksTyped, HostTyped, Records, BooksAgree, WorkInv, StepsHold, At, Failed,
            FirewallTypeOK, JobTyped, WithRule
    <2>6. AtForget'
        BY <1>2, <1>3, <1>4, <1>5
        DEF AtForget, HostTyped, BooksTyped, Records, WorkInv, StepsHold, At, Failed,
            FirewallTypeOK, JobTyped, WithRule
    <2> QED BY <2>1, <2>2, <2>3, <2>4, <2>5, <2>6 DEF StepsHold
<1>10. WorkLeaves
    BY <1>1, <1>2, <1>4
    DEF WorkInv, WorkLeaves, At, Failed, FirewallTypeOK, JobTyped, BooksTyped, HostTyped, Records,
        BooksAgree, WithRule
<1> QED BY <1>2, <1>6, <1>7, <1>8, <1>9, <1>10, TypesLeft DEF WorkInv

\* A rule is forgotten once it is gone.
LEMMA ForgetHolds ==
    ASSUME RecordsReplaced, WorkInv, WorkFrame, Forget
    PROVE  WorkInv' /\ WorkLeaves
<1>1. \/ /\ job' = [job EXCEPT !.at = "reclaim", !.rule = 0] /\ backend' = forget(job.rule)
         /\ record' = forget(job.rule) \/ (forget(job.rule) = backend /\ record' = record)
      \/ job' = Failed /\ backend' = backend /\ record' = record
    BY OwnedOrNot DEF Forget
<1>2. /\ job.at = "forget" /\ host.allow[job.rule] \notin {"own", "behind"} /\ host' = host
      /\ agent' = agent
    BY DEF Forget, WorkFrame, WorkInv, StepsHold, AtForget
<1>3. /\ Allows' = Allows /\ Redirects' = Redirects /\ Desired' = Desired
    <2>1. backend'.sources = backend.sources
        BY <1>1, <1>2 DEF WorkInv, FirewallTypeOK, BooksTyped, Records, forget
    <2> QED BY <2>1, PlansKept, DesiredKept DEF WorkFrame
<1>4. HostTyped' /\ BooksTyped' /\ JobTyped'
    <2>1. HostTyped'
        BY <1>1, <1>2 DEF WorkInv, FirewallTypeOK, HostTyped, forget
    <2>2. BooksTyped'
        BY <1>1, <1>2 DEF WorkInv, FirewallTypeOK, BooksTyped, Records, forget
    <2>3. JobTyped'
        BY <1>1, <1>2 DEF WorkInv, FirewallTypeOK, JobTyped, JobSteps, At, Failed, forget
    <2> QED BY <2>1, <2>2, <2>3
<1>5. BooksAgree'
    BY <1>1, <1>2 DEF WorkInv, BooksAgree, FirewallTypeOK, BooksTyped, HostTyped, Records, forget
<1>6. NothingOrphaned'
    BY <1>1, <1>2
    DEF WorkInv, BooksAgree, NothingOrphaned, FirewallTypeOK, BooksTyped, HostTyped, Records, forget
<1>7. StepsHold'
    <2>1. AtSources' /\ AtDrops'
        BY <1>1, <1>2, <1>3
        DEF AtSources, AtDrops, BooksTyped, HostTyped, Records, BooksAgree, NothingOrphaned,
            WorkInv, StepsHold, At, Failed, FirewallTypeOK, JobTyped, forget
    <2>2. AtRules'
        BY <1>1, <1>2, <1>3
        DEF AtRules, Opened, HostTyped, WorkInv, StepsHold, At, Failed, FirewallTypeOK, JobTyped,
            forget
    <2>3. AtRule'
        BY <1>1, <1>2, <1>3
        DEF AtRule, BooksTyped, HostTyped, Records, WorkInv, StepsHold, At, Failed, FirewallTypeOK,
            JobTyped, forget
    <2>4. AtOpened'
        BY <1>1, <1>2, <1>3
        DEF AtOpened, AtRules, Opened, HostTyped, WorkInv, StepsHold, At, Failed, FirewallTypeOK,
            JobTyped, forget
    <2>5. AtRedirect'
        BY <1>1, <1>2, <1>3
        DEF AtRedirect, BooksTyped, HostTyped, Records, BooksAgree, WorkInv, StepsHold, At, Failed,
            FirewallTypeOK, JobTyped, forget
    <2>6. AtForget'
        BY <1>1, <1>2, <1>3
        DEF AtForget, Reclaimed, keepOwned, HostTyped, BooksTyped, Records, WorkInv, StepsHold, At,
            Failed, FirewallTypeOK, JobTyped, forget
    <2> QED BY <2>1, <2>2, <2>3, <2>4, <2>5, <2>6 DEF StepsHold
<1>8. WorkLeaves
    BY <1>1, <1>2
    DEF WorkInv, WorkLeaves, At, Failed, FirewallTypeOK, JobTyped, BooksTyped, HostTyped, Records,
        BooksAgree, forget
<1> QED BY <1>2, <1>4, <1>5, <1>6, <1>7, <1>8, TypesLeft DEF WorkInv

\* The work ends when nothing is left to take back.
LEMMA ReconciledHolds ==
    ASSUME RecordsReplaced, WorkInv, WorkFrame, Reconciled
    PROVE  WorkInv' /\ WorkLeaves
<1>1. job' = At("done")
    BY DEF Reconciled, Skip
<1>2. /\ job.at = "reclaim" /\ Reclaimed = {} /\ host' = host /\ backend' = backend
      /\ record' = record /\ agent' = agent
    BY DEF Reconciled, WorkFrame, Skip
<1>3. /\ Allows' = Allows /\ Redirects' = Redirects /\ Desired' = Desired
    <2>1. backend'.sources = backend.sources
        BY <1>1, <1>2 DEF WorkInv, FirewallTypeOK, BooksTyped, Records
    <2> QED BY <2>1, PlansKept, DesiredKept DEF WorkFrame
<1>4. Reclaimed' = {}
    BY <1>2, PlansKept DEF Reclaimed, keepOwned, WorkFrame
<1>5. HostTyped' /\ BooksTyped' /\ JobTyped'
    <2>1. HostTyped'
        BY <1>1, <1>2 DEF WorkInv, FirewallTypeOK, HostTyped
    <2>2. BooksTyped'
        BY <1>1, <1>2 DEF WorkInv, FirewallTypeOK, BooksTyped, Records
    <2>3. JobTyped'
        BY <1>1, <1>2 DEF WorkInv, FirewallTypeOK, JobTyped, JobSteps, At, Failed
    <2> QED BY <2>1, <2>2, <2>3
<1>6. BooksAgree'
    BY <1>1, <1>2 DEF WorkInv, BooksAgree, FirewallTypeOK, BooksTyped, HostTyped, Records
<1>7. NothingOrphaned'
    BY <1>1, <1>2
    DEF WorkInv, BooksAgree, NothingOrphaned, FirewallTypeOK, BooksTyped, HostTyped, Records
<1>8. StepsHold'
    <2>1. AtSources' /\ AtDrops'
        BY <1>1, <1>2, <1>3, <1>4
        DEF AtSources, AtDrops, BooksTyped, HostTyped, Records, BooksAgree, NothingOrphaned,
            WorkInv, StepsHold, At, Failed, FirewallTypeOK, JobTyped
    <2>2. AtRules'
        BY <1>1, <1>2, <1>3, <1>4
        DEF AtRules, Opened, HostTyped, WorkInv, StepsHold, At, Failed, FirewallTypeOK, JobTyped
    <2>3. AtRule'
        BY <1>1, <1>2, <1>3, <1>4
        DEF AtRule, BooksTyped, HostTyped, Records, WorkInv, StepsHold, At, Failed, FirewallTypeOK,
            JobTyped
    <2>4. AtOpened'
        BY <1>1, <1>2, <1>3, <1>4
        DEF AtOpened, AtRules, Opened, HostTyped, WorkInv, StepsHold, At, Failed, FirewallTypeOK,
            JobTyped
    <2>5. AtRedirect'
        BY <1>1, <1>2, <1>3, <1>4
        DEF AtRedirect, BooksTyped, HostTyped, Records, BooksAgree, WorkInv, StepsHold, At, Failed,
            FirewallTypeOK, JobTyped
    <2>6. AtForget'
        BY <1>1, <1>2, <1>3, <1>4
        DEF AtForget, Reclaimed, keepOwned, HostTyped, BooksTyped, Records, WorkInv, StepsHold, At,
            Failed, FirewallTypeOK, JobTyped
    <2> QED BY <2>1, <2>2, <2>3, <2>4, <2>5, <2>6 DEF StepsHold
<1>9. WorkLeaves
    BY <1>1, <1>2, <1>4
    DEF WorkInv, WorkLeaves, At, Failed, FirewallTypeOK, JobTyped, BooksTyped, HostTyped, Records,
        BooksAgree
<1> QED BY <1>2, <1>5, <1>6, <1>7, <1>8, <1>9, TypesLeft DEF WorkInv

\* Whatever the holder of the lock does keeps the invariant.
LEMMA WorkHolds ==
    ASSUME RecordsReplaced, FirewallInv, Work
    PROVE  FirewallInv'
<1>1. WorkFrame /\ job.at \notin {"none", "done", "failed", "refused", "returned"}
    BY
    DEF Work, WorkFrame, SourceIntent, syncSourceNFT, SourceSave, ReadHost, Remember, LeaveManual,
        Uproot,
           Replant, Prepend, RedirectIntent, syncNFT, RedirectForgotten, Reclaim, Forget, Reconciled
<1>2. WorkInv
    BY <1>1 DEF FirewallInv, WorkInv, LockHolds, Unlocked
<1>3. WorkInv' /\ WorkLeaves
    BY <1>1, <1>2, SourceIntentHolds, syncSourceNFTHolds, SourceSaveHolds, ReadHostHolds,
       RememberHolds,
       LeaveManualHolds, UprootHolds, ReplantHolds, PrependHolds, RedirectIntentHolds, syncNFTHolds,
       RedirectForgottenHolds, ReclaimHolds, ForgetHolds, ReconciledHolds DEF Work
<1>4. /\ agent' = agent /\ node' = node /\ plans' = plans /\ confirm' = confirm
      /\ expected' = expected /\ discovery' = discovery /\ before' = before
    BY <1>1 DEF WorkFrame, managerVars
<1>5. LockHolds'
    BY <1>1, <1>3, <1>4 DEF FirewallInv, LockHolds, WorkLeaves, WorkInv, Unlocked
<1>6. CallHolds'
    BY <1>1, <1>3, <1>4 DEF FirewallInv, CallHolds, WorkLeaves
<1>7. ServicesGuarded'
    <2>1. ASSUME NEW o \in Owners, NEW c \in Confs, Behind(o, c) PROVE Behind(o, c)'
        BY <1>3, <1>4, <2>1 DEF Behind, WorkLeaves, Desired, Guarded
    <2>2. ASSUME NEW o \in Owners PROVE ServiceHolds(o)'
        <3>1. node[o].runs \in Confs \cup {NoPlan} /\ node[o].conf \in Confs \cup {NoPlan}
            BY DEF FirewallInv, FirewallTypeOK, NodesTyped
        <3> QED BY <1>4, <2>1, <3>1 DEF FirewallInv, ServicesGuarded, ServiceHolds, Guarded
    <2> QED BY <1>4, <2>2 DEF FirewallInv, ServicesGuarded
<1>8. LeftHolds'
    <2>1. ASSUME NEW o \in Owners, Awaits(o), Kept(o) PROVE Kept(o)'
        <3>1. Recovering /\ plans[o] = NoPlan
            BY <2>1 DEF FirewallInv, LeftHolds, Awaits, Recovering
        <3>2. \A p \in before[o].allow : p \in RulePorts
            BY DEF FirewallInv, FirewallTypeOK, BeforeTyped
        <3>3. host'.drop[o] = host.drop[o] \/ host'.drop[o] = record.sources[o]
            BY <1>2, <1>3, <3>1 DEF WorkLeaves, Desired, WorkInv, BooksAgree
        <3> QED BY <1>3, <1>4, <2>1, <3>1, <3>2, <3>3 DEF Kept, WorkLeaves
    <2>2. Recovering' = Recovering
        BY <1>4 DEF Recovering
    <2> QED BY <1>2, <1>4, <2>1, <2>2 DEF FirewallInv, LeftHolds, Awaits, WorkInv
<1> QED BY <1>3, <1>5, <1>6, <1>7, <1>8 DEF FirewallInv, WorkInv

-----------------------------------------------------------------------------
\* A service moves: everything but the phases stays.
LEMMA OnlyServiceMoves ==
    ASSUME FirewallInv, NEW o \in Owners, NEW n, Step(o, n),
           n \in [conf : Confs \cup {NoPlan}, runs : Confs \cup {NoPlan}, phase : Phases],
           node[o].phase \in {"idle", "kernel"} \/ (node[o].phase = "start" /\ node[o].conf.kind \in {"landing", "hop"}),
           /\ n.phase \notin {"idle", "release"} => n.conf \in Confs
           /\ n.phase \in {"start", "release", "restart"} => n.runs = NoPlan
           /\ Guarded(n.runs) => /\ n.conf = n.runs /\ n.phase \in {"idle", "confirm"}
                                 /\ Behind(o, n.runs)
           /\ n.phase = "kernel" /\ Guarded(n.conf) => Behind(o, n.conf)
    PROVE  FirewallInv'
<1>1. /\ agent = "up" /\ agent' = agent /\ plans' = plans /\ confirm' = confirm
      /\ expected' = expected
      /\ discovery' = discovery /\ lastErr' = lastErr /\ backend' = backend /\ record' = record
      /\ host' = host /\ job' = job /\ before' = before
    BY DEF Step, managerVars
<1>2. node' = [node EXCEPT ![o] = n] /\ NodesTyped
    BY DEF Step, FirewallInv, FirewallTypeOK
<1>3. /\ node'[o] = n /\ \A q \in Owners \ {o} : node'[q] = node[q]
      /\ NodesTyped'
    BY <1>2 DEF NodesTyped
<1>4. FirewallTypeOK'
    BY <1>1, <1>3
    DEF FirewallInv, FirewallTypeOK, PlansTyped, HostTyped, BooksTyped, JobTyped, BeforeTyped
<1>5. /\ Allows' = Allows /\ Redirects' = Redirects /\ Recovering' = Recovering
      /\ Protected' = Protected
      /\ Desired' = Desired /\ NextRule' = NextRule
    BY <1>1, PlansKept, DesiredKept DEF managerVars, NextRule
<1>6. StepsHold'
    BY <1>1, <1>5
    DEF FirewallInv, StepsHold, AtSources, AtDrops, AtRules, AtRule, AtOpened, AtRedirect, AtForget,
                      Reclaimed, keepOwned, Opened
<1>7. BooksAgree' /\ NothingOrphaned' /\ LockHolds' /\ LeftHolds'
    BY <1>1, <1>5
    DEF FirewallInv, BooksAgree, NothingOrphaned, LockHolds, LeftHolds, Kept, Awaits, Unlocked
<1>8. CallHolds'
    <2>1. job.op = "node" => job.owner # o
        BY FirewallAssumption DEF FirewallInv, CallHolds, Guarded
    <2> QED BY <1>1, <1>3, <2>1 DEF FirewallInv, CallHolds
<1>9. ServicesGuarded'
    <2>1. \A q \in Owners : ServiceHolds(q)'
        BY <1>1, <1>3 DEF FirewallInv, ServicesGuarded, ServiceHolds, Behind
    <2> QED BY <1>1, <2>1 DEF ServicesGuarded
<1> QED BY <1>4, <1>6, <1>7, <1>8, <1>9 DEF FirewallInv

\* The steps of a service between its calls keep the invariant.
LEMMA ServiceMoves ==
    ASSUME FirewallInv, NEW o \in Owners,
           NodeConfigured(o) \/ NodeStarts(o) \/ NodeStops(o) \/ NodeTries(o)
    PROVE  FirewallInv'
<1>1. /\ node[o] \in [conf : Confs \cup {NoPlan}, runs : Confs \cup {NoPlan}, phase : Phases]
      /\ ServiceHolds(o)
    BY DEF FirewallInv, FirewallTypeOK, NodesTyped, ServicesGuarded
<1>2. \A c \in Confs : c # NoPlan /\ c.kind \in Kinds
    BY FirewallAssumption
<1>3. CASE NodeConfigured(o)
    <2>1. node[o].phase = "idle"
        BY <1>3 DEF NodeConfigured
    <2>2. PICK c \in Confs \ {node[o].conf} :
             LET old == node[o].runs
                 stops == old # NoPlan /\ (Guarded(c) \/ Guarded(old) \/ Manual(c) # Manual(old))
             IN Step(o, [conf |-> c,
                         runs |-> IF stops THEN NoPlan ELSE old,
                         phase |-> IF old = NoPlan THEN "start" ELSE IF stops THEN "restart"
                                   ELSE "kernel"])
        BY <1>3 DEF NodeConfigured
    <2> DEFINE old == node[o].runs
    <2> DEFINE stops == old # NoPlan /\ (Guarded(c) \/ Guarded(old) \/ Manual(c) # Manual(old))
    <2> DEFINE n == [conf |-> c,
                     runs |-> IF stops THEN NoPlan ELSE old,
                     phase |-> IF old = NoPlan THEN "start" ELSE IF stops THEN "restart" ELSE "kernel"]
    <2>3. Step(o, n)
        BY <2>2
    <2>4. n \in [conf : Confs \cup {NoPlan}, runs : Confs \cup {NoPlan}, phase : Phases]
        BY <1>1 DEF Phases
    <2>5. /\ n.phase \notin {"idle", "release"} => n.conf \in Confs
          /\ n.phase \in {"start", "release", "restart"} => n.runs = NoPlan
          /\ ~Guarded(n.runs)
          /\ n.phase = "kernel" => ~Guarded(n.conf)
        BY DEF Guarded
    <2> HIDE DEF n
    <2> QED BY <2>1, <2>3, <2>4, <2>5, OnlyServiceMoves
<1>4. CASE NodeStarts(o)
    <2>1. /\ node[o].phase = "kernel"
             \/ (node[o].phase = "start" /\ node[o].conf.kind \in {"landing", "hop"})
          /\ node[o].conf \in Confs
        BY <1>1, <1>4 DEF NodeStarts, ServiceHolds
    <2>2. CASE Step(o, [node[o] EXCEPT !.runs = NoPlan, !.phase = "release"])
        <3> DEFINE n == [node[o] EXCEPT !.runs = NoPlan, !.phase = "release"]
        <3>1. /\ n \in [conf : Confs \cup {NoPlan}, runs : Confs \cup {NoPlan}, phase : Phases]
              /\ n.phase = "release" /\ n.runs = NoPlan
            BY <1>1 DEF Phases
        <3>2. Step(o, n)
            BY <2>2
        <3> HIDE DEF n
        <3> QED BY <2>1, <3>1, <3>2, OnlyServiceMoves DEF Guarded
    <2>3. CASE Step(o, [node[o] EXCEPT !.runs = node[o].conf,
                                       !.phase = IF Manual(node[o].conf) THEN "idle" ELSE "confirm"])
        <3> DEFINE n == [node[o] EXCEPT !.runs = node[o].conf,
                                       !.phase = IF Manual(node[o].conf) THEN "idle" ELSE "confirm"]
        <3>1. /\ n \in [conf : Confs \cup {NoPlan}, runs : Confs \cup {NoPlan}, phase : Phases]
              /\ n.phase \in {"idle", "confirm"} /\ n.runs = node[o].conf /\ n.conf = node[o].conf
            BY <1>1 DEF Phases
        <3>2. Step(o, n)
            BY <2>3
        <3>3. Guarded(n.runs) => Behind(o, n.runs)
            BY <1>1, <2>1, <3>1 DEF ServiceHolds, Guarded
        <3> HIDE DEF n
        <3> QED BY <2>1, <3>1, <3>2, <3>3, OnlyServiceMoves
    <2> QED BY <1>4, <2>2, <2>3 DEF NodeStarts
<1>5. CASE NodeStops(o)
    <2> DEFINE n == [node[o] EXCEPT !.runs = NoPlan, !.phase = "release"]
    <2>1. /\ n \in [conf : Confs \cup {NoPlan}, runs : Confs \cup {NoPlan}, phase : Phases]
          /\ n.phase = "release" /\ n.runs = NoPlan
        BY <1>1 DEF Phases
    <2>2. Step(o, n) /\ node[o].phase = "idle"
        BY <1>5 DEF NodeStops
    <2> HIDE DEF n
    <2> QED BY <2>1, <2>2, OnlyServiceMoves DEF Guarded
<1>6. CASE NodeTries(o)
    <2>1. node[o].phase = "idle" /\ node[o].conf \in Confs
        BY <1>1, <1>6 DEF NodeTries
    <2>2. CASE node[o].runs = NoPlan /\ Step(o, [node[o] EXCEPT !.phase = "start"])
        <3> DEFINE n == [node[o] EXCEPT !.phase = "start"]
        <3>1. /\ n \in [conf : Confs \cup {NoPlan}, runs : Confs \cup {NoPlan}, phase : Phases]
              /\ n.phase = "start" /\ n.runs = NoPlan /\ n.conf = node[o].conf
            BY <1>1, <2>2 DEF Phases
        <3>2. Step(o, n)
            BY <2>2
        <3> HIDE DEF n
        <3> QED BY <2>1, <3>1, <3>2, OnlyServiceMoves DEF Guarded
    <2>3. CASE Step(o, [node[o] EXCEPT !.phase = "confirm"])
        <3> DEFINE n == [node[o] EXCEPT !.phase = "confirm"]
        <3>1. /\ n \in [conf : Confs \cup {NoPlan}, runs : Confs \cup {NoPlan}, phase : Phases]
              /\ n.phase = "confirm" /\ n.runs = node[o].runs /\ n.conf = node[o].conf
            BY <1>1 DEF Phases
        <3>2. Step(o, n)
            BY <2>3
        <3> HIDE DEF n
        <3> QED BY <1>1, <2>1, <3>1, <3>2, OnlyServiceMoves DEF ServiceHolds
    <2> QED BY <1>6, <2>2, <2>3 DEF NodeTries
<1> QED BY <1>3, <1>4, <1>5, <1>6

-----------------------------------------------------------------------------
\* A service takes the lock.
LEMMA PlansOfConfs ==
    ASSUME NEW c \in Confs, NEW b \in BOOLEAN
    PROVE  PlanOf(c, b) \in Plans /\ PlanOf(c, b) # NoPlan /\ c # NoPlan
<1>1. c.port \in ListenPorts /\ c.port \in Nat /\ c.kind \in Kinds
    BY FirewallAssumption DEF ListenPorts
<1>2. PlanOf(c, b) \in Plans /\ PlanOf(c, b) \in [port : Nat, kind : Kinds, ready : BOOLEAN]
    BY <1>1 DEF PlanOf, Plans
<1> QED BY <1>2, FirewallAssumption

\* A service that takes the lock changes its own plan, and a guarded one keeps its port.
LEMMA LockTaken ==
    ASSUME FirewallInv, NEW o \in Owners, NEW step \in {"sources", "refused", "returned"},
           agent = "up", job = Unlocked,
           job' = [Unlocked EXCEPT !.op = "node", !.owner = o, !.at = step],
           UNCHANGED <<agent, node, discovery, lastErr, backend, record, host, before, used>>,
           expected' = [expected EXCEPT ![o] = "seen"],
           plans' \in [Owners -> Plans \cup {NoPlan}], confirm' \in [Owners -> Plans \cup {NoPlan}],
           \A q \in Owners \ {o} : plans'[q] = plans[q],
           node[o].phase \in {"start", "confirm", "release", "restart"},
           node[o].phase = "start" =>
              \/ node[o].conf.kind = "manual"
              \/ /\ Guarded(node[o].conf) /\ step # "returned"
                 /\ step # "refused" => plans'[o] = PlanOf(node[o].conf, FALSE),
           Guarded(node[o].runs) => Guarded(plans'[o]) /\ plans'[o].port = plans[o].port
    PROVE  FirewallInv'
<1>1. /\ job'.op = "node" /\ job'.owner = o /\ job'.at = step /\ JobTyped'
    BY DEF JobTyped, Unlocked, JobSteps
<1>2. /\ expected' \in [Owners -> {"unlisted", "awaited", "seen"}] /\ expected'[o] = "seen"
      /\ \A q \in Owners \ {o} : expected'[q] = expected[q]
    BY DEF FirewallInv, FirewallTypeOK, PlansTyped
<1>3. FirewallTypeOK'
    BY <1>1, <1>2
    DEF FirewallInv, FirewallTypeOK, NodesTyped, PlansTyped, HostTyped, BooksTyped, BeforeTyped
<1>4. BooksAgree' /\ NothingOrphaned'
    BY DEF FirewallInv, BooksAgree, NothingOrphaned
<1>5. StepsHold'
    BY <1>1 DEF StepsHold, AtSources, AtDrops, AtRules, AtRule, AtOpened, AtRedirect, AtForget
<1>6. LockHolds' /\ CallHolds'
    BY <1>1 DEF FirewallInv, LockHolds, CallHolds
<1>7. ServicesGuarded'
    <2>1. ASSUME NEW q \in Owners PROVE ServiceHolds(q)'
        BY <2>1 DEF FirewallInv, ServicesGuarded, ServiceHolds, Behind
    <2> QED BY <2>1 DEF FirewallInv, ServicesGuarded
<1>8. LeftHolds'
    BY <1>2 DEF FirewallInv, LeftHolds, Awaits, Kept
<1> QED BY <1>3, <1>4, <1>5, <1>6, <1>7, <1>8 DEF FirewallInv

\* The calls of a service keep the invariant.
LEMMA NodeCallsHolds ==
    ASSUME FirewallInv, NEW o \in Owners, NodeCalls(o)
    PROVE  FirewallInv'
<1>1. /\ agent = "up" /\ job = Unlocked
      /\ UNCHANGED <<agent, node, discovery, lastErr, backend, record, host, before, used>>
    BY DEF NodeCalls
<1>2. ServiceHolds(o) /\ PlansTyped
    BY DEF FirewallInv, ServicesGuarded, FirewallTypeOK
<1>3. CASE Release(o) /\ \/ node[o].phase = "start" /\ node[o].conf.kind = "manual"
                         \/ node[o].phase \in {"release", "restart"}
    <2>1. PICK s \in {"sources", "refused", "returned"} :
             job' = [Unlocked EXCEPT !.op = "node", !.owner = o, !.at = s]
        BY <1>3 DEF Release, Take
    <2>2. /\ plans' \in [Owners -> Plans \cup {NoPlan}]
          /\ confirm' \in [Owners -> Plans \cup {NoPlan}]
          /\ \A q \in Owners \ {o} : plans'[q] = plans[q]
          /\ expected' = [expected EXCEPT ![o] = "seen"]
        BY <1>2, <1>3 DEF PlansTyped, Release
    <2>3. ~Guarded(node[o].runs)
        BY <1>2, <1>3 DEF ServiceHolds, Guarded
    <2> QED BY <1>1, <1>3, <2>1, <2>2, <2>3, LockTaken
<1>4. ASSUME NEW b \in BOOLEAN, Apply_(o, PlanOf(node[o].conf, b)),
             \/ node[o].phase = "start" /\ Guarded(node[o].conf) /\ b = FALSE
             \/ node[o].phase = "confirm"
      PROVE  FirewallInv'
    <2> DEFINE plan == PlanOf(node[o].conf, b)
    <2>1. node[o].conf \in Confs
        BY <1>2, <1>4 DEF ServiceHolds
    <2>2. plan \in Plans /\ plan # NoPlan
        BY <2>1, PlansOfConfs
    <2>3. PICK s \in {"sources", "refused"} :
             /\ job' = [Unlocked EXCEPT !.op = "node", !.owner = o, !.at = s]
             /\ \/ s = "refused" /\ plans' = plans /\ confirm' = [confirm EXCEPT ![o] = plan]
                \/ /\ s = "sources" /\ plans' = [plans EXCEPT ![o] = plan]
                   /\ confirm' = [confirm EXCEPT ![o] = NoPlan]
        BY <1>4 DEF Apply_, Take
    <2>4. /\ plans' \in [Owners -> Plans \cup {NoPlan}]
          /\ confirm' \in [Owners -> Plans \cup {NoPlan}]
          /\ \A q \in Owners \ {o} : plans'[q] = plans[q]
          /\ plans'[o] = IF s = "refused" THEN plans[o] ELSE plan
        BY <1>2, <2>2, <2>3 DEF PlansTyped
    <2>5. Guarded(node[o].runs) => Guarded(plans'[o]) /\ plans'[o].port = plans[o].port
        <3>1. ASSUME Guarded(node[o].runs)
              PROVE  /\ node[o].conf = node[o].runs /\ Guarded(plans[o]) /\ plans[o].port = node[o].runs.port
            BY <1>2, <3>1 DEF ServiceHolds, Behind
        <3>2. plan.kind = node[o].conf.kind /\ plan.port = node[o].conf.port
            BY DEF PlanOf
        <3> QED BY <2>2, <2>4, <3>1, <3>2 DEF Guarded
    <2>6. expected' = [expected EXCEPT ![o] = "seen"]
        BY <1>4 DEF Apply_
    <2>7. node[o].phase = "start" =>
             Guarded(node[o].conf) /\ (s # "refused" => plans'[o] = PlanOf(node[o].conf, FALSE))
        BY <1>4, <2>4
    <2> QED BY <1>1, <1>4, <2>3, <2>4, <2>5, <2>6, <2>7, LockTaken
<1> QED BY <1>3, <1>4 DEF NodeCalls

\* The lock is given back, and the service learns how it went.
LEMMA ReturnHolds ==
    ASSUME FirewallInv, Return
    PROVE  FirewallInv'
<1>1. /\ job' = Unlocked /\ job.at \in {"done", "failed", "refused", "returned"}
      /\ agent' = IF job.op = "close" THEN "down" ELSE agent
      /\ plans' = plans /\ confirm' = confirm /\ expected' = expected /\ discovery' = discovery
      /\ backend' = backend /\ record' = record /\ host' = host /\ before' = before
    BY DEF Return, managerVars
<1>2. job \in [op : {"none", "node", "tick", "close"}, owner : Owners \cup {NoPlan}, at : JobSteps,
               todo : SUBSET RulePorts, rule : RulePorts \cup {0}] /\ job # Unlocked
    BY <1>1 DEF FirewallInv, FirewallTypeOK, JobTyped, Unlocked
<1>3. JobTyped'
    BY <1>1 DEF JobTyped, Unlocked, JobSteps
<1>4. lastErr' \in BOOLEAN
    BY DEF Return, FirewallInv, FirewallTypeOK, PlansTyped
<1>5. StepsHold'
    BY <1>1
    DEF StepsHold, AtSources, AtDrops, AtRules, AtRule, AtOpened, AtRedirect, AtForget, Unlocked
<1>6. LockHolds' /\ CallHolds'
    BY <1>1, <1>2 DEF FirewallInv, LockHolds, CallHolds, Unlocked
<1>7. LeftHolds'
    <2>1. CASE job.op = "close"
        <3>1. \A o \in Owners : before[o] = NothingLeft
            BY <2>1 DEF FirewallInv, LeftHolds, LockHolds
        <3> QED BY <1>1, <2>1, <3>1 DEF FirewallInv, LeftHolds, Awaits, Kept, NothingLeft
    <2>2. CASE job.op # "close"
        BY <1>1, <2>2 DEF FirewallInv, LeftHolds, Awaits, Kept
    <2> QED BY <2>1, <2>2
<1>8. BooksAgree' /\ NothingOrphaned'
    BY <1>1, <1>2 DEF FirewallInv, BooksAgree, NothingOrphaned, LockHolds
<1>9. CASE job.op # "node"
    <2>1. node' = node
        BY <1>9 DEF Return
    <2>2. FirewallTypeOK'
        BY <1>1, <1>3, <1>4, <2>1
        DEF FirewallInv, FirewallTypeOK, NodesTyped, PlansTyped, HostTyped, BooksTyped, BeforeTyped
    <2>3. ServicesGuarded'
        <3>1. \A o \in Owners : ServiceHolds(o)'
            BY <1>1, <2>1 DEF FirewallInv, ServicesGuarded, ServiceHolds, Behind
        <3>2. agent' # "up" => agent # "up"
            BY <1>1 DEF FirewallInv, LockHolds
        <3> QED BY <2>1, <3>1, <3>2 DEF FirewallInv, ServicesGuarded
    <2> QED BY <1>5, <1>6, <1>7, <1>8, <2>2, <2>3 DEF FirewallInv
<1>10. CASE job.op = "node"
    <2>1. PICK o \in Owners : o = job.owner
        BY <1>10 DEF FirewallInv, CallHolds
    <2>2. PICK n : n = node[o]
        OBVIOUS
    <2>3. /\ agent = "up" /\ agent' = "up"
          /\ n.phase \in {"start", "confirm", "release", "restart"}
          /\ n.phase = "start" =>
              \/ n.conf.kind = "manual"
              \/ /\ Guarded(n.conf) /\ job.at # "returned"
                 /\ job.at # "refused" => plans[o] = PlanOf(n.conf, FALSE)
        BY <1>1, <1>10, <2>1, <2>2 DEF FirewallInv, CallHolds, LockHolds
    <2>4. /\ n \in [conf : Confs \cup {NoPlan}, runs : Confs \cup {NoPlan}, phase : Phases]
          /\ ServiceHolds(o)
        BY <2>2 DEF FirewallInv, FirewallTypeOK, NodesTyped, ServicesGuarded
    <2>5. PICK m : /\ m = AfterCall(n, job.at \in {"done", "returned"})
                   /\ node' = [node EXCEPT ![o] = m]
        BY <1>10, <2>1, <2>2 DEF Return
    <2>6. node'[o] = m /\ \A q \in Owners \ {o} : node'[q] = node[q]
        BY <2>5 DEF FirewallInv, FirewallTypeOK, NodesTyped
    <2>7. \/ /\ n.phase = "release" \/ (n.phase = "confirm" /\ n.conf.kind = "landing")
             /\ m = [n EXCEPT !.phase = "idle"]
          \/ n.phase = "restart" /\ m = [n EXCEPT !.phase = "start"]
          \/ m = [n EXCEPT !.phase = "release", !.runs = NoPlan]
          \/ /\ n.phase = "start" /\ job.at \in {"done", "returned"}
             /\ m = [n EXCEPT !.phase = "kernel"]
          \/ n.phase = "confirm" /\ m = [n EXCEPT !.phase = "idle"]
        BY <2>3, <2>5 DEF AfterCall
    <2>8. m \in [conf : Confs \cup {NoPlan}, runs : Confs \cup {NoPlan}, phase : Phases]
        BY <2>4, <2>7 DEF Phases
    <2>9. NodesTyped'
        BY <2>5, <2>8 DEF FirewallInv, FirewallTypeOK, NodesTyped
    <2>10. FirewallTypeOK'
        BY <1>1, <1>3, <1>4, <2>9
        DEF FirewallInv, FirewallTypeOK, PlansTyped, HostTyped, BooksTyped, BeforeTyped
    <2>11. ServiceHolds(o)'
        <3>1. CASE n.phase = "release" \/ n.phase = "restart" \/ m = [n EXCEPT !.phase = "release",
        !.runs = NoPlan]
            <4>1. /\ m.runs = NoPlan
                  /\ m.phase = "release" \/ (m.phase = "idle") \/ (m.phase = "start" /\ m.conf \in Confs)
                BY <2>2, <2>3, <2>4, <2>7, <3>1 DEF ServiceHolds
            <4> QED BY <2>6, <4>1 DEF ServiceHolds, Guarded
        <3>2. CASE n.phase = "confirm" /\ m = [n EXCEPT !.phase = "idle"]
            <4>1. m.phase = "idle" /\ m.runs = n.runs /\ m.conf = n.conf
                BY <2>4, <3>2
            <4>2. Guarded(n.runs) => n.conf = n.runs /\ Behind(o, n.runs)
                BY <2>2, <2>4 DEF ServiceHolds
            <4> QED BY <1>1, <2>6, <4>1, <4>2 DEF ServiceHolds, Guarded, Behind
        <3>3. CASE n.phase = "start" /\ job.at \in {"done", "returned"} /\ m = [n EXCEPT !.phase = "kernel"]
            <4>1. m.phase = "kernel" /\ m.runs = NoPlan /\ m.conf = n.conf /\ m.conf \in Confs
                BY <2>2, <2>4, <3>3 DEF ServiceHolds
            <4>2. ASSUME Guarded(n.conf) PROVE Behind(o, n.conf)
                <5>1. n.conf.kind = "guarded"
                    BY <4>2 DEF Guarded
                <5>2. job.at = "done" /\ plans[o] = PlanOf(n.conf, FALSE)
                    BY <2>3, <3>3, <5>1
                <5>3. plans[o] # NoPlan /\ plans[o].kind = "guarded" /\ plans[o].port = n.conf.port
                    <6>1. n.conf \in Confs /\ FALSE \in BOOLEAN
                        BY <4>1
                    <6>2. PlanOf(n.conf, FALSE) # NoPlan
                        BY <6>1, PlansOfConfs
                    <6>3. /\ PlanOf(n.conf, FALSE).kind = n.conf.kind
                          /\ PlanOf(n.conf, FALSE).port = n.conf.port
                        BY DEF PlanOf
                    <6> QED BY <5>1, <5>2, <6>2, <6>3
                <5>4. host.drop = Desired
                    BY <5>2 DEF FirewallInv, StepsHold, AtDrops
                <5> QED BY <2>3, <5>3, <5>4 DEF Behind, Guarded, Desired
            <4> QED BY <1>1, <2>2, <2>6, <4>1, <4>2 DEF ServiceHolds, Guarded, Behind
        <3> QED BY <2>7, <3>1, <3>2, <3>3
    <2>12. ServicesGuarded'
        <3>1. ASSUME NEW q \in Owners \ {o} PROVE ServiceHolds(q)'
            BY <1>1, <2>6, <3>1 DEF FirewallInv, ServicesGuarded, ServiceHolds, Behind
        <3> QED BY <2>3, <2>11, <3>1 DEF ServicesGuarded
    <2> QED BY <1>5, <1>6, <1>7, <1>8, <2>10, <2>12 DEF FirewallInv
<1> QED BY <1>9, <1>10

-----------------------------------------------------------------------------
(* The process, the panel and the administrator.                             *)

\* The periodic check takes the lock, with no plan of its own.
LEMMA PeriodicCheckHolds ==
    ASSUME FirewallInv, PeriodicCheck
    PROVE  FirewallInv'
<1>1. /\ agent = "up" /\ job = Unlocked
      /\ job' = [Unlocked EXCEPT !.op = "tick", !.owner = NoPlan, !.at = "sources"]
      /\ UNCHANGED <<agent, node, plans, confirm, expected, discovery, lastErr, backend, record, host, before>>
    BY DEF PeriodicCheck, Take, managerVars
<1>2. job'.op = "tick" /\ job'.at = "sources" /\ JobTyped'
    BY <1>1 DEF JobTyped, Unlocked, JobSteps
<1>3. FirewallTypeOK'
    BY <1>1, <1>2
    DEF FirewallInv, FirewallTypeOK, NodesTyped, PlansTyped, HostTyped, BooksTyped, BeforeTyped
<1>4. StepsHold'
    BY <1>2 DEF StepsHold, AtSources, AtDrops, AtRules, AtRule, AtOpened, AtRedirect, AtForget
<1>5. BooksAgree' /\ NothingOrphaned' /\ LockHolds' /\ CallHolds' /\ LeftHolds'
    BY <1>1, <1>2
    DEF FirewallInv, BooksAgree, NothingOrphaned, LockHolds, CallHolds, LeftHolds, Awaits, Kept
<1>6. ServicesGuarded'
    <2>1. \A o \in Owners : ServiceHolds(o)'
        BY <1>1 DEF FirewallInv, ServicesGuarded, ServiceHolds, Behind
    <2> QED BY <1>1, <2>1 DEF ServicesGuarded
<1> QED BY <1>3, <1>4, <1>5, <1>6 DEF FirewallInv

\* The panel lists its nodes: those not listed have nothing to wait for.
LEMMA ExpectNodesHolds ==
    ASSUME FirewallInv, ExpectNodes
    PROVE  FirewallInv'
<1>1. /\ agent = "up" /\ job = Unlocked /\ discovery' = FALSE
      /\ UNCHANGED <<agent, node, plans, confirm, lastErr, backend, record, host, job>>
      /\ before' = [o \in Owners |-> IF expected'[o] = "unlisted" THEN NothingLeft ELSE before[o]]
    BY DEF ExpectNodes
<1>2. PICK listed \in SUBSET Owners :
         expected' = [o \in Owners |-> IF o \in listed /\ expected[o] = "unlisted" THEN "awaited" ELSE expected[o]]
    BY DEF ExpectNodes
<1>3. PlansTyped'
    BY <1>1, <1>2 DEF FirewallInv, FirewallTypeOK, PlansTyped
<1>4. BeforeTyped'
    BY <1>1 DEF FirewallInv, FirewallTypeOK, BeforeTyped, NothingLeft
<1>5. FirewallTypeOK'
    BY <1>1, <1>3, <1>4 DEF FirewallInv, FirewallTypeOK, NodesTyped, HostTyped, BooksTyped, JobTyped
<1>6. StepsHold'
    BY <1>1
    DEF Unlocked, StepsHold, AtSources, AtDrops, AtRules, AtRule, AtOpened, AtRedirect, AtForget
<1>7. BooksAgree' /\ NothingOrphaned' /\ LockHolds' /\ CallHolds'
    BY <1>1 DEF FirewallInv, BooksAgree, NothingOrphaned, LockHolds, CallHolds, Unlocked
<1>8. ServicesGuarded'
    <2>1. \A o \in Owners : ServiceHolds(o)'
        BY <1>1 DEF FirewallInv, ServicesGuarded, ServiceHolds, Behind
    <2> QED BY <1>1, <2>1 DEF ServicesGuarded
<1>9. LeftHolds'
    <2>1. ASSUME NEW o \in Owners, Awaits(o)' PROVE Kept(o)'
        <3>1. expected'[o] = "awaited" /\ before'[o] = before[o]
            BY <1>1, <2>1 DEF Awaits
        <3>2. CASE Awaits(o)
            BY <1>1, <3>1, <3>2 DEF FirewallInv, LeftHolds, Kept
        <3>3. CASE ~Awaits(o)
            <4>1. expected[o] = "unlisted" /\ ~discovery
                BY <1>2, <3>1, <3>3 DEF Awaits
            <4>2. before[o] = NothingLeft
                BY <1>1, <4>1 DEF FirewallInv, LeftHolds
            <4> QED BY <3>1, <4>2 DEF Kept, NothingLeft
        <3> QED BY <3>2, <3>3
    <2>2. \A o \in Owners : plans'[o] # NoPlan => expected'[o] = "seen"
        BY <1>1, <1>2 DEF FirewallInv, LeftHolds
    <2> QED BY <1>1, <2>1, <2>2 DEF LeftHolds
<1> QED BY <1>5, <1>6, <1>7, <1>8, <1>9 DEF FirewallInv

\* The process starts from the record, and awaits everyone.
LEMMA StartAgentHolds ==
    ASSUME FirewallInv, StartAgent
    PROVE  FirewallInv'
<1>1. /\ agent = "down" /\ agent' = "up" /\ backend' = record /\ lastErr' = FALSE
      /\ plans' = Nobody /\ confirm' = Nobody /\ expected' = [o \in Owners |-> "unlisted"]
      /\ discovery' = TRUE
      /\ UNCHANGED <<node, record, host, job, before>>
    BY DEF StartAgent, OpenRecord, NoPlans, BeginDiscovery, NoneExpected
<1>2. job = Unlocked /\ \A o \in Owners : node[o] = NoService
    BY <1>1 DEF FirewallInv, LockHolds, ServicesGuarded
<1>3. FirewallTypeOK'
    BY <1>1
    DEF FirewallInv, FirewallTypeOK, NodesTyped, PlansTyped, HostTyped, BooksTyped, JobTyped,
        BeforeTyped, Nobody
<1>4. StepsHold'
    BY <1>1, <1>2
    DEF Unlocked, StepsHold, AtSources, AtDrops, AtRules, AtRule, AtOpened, AtRedirect, AtForget
<1>5. BooksAgree' /\ NothingOrphaned' /\ LockHolds' /\ CallHolds'
    BY <1>1, <1>2 DEF FirewallInv, BooksAgree, NothingOrphaned, LockHolds, CallHolds, Unlocked
<1>6. ServicesGuarded'
    BY <1>1, <1>2 DEF ServicesGuarded, ServiceHolds, NoService, Guarded
<1>7. LeftHolds'
    BY <1>1 DEF FirewallInv, LeftHolds, Kept, Awaits, Nobody
<1> QED BY <1>3, <1>4, <1>5, <1>6, <1>7 DEF FirewallInv

\* The end of the process, or the cleaning up without one, gives everything back.
LEMMA CloseHolds ==
    ASSUME FirewallInv, Close
    PROVE  FirewallInv'
<1>1. /\ agent' = "closing" /\ backend' \in {backend, record} /\ (agent = "down" => backend' = record)
      /\ plans' = Nobody /\ confirm' = Nobody /\ expected' = [o \in Owners |-> "unlisted"]
      /\ discovery' = FALSE
      /\ node' = [o \in Owners |-> NoService] /\ before' = [o \in Owners |-> NothingLeft]
      /\ job' = [Unlocked EXCEPT !.op = "close", !.owner = NoPlan, !.at = "sources"]
      /\ UNCHANGED <<lastErr, record, host>>
    <2>1. backend' \in {backend, record} /\ (agent = "down" => backend' = record)
        BY DEF Close, OpenRecord
    <2>2. before' = [o \in Owners |-> NothingLeft]
        BY DEF Close, NothingBefore
    <2> QED BY <2>1, <2>2 DEF Close, NoPlans, NoneExpected, Take
<1>2. job'.op = "close" /\ job'.at = "sources" /\ JobTyped'
    BY <1>1 DEF JobTyped, Unlocked, JobSteps
<1>3. FirewallTypeOK'
    BY <1>1, <1>2
    DEF FirewallInv, FirewallTypeOK, NodesTyped, PlansTyped, HostTyped, BooksTyped, BeforeTyped,
        Nobody,
        NoService, NothingLeft, Phases
<1>4. StepsHold'
    BY <1>2 DEF StepsHold, AtSources, AtDrops, AtRules, AtRule, AtOpened, AtRedirect, AtForget
<1>5. BooksAgree' /\ NothingOrphaned' /\ LockHolds' /\ CallHolds'
    BY <1>1, <1>2 DEF FirewallInv, BooksAgree, NothingOrphaned, LockHolds, CallHolds
<1>6. ServicesGuarded'
    BY <1>1 DEF ServicesGuarded, ServiceHolds, NoService, Guarded
<1>7. LeftHolds'
    BY <1>1 DEF LeftHolds, Awaits, Kept, Nobody, NothingLeft
<1> QED BY <1>3, <1>4, <1>5, <1>6, <1>7 DEF FirewallInv

\* The process dies: the record and the host stay as they are.
LEMMA AgentDiesHolds ==
    ASSUME FirewallInv, AgentDies
    PROVE  FirewallInv'
<1>1. /\ agent # "down" /\ agent' = "down" /\ job' = Unlocked
      /\ node' = [o \in Owners |-> NoService]
      /\ before' = [o \in Owners |-> LeftBy(o)] /\ backend' = NothingOwned /\ lastErr' = FALSE
      /\ plans' = Nobody /\ confirm' = Nobody /\ expected' = [o \in Owners |-> "unlisted"]
      /\ discovery' = FALSE
      /\ record' = record /\ host' = host
    BY DEF AgentDies, NoPlans, NoneExpected
<1>2. ASSUME NEW o \in Owners
      PROVE  /\ LeftBy(o) \in [allow : SUBSET RulePorts, drop : Nat]
             /\ \A p \in LeftBy(o).allow : host.allow[p] = "own"
             /\ LeftBy(o).drop # 0 => host.drop[o] = LeftBy(o).drop /\ record.sources[o] = LeftBy(o).drop
    <2>1. /\ host.drop[o] \in Nat /\ record.owned \subseteq RulePorts
          /\ before[o] \in [allow : SUBSET RulePorts, drop : Nat]
        BY DEF FirewallInv, FirewallTypeOK, HostTyped, BooksTyped, Records, BeforeTyped
    <2>2. CASE expected[o] # "seen"
        <3>1. LeftBy(o) = before[o]
            BY <2>2 DEF LeftBy
        <3>2. Awaits(o) \/ before[o] = NothingLeft
            BY <1>1, <2>2 DEF FirewallInv, FirewallTypeOK, PlansTyped, LeftHolds, Awaits
        <3>3. Kept(o)
            BY <3>2 DEF FirewallInv, LeftHolds, Kept, NothingLeft
        <3> QED BY <2>1, <3>1, <3>3 DEF Kept
    <2>3. CASE expected[o] = "seen"
        BY <2>1, <2>3 DEF LeftBy
    <2> QED BY <2>2, <2>3
<1>3. FirewallTypeOK'
    <2>1. BeforeTyped'
        BY <1>1, <1>2 DEF BeforeTyped
    <2>2. NodesTyped' /\ JobTyped' /\ PlansTyped'
        BY <1>1 DEF NodesTyped, JobTyped, PlansTyped, NoService, Unlocked, Nobody, Phases, JobSteps
    <2>3. BooksTyped' /\ HostTyped'
        BY <1>1
        DEF FirewallInv, FirewallTypeOK, BooksTyped, HostTyped, NothingOwned, NoDrops, Records
    <2> QED BY <1>1, <2>1, <2>2, <2>3 DEF FirewallTypeOK
<1>4. StepsHold'
    BY <1>1
    DEF Unlocked, StepsHold, AtSources, AtDrops, AtRules, AtRule, AtOpened, AtRedirect, AtForget
<1>5. BooksAgree' /\ NothingOrphaned' /\ LockHolds' /\ CallHolds'
    BY <1>1 DEF FirewallInv, BooksAgree, NothingOrphaned, LockHolds, CallHolds, Unlocked
<1>6. ServicesGuarded'
    BY <1>1 DEF ServicesGuarded, ServiceHolds, NoService, Guarded
<1>7. LeftHolds'
    BY <1>1, <1>2 DEF LeftHolds, Kept, Awaits, Nobody
<1> QED BY <1>3, <1>4, <1>5, <1>6, <1>7 DEF FirewallInv

\* The administrator changes a rule while nobody works, and takes it on himself.
LEMMA AdminEditsHolds ==
    ASSUME FirewallInv, AdminEdits
    PROVE  FirewallInv'
<1>1. /\ job = Unlocked
      /\ UNCHANGED <<agent, node, plans, confirm, expected, discovery, lastErr, backend, record, job>>
    BY DEF AdminEdits, managerVars
<1>2. PICK p \in RulePorts, state \in {"none", "own", "behind", "manual"} :
         /\ host' = WithRule(p, state)
         /\ host.allow[p] \notin {"own", "behind"} => state = "manual"
         /\ before' = [o \in Owners |-> [before[o] EXCEPT !.allow = @ \ {p}]]
    BY DEF AdminEdits
<1>3. /\ host'.drop = host.drop /\ host'.redirect = host.redirect /\ host'.allow[p] = state
      /\ \A q \in RulePorts \ {p} : host'.allow[q] = host.allow[q]
    BY <1>2, RuleWritten DEF FirewallInv, FirewallTypeOK
<1>4. HostTyped'
    BY <1>2 DEF FirewallInv, FirewallTypeOK, HostTyped, WithRule
<1>5. ASSUME NEW o \in Owners
      PROVE  /\ before'[o] \in [allow : SUBSET RulePorts, drop : Nat]
             /\ before'[o].allow = before[o].allow \ {p} /\ before'[o].drop = before[o].drop
             /\ before[o] = NothingLeft => before'[o] = NothingLeft
    <2>1. /\ before'[o] = [before[o] EXCEPT !.allow = @ \ {p}]
          /\ before[o] \in [allow : SUBSET RulePorts, drop : Nat]
        BY <1>2 DEF FirewallInv, FirewallTypeOK, BeforeTyped
    <2>2. /\ before'[o] \in [allow : SUBSET RulePorts, drop : Nat]
          /\ before'[o].allow = before[o].allow \ {p} /\ before'[o].drop = before[o].drop
        BY <2>1
    <2>3. before[o] = NothingLeft => before'[o] = NothingLeft
        BY <2>2 DEF NothingLeft
    <2> QED BY <2>2, <2>3
<1>6. BeforeTyped'
    BY <1>2, <1>5 DEF BeforeTyped
<1>7. FirewallTypeOK'
    BY <1>1, <1>4, <1>6
    DEF FirewallInv, FirewallTypeOK, NodesTyped, PlansTyped, BooksTyped, JobTyped
<1>8. StepsHold'
    BY <1>1
    DEF Unlocked, StepsHold, AtSources, AtDrops, AtRules, AtRule, AtOpened, AtRedirect, AtForget
<1>9. BooksAgree' /\ NothingOrphaned' /\ LockHolds' /\ CallHolds'
    BY <1>1, <1>2, <1>3 DEF FirewallInv, BooksAgree, NothingOrphaned, LockHolds, CallHolds, Unlocked
<1>10. ServicesGuarded'
    <2>1. \A o \in Owners : ServiceHolds(o)'
        BY <1>1, <1>3 DEF FirewallInv, ServicesGuarded, ServiceHolds, Behind
    <2> QED BY <1>1, <2>1 DEF FirewallInv, ServicesGuarded
<1>11. LeftHolds'
    <2>1. ASSUME NEW o \in Owners, Kept(o) PROVE Kept(o)'
        <3>1. before[o].allow \subseteq RulePorts
            BY DEF FirewallInv, FirewallTypeOK, BeforeTyped
        <3> QED BY <1>1, <1>3, <1>5, <2>1, <3>1 DEF Kept
    <2> QED BY <1>1, <1>5, <2>1 DEF FirewallInv, LeftHolds, Awaits
<1> QED BY <1>7, <1>8, <1>9, <1>10, <1>11 DEF FirewallInv

-----------------------------------------------------------------------------
(* The theorems.                                                             *)

\* The invariant holds before anything has happened.
LEMMA FirewallInvInit ==
    ASSUME FirewallInit
    PROVE  FirewallInv
<1>1. /\ agent = "down" /\ node = [o \in Owners |-> NoService] /\ plans = Nobody /\ confirm = Nobody
      /\ expected = [o \in Owners |-> "unlisted"] /\ discovery = FALSE /\ lastErr = FALSE
      /\ backend = NothingOwned /\ record = NothingOwned /\ job = Unlocked
      /\ before = [o \in Owners |-> NothingLeft]
      /\ host = [allow |-> [p \in RulePorts |-> "none"], redirect |-> {}, drop |-> NoDrops]
    BY DEF FirewallInit, NothingBefore
<1>2. FirewallTypeOK
    <2>1. NodesTyped /\ JobTyped /\ PlansTyped /\ BeforeTyped
        BY <1>1
        DEF NodesTyped, JobTyped, PlansTyped, BeforeTyped, NoService, Unlocked, Nobody,
            NothingLeft, Phases, JobSteps
    <2>2. BooksTyped /\ HostTyped
        BY <1>1 DEF BooksTyped, HostTyped, NothingOwned, NoDrops, Records
    <2> QED BY <1>1, <2>1, <2>2 DEF FirewallTypeOK
<1>3. StepsHold
    BY <1>1
    DEF Unlocked, StepsHold, AtSources, AtDrops, AtRules, AtRule, AtOpened, AtRedirect, AtForget
<1>4. BooksAgree /\ NothingOrphaned /\ LockHolds /\ CallHolds
    BY <1>1 DEF BooksAgree, NothingOrphaned, LockHolds, CallHolds, Unlocked, NothingOwned, NoDrops
<1>5. ServicesGuarded
    BY <1>1 DEF ServicesGuarded, ServiceHolds, NoService, Guarded
<1>6. LeftHolds
    BY <1>1 DEF LeftHolds, Kept, Awaits, Nobody, NothingLeft
<1> QED BY <1>2, <1>3, <1>4, <1>5, <1>6 DEF FirewallInv

\* Every step keeps it.
LEMMA FirewallInvNext ==
    ASSUME RecordsReplaced, FirewallInv, [FirewallNext]_firewallVars
    PROVE  FirewallInv'
<1>1. CASE UNCHANGED firewallVars
    <2>1. /\ agent' = agent /\ node' = node /\ plans' = plans /\ confirm' = confirm
          /\ expected' = expected
          /\ discovery' = discovery /\ lastErr' = lastErr /\ backend' = backend /\ record' = record
          /\ host' = host /\ job' = job /\ before' = before
        BY <1>1 DEF firewallVars
    <2>2. /\ Allows' = Allows /\ Redirects' = Redirects /\ Recovering' = Recovering
          /\ Protected' = Protected
          /\ Desired' = Desired /\ NextRule' = NextRule
        BY <2>1, PlansKept, DesiredKept DEF managerVars, NextRule
    <2>3. FirewallTypeOK'
        BY <2>1
        DEF FirewallInv, FirewallTypeOK, NodesTyped, PlansTyped, HostTyped, BooksTyped, JobTyped,
            BeforeTyped
    <2>4. StepsHold'
        BY <2>1, <2>2
        DEF FirewallInv, StepsHold, AtSources, AtDrops, AtRules, AtRule, AtOpened, AtRedirect,
            AtForget,
                          Reclaimed, keepOwned, Opened
    <2>5. BooksAgree' /\ NothingOrphaned' /\ LockHolds' /\ CallHolds' /\ LeftHolds'
        BY <2>1
        DEF FirewallInv, BooksAgree, NothingOrphaned, LockHolds, CallHolds, LeftHolds, Kept, Awaits
    <2>6. ServicesGuarded'
        <3>1. \A o \in Owners : ServiceHolds(o)'
            BY <2>1 DEF FirewallInv, ServicesGuarded, ServiceHolds, Behind
        <3> QED BY <2>1, <3>1 DEF FirewallInv, ServicesGuarded
    <2> QED BY <2>3, <2>4, <2>5, <2>6 DEF FirewallInv
<1>2. CASE FirewallNext
    BY <1>2, WorkHolds, ReturnHolds, PeriodicCheckHolds, ExpectNodesHolds, NodeCallsHolds,
       ServiceMoves,
       StartAgentHolds, CloseHolds, AgentDiesHolds, AdminEditsHolds DEF FirewallNext
<1> QED BY <1>1, <1>2

\* What the invariant is for.
LEMMA FirewallInvSuffices ==
    ASSUME FirewallInv
    PROVE  FirewallHolds
<1>1. ReconcileIsExact
    <2>1. SUFFICES ASSUME job.at = "done" PROVE ReconcileIsExact
        BY DEF ReconcileIsExact
    <2>2. /\ \A p \in Allows : Opened(p)
          /\ host.redirect = Redirects /\ host.drop = Desired /\ Reclaimed = {}
        BY <2>1 DEF FirewallInv, StepsHold, AtDrops, AtOpened, AtRedirect, AtForget
    <2>3. /\ \A o \in Owners : Guarded(plans[o]) => host.drop[o] = plans[o].port
          /\ ~Recovering => \A o \in Owners : ~Guarded(plans[o]) => host.drop[o] = 0
        <3>1. \A o \in Owners : host.drop[o] = Desired[o]
            BY <2>2
        <3>2. /\ \A o \in Owners : Guarded(plans[o]) => Desired[o] = plans[o].port
              /\ ~Recovering => \A o \in Owners : ~Guarded(plans[o]) => Desired[o] = 0
            BY DEF Desired, Guarded
        <3> QED BY <3>1, <3>2
    <2>4. ASSUME ~Recovering, confirm = Nobody
          PROVE  \A p \in RulePorts \ Allows : host.allow[p] \in {"none", "manual"}
        <3>1. Protected = {}
            BY <2>4 DEF Protected, Nobody
        <3>2. backend.owned \subseteq Allows /\ record.owned = backend.owned
            <4>1. backend.owned \subseteq Allows
                BY <2>2, <2>4, <3>1 DEF Reclaimed, keepOwned
            <4>2. agent # "down"
                BY <2>1 DEF FirewallInv, LockHolds, Unlocked
            <4> QED BY <4>1, <4>2 DEF FirewallInv, BooksAgree
        <3>3. \A p \in RulePorts : host.allow[p] \in {"none", "own", "behind", "manual"}
            BY DEF FirewallInv, FirewallTypeOK, HostTyped
        <3> QED BY <3>2, <3>3 DEF FirewallInv, NothingOrphaned
    <2> QED BY <2>2, <2>3, <2>4 DEF ReconcileIsExact, Opened
<1>2. GuardedWhileListening
    BY DEF FirewallInv, ServicesGuarded, ServiceHolds, Behind, GuardedWhileListening
<1>3. AwaitedRulesStay
    BY DEF FirewallInv, LeftHolds, Awaits, Kept, AwaitedRulesStay
<1> QED BY <1>1, <1>2, <1>3 DEF FirewallInv, FirewallHolds

\* Every reachable state satisfies the invariant, whichever commands fail and wherever the process
\* dies: the types, the books, how far the holder of the lock has come, and what each node left.
THEOREM FirewallInvariant ==
    ASSUME RecordsReplaced
    PROVE  FirewallSpec => []FirewallInv
<1>1. FirewallInit => FirewallInv
    BY FirewallInvInit
<1>2. FirewallInv /\ [FirewallNext]_firewallVars => FirewallInv'
    BY FirewallInvNext
<1> QED BY <1>1, <1>2, PTL DEF FirewallSpec

\* FirewallHolds, for any nodes, ports and kinds, and any number of configurations, deaths, failing
\* commands and edits: what is on the host is recorded, a reconciliation that ends is exact, a node
\* with a source policy listens behind its drops, and an awaited node keeps its rules.
THEOREM FirewallIsKept ==
    ASSUME RecordsReplaced
    PROVE  FirewallSpec => []FirewallHolds
<1>1. FirewallInv => FirewallHolds
    BY FirewallInvSuffices
<1> QED BY <1>1, FirewallInvariant, PTL
=============================================================================
