---------------------------- MODULE XrayTraffic ----------------------------
(***************************************************************************)
(* The traffic totals of the xray kernel (traffic_stats.go, traffic.go,    *)
(* traffic_retire.go, lifecycle.go): every instance counts in a statistics *)
(* manager of its own; the kernel moves what was counted to its totals,    *)
(* also from the instances that a restart left to drain, until their       *)
(* recycling settles them for the last time.                               *)
(*                                                                         *)
(* The totals of one user are modelled.  A counter per direction belongs   *)
(* to an instance; the reading of all counters under the lock is one step, *)
(* for an addition between two readings may as well come before or after.  *)
(***************************************************************************)
EXTENDS TrafficTracker, Sequences, FiniteSets

CONSTANTS
    XConns,       \* connections of the user
    MaxXBytes,    \* bound: bytes in both directions
    MaxInsts,     \* bound: instances started
    MaxXGens      \* bound: counters of one name in one instance

ASSUME XTrafficAssumption == {MaxXBytes, MaxInsts, MaxXGens} \subseteq Nat

VARIABLES
    xWanted,     \* the user is in users
    instStage,   \* of every instance: current, draining, closing or closed
    gens,        \* its counters of the user by direction: trafficStatCounter
    table,       \* index of the registered one, or 0: trafficStats.counters
    xConns,      \* tracked: counted by the dispatcher of its instance
    xRetire,     \* the call of RetireTraffic that holds x.mu
    cumTraffic,  \* the kernel's totals of the user
    xLoop,       \* collectTraffic: idle, sampled or processed
    xTracker, xDelivered,
    xMoved,      \* history: the bytes that passed
    outlived     \* history: a connection lived on when its instance was closed

xTrafficVars == <<xWanted, instStage, gens, table, xConns, xRetire, cumTraffic, xLoop,
                  xTracker, xDelivered, xMoved, outlived>>
counterVars == <<instStage, gens, table>>
xServiceVars == <<xLoop, xTracker, xDelivered>>

Insts == 1 .. Len(instStage)
Live == {i \in Insts : instStage[i] # "closed"}
NoConn == [at |-> "none", dir |-> "up", inst |-> 0, cell |-> Zero, tracked |-> FALSE]
NoRetire == [at |-> "idle", inst |-> 0]

XTrafficInit ==
    /\ xWanted = TRUE
    /\ instStage = <<"current">> /\ gens = <<[d \in Directions |-> <<>>]>>
    /\ table = <<Zero>>
    /\ xConns = [c \in XConns |-> NoConn]
    /\ xRetire = NoRetire /\ cumTraffic = NoTotal
    /\ xLoop = [at |-> "idle"] /\ xTracker = NewTracker
    /\ xDelivered = Zero
    /\ xMoved = Zero /\ outlived = FALSE

XUnlocked == xRetire = NoRetire      \* x.mu
ManagerFree(i) == xRetire.inst # i   \* trafficStats.mu

-----------------------------------------------------------------------------
\* UpdateUsers.
XSetWanted ==
    /\ XUnlocked /\ xWanted' = ~xWanted
    /\ UNCHANGED <<counterVars, xConns, xRetire, cumTraffic, xServiceVars, xMoved, outlived>>

\* A restart: retireCurrentLocked, and the new instance.
RestartInstance ==
    /\ XUnlocked /\ Len(instStage) < MaxInsts
    /\ instStage' = Append([i \in Insts |-> IF instStage[i] = "current" THEN "draining"
                                        ELSE instStage[i]], "current")
    /\ gens' = Append(gens, [d \in Directions |-> <<>>])
    /\ table' = Append(table, Zero)
    /\ UNCHANGED <<xWanted, xConns, xRetire, cumTraffic, xServiceVars, xMoved, outlived>>

\* The dispatcher has counted the connection.
Dispatch(c, i) ==
    /\ xConns[c] = NoConn /\ xWanted /\ instStage[i] \in {"current", "draining"}
    /\ xConns' = [xConns EXCEPT ![c] = [NoConn EXCEPT !.at = "counted", !.inst = i,
                                                      !.tracked = TRUE]]
    /\ UNCHANGED <<xWanted, counterVars, xRetire, cumTraffic, xServiceVars, xMoved, outlived>>

\* GetOrRegisterCounter and newCounterLocked.
Registered(i, d) ==
    IF table[i][d] # 0 THEN [cells |-> gens[i][d], at |-> table[i][d]]
    ELSE [cells |-> Append(gens[i][d], [value |-> 0, retired |-> FALSE]),
          at |-> Len(gens[i][d]) + 1]
RoomFor(i, d) == table[i][d] # 0 \/ Len(gens[i][d]) < MaxXGens

\* The link of the core (external) holds both counters from now on.
GetCounters(c) ==
    LET i == xConns[c].inst
    IN /\ xConns[c].at = "counted" /\ ManagerFree(i)
       /\ \A d \in Directions : RoomFor(i, d)
       /\ gens' = [gens EXCEPT ![i] = [d \in Directions |-> Registered(i, d).cells]]
       /\ table' = [table EXCEPT ![i] = [d \in Directions |-> Registered(i, d).at]]
       /\ xConns' = [xConns EXCEPT ![c].at = "open", ![c].cell = table'[i]]
       /\ UNCHANGED <<xWanted, instStage, xRetire, cumTraffic, xServiceVars, xMoved, outlived>>

\* The connection is closed; a write on its way may still count.
XUntrack(c) ==
    /\ xConns[c].tracked /\ xConns[c].at # "counted"
    /\ xConns' = [xConns EXCEPT ![c].tracked = FALSE]
    /\ UNCHANGED <<xWanted, counterVars, xRetire, cumTraffic, xServiceVars, xMoved, outlived>>

XGone(c) ==
    /\ xConns[c].at = "open" /\ ~xConns[c].tracked
    /\ xConns' = [xConns EXCEPT ![c] = NoConn]
    /\ UNCHANGED <<xWanted, counterVars, xRetire, cumTraffic, xServiceVars, xMoved, outlived>>

\* trafficStatCounter.Add, then the look at retired.
XAddValue(c, d) ==
    LET k == xConns[c]
    IN /\ k.at = "open" /\ xMoved["up"] + xMoved["down"] < MaxXBytes
       /\ gens' = [gens EXCEPT ![k.inst][d][k.cell[d]].value = @ + 1]
       /\ xMoved' = [xMoved EXCEPT ![d] = @ + 1]
       /\ xConns' = [xConns EXCEPT ![c].at = "added", ![c].dir = d]
       /\ UNCHANGED <<xWanted, instStage, table, xRetire, cumTraffic, xServiceVars, outlived>>

XLookRetired(c, d) ==
    LET k == xConns[c]
    IN /\ k.at = "added" /\ k.dir = d
       /\ xConns' = [xConns EXCEPT ![c] =
              IF gens[k.inst][d][k.cell[d]].retired THEN [k EXCEPT !.at = "late"]
              ELSE [k EXCEPT !.at = "open", !.dir = "up"]]
       /\ UNCHANGED <<xWanted, counterVars, xRetire, cumTraffic, xServiceVars, xMoved,
                      outlived>>

\* reactivate.
XReactivate(c, d) ==
    LET k == xConns[c]
        old == gens[k.inst][d][k.cell[d]]
        reg == Registered(k.inst, d)
    IN /\ k.at = "late" /\ k.dir = d /\ ManagerFree(k.inst)
       /\ IF ~old.retired \/ old.value = 0 THEN UNCHANGED <<gens, table>>
          ELSE /\ RoomFor(k.inst, d)
               /\ gens' = [gens EXCEPT ![k.inst][d] =
                             [reg.cells EXCEPT ![k.cell[d]].value = 0,
                                               ![reg.at].value = @ + old.value]]
               /\ table' = [table EXCEPT ![k.inst][d] = reg.at]
       /\ xConns' = [xConns EXCEPT ![c].at = "open", ![c].dir = "up"]
       /\ UNCHANGED <<xWanted, instStage, xRetire, cumTraffic, xServiceVars, xMoved, outlived>>

-----------------------------------------------------------------------------
\* What the registered counters of the instances in I hold.
InTable(i, d) == IF table[i][d] = 0 THEN 0 ELSE gens[i][d][table[i][d]].value
CountedIn(I) ==
    [d \in Directions |->
        LET f[i \in 0 .. Len(instStage)] ==
              IF i = 0 THEN 0 ELSE f[i - 1] + (IF i \in I THEN InTable(i, d) ELSE 0)
        IN f[Len(instStage)]]

\* collectInstanceStatsLocked: the counters are read and set to 0.
Emptied(I) ==
    [i \in Insts |-> [d \in Directions |->
        IF i \notin I \/ table[i][d] = 0 THEN gens[i][d]
        ELSE [gens[i][d] EXCEPT ![table[i][d]].value = 0]]]
Settled(I) == IF CountedIn(I) = Zero THEN cumTraffic
              ELSE Plus(OrZero(cumTraffic), CountedIn(I))
Collect(I) == gens' = Emptied(I) /\ cumTraffic' = Settled(I)

\* collectTraffic: GetUserTraffic, which settles the live instances,
XSample ==
    /\ xLoop.at = "idle" /\ XUnlocked
    /\ Collect(Live)
    /\ xLoop' = [at |-> "sampled", cum |-> cumTraffic']
    /\ UNCHANGED <<xWanted, instStage, table, xConns, xRetire, xTracker, xDelivered,
                   xMoved, outlived>>

\* and Process.
XProcess ==
    /\ xLoop.at = "sampled"
    /\ xTracker' = Process(xTracker, xLoop.cum)
    /\ xLoop' \in {[at |-> "idle"], [at |-> "processed"]}
    /\ UNCHANGED <<xWanted, counterVars, xConns, xRetire, cumTraffic, xDelivered,
                   xMoved, outlived>>

\* Who is busy is asked of the instances that drain, too.
XKept == xWanted \/ \E c \in XConns : xConns[c].tracked /\ xConns[c].inst \in Live

\* Mutant: the totals are compared before they are settled.
RetireUnsettled ==
    /\ xLoop.at = "processed" /\ XUnlocked /\ Candidate(xTracker)
    /\ Collect(Live)
    /\ IF ~XKept /\ cumTraffic = xTracker.lastSeen
       THEN /\ xRetire' = [at |-> "mark", inst |-> 1, dir |-> "up", complete |-> TRUE]
            /\ xLoop' = xLoop
       ELSE xRetire' = NoRetire /\ xLoop' = [at |-> "idle"]
    /\ UNCHANGED <<xWanted, instStage, table, xConns, xTracker, xDelivered, xMoved,
                   outlived>>

\* RetireTraffic: the totals are settled again, and must be the confirmed ones.
XBeginRetire ==
    /\ xLoop.at = "processed" /\ XUnlocked /\ Candidate(xTracker)
    /\ Collect(Live)
    /\ IF ~XKept /\ cumTraffic' = xTracker.lastSeen
       THEN /\ xRetire' = [at |-> "mark", inst |-> 1, dir |-> "up", complete |-> TRUE]
            /\ xLoop' = xLoop
       ELSE xRetire' = NoRetire /\ xLoop' = [at |-> "idle"]
    /\ UNCHANGED <<xWanted, instStage, table, xConns, xTracker, xDelivered, xMoved,
                   outlived>>

\* retireUser of instance after instance, and there of counter after counter.
NextCounter(r, ok) ==
    LET c == r.complete /\ ok
    IN IF r.dir = "up" THEN [at |-> "mark", inst |-> r.inst, dir |-> "down", complete |-> c]
       ELSE [at |-> "mark", inst |-> r.inst + 1, dir |-> "up", complete |-> c]

RetireMark ==
    LET i == xRetire.inst
        d == xRetire.dir
    IN /\ xRetire.at = "mark" /\ i \in Insts
       /\ IF i \notin Live \/ table[i][d] = 0
          THEN xRetire' = NextCounter(xRetire, TRUE) /\ gens' = gens
          ELSE /\ gens' = [gens EXCEPT ![i][d][table[i][d]].retired = TRUE]
               /\ xRetire' = [xRetire EXCEPT !.at = "swap"]
       /\ UNCHANGED <<xWanted, instStage, table, xConns, cumTraffic, xServiceVars, xMoved,
                      outlived>>

\* A value of 0 lets the counter go.  Any other is added back after the swap;
\* what an addition in between finds is the same.
RetireSwap ==
    LET i == xRetire.inst
        d == xRetire.dir
        cell == gens[i][d][table[i][d]]
    IN /\ xRetire.at = "swap"
       /\ IF cell.value = 0
          THEN table' = [table EXCEPT ![i][d] = 0] /\ gens' = gens
          ELSE /\ table' = table
               /\ gens' = [gens EXCEPT ![i][d][table[i][d]].retired = FALSE]
       /\ xRetire' = NextCounter(xRetire, cell.value = 0)
       /\ UNCHANGED <<xWanted, instStage, xConns, cumTraffic, xServiceVars, xMoved, outlived>>

EndRetire ==
    /\ xRetire.at = "mark" /\ xRetire.inst \notin Insts
    /\ IF xRetire.complete
       THEN xTracker' = Forgotten(xTracker) /\ cumTraffic' = NoTotal
       ELSE UNCHANGED <<xTracker, cumTraffic>>
    /\ xRetire' = NoRetire /\ xLoop' = [at |-> "idle"]
    /\ UNCHANGED <<xWanted, counterVars, xConns, xDelivered, xMoved, outlived>>

\* RetireConfirmed without a candidate.
XNoneToRetire ==
    /\ xLoop.at = "processed" /\ XUnlocked
    /\ ~Candidate(xTracker)
    /\ xLoop' = [at |-> "idle"]
    /\ UNCHANGED <<xWanted, counterVars, xConns, xRetire, cumTraffic, xTracker,
                   xDelivered, xMoved, outlived>>

\* The report leaves and is confirmed, which is one step here.
XConfirm ==
    /\ xTracker.pending # NoTotal /\ XUnlocked
    /\ xDelivered' = Plus(xDelivered, xTracker.pending) /\ xTracker' = Flushed(xTracker)
    /\ UNCHANGED <<xWanted, counterVars, xConns, xRetire, cumTraffic, xLoop, xMoved, outlived>>

-----------------------------------------------------------------------------
\* recycleOld: drained, forced or out of time, the instance is settled and
\* closed,
RecycleClose(i) ==
    /\ instStage[i] = "draining" /\ XUnlocked
    /\ Collect({i})
    /\ instStage' = [instStage EXCEPT ![i] = "closing"]
    /\ UNCHANGED <<xWanted, table, xConns, xRetire, xServiceVars, xMoved, outlived>>

\* and settled for the last time, after a second for the connections to end.
RecycleRemove(i) ==
    /\ instStage[i] = "closing" /\ XUnlocked
    /\ Collect({i})
    /\ instStage' = [instStage EXCEPT ![i] = "closed"]
    /\ outlived' = (outlived \/ \E c \in XConns : xConns[c].inst = i)
    /\ UNCHANGED <<xWanted, table, xConns, xRetire, xServiceVars, xMoved>>

XTrafficNext ==
    \/ XSetWanted \/ RestartInstance
    \/ \E c \in XConns : \/ \E i \in Insts : Dispatch(c, i)
                         \/ GetCounters(c) \/ XUntrack(c) \/ XGone(c)
                         \/ \E d \in Directions : XAddValue(c, d) \/ XLookRetired(c, d)
                                                  \/ XReactivate(c, d)
    \/ XSample \/ XProcess \/ XConfirm
    \/ XBeginRetire \/ RetireMark \/ RetireSwap \/ EndRetire \/ XNoneToRetire
    \/ \E i \in Insts : RecycleClose(i) \/ RecycleRemove(i)

-----------------------------------------------------------------------------
HeldIn(i, d) ==
    LET f[k \in 0 .. Len(gens[i][d])] ==
          IF k = 0 THEN 0 ELSE f[k - 1] + gens[i][d][k].value
    IN f[Len(gens[i][d])]
XHeld(d) == LET f[i \in 0 .. Len(instStage)] == IF i = 0 THEN 0 ELSE f[i - 1] + HeldIn(i, d)
            IN f[Len(instStage)]
XTold(d) == xDelivered[d] + OrZero(xTracker.pending)[d]

(***************************************************************************)
(* Every byte is told to the panel once, over restarts and the giving up   *)
(* of counters: it is in what the tracker took, in the kernel's totals     *)
(* above what the tracker has seen of them, or still in a counter.  And    *)
(* none stays behind: while the connections are quiet, the counters that   *)
(* were given up are empty, and so are those of the recycled instances     *)
(* unless a connection lived longer than its instance.                     *)
(***************************************************************************)
XTrafficConserved ==
    /\ \A d \in Directions :
         xMoved[d] = XTold(d) + OrZero(cumTraffic)[d] - OrZero(xTracker.lastSeen)[d] + XHeld(d)
    /\ \A i \in Insts, d \in Directions :
         \A k \in 1 .. Len(gens[i][d]) :
            gens[i][d][k].value # 0 /\ k # table[i][d]
            => \E c \in XConns : xConns[c].inst = i /\ xConns[c].cell[d] = k
                                 /\ xConns[c].at \in {"added", "late"} /\ xConns[c].dir = d
    /\ ~outlived => \A i \in Insts \ Live, d \in Directions : HeldIn(i, d) = 0
=============================================================================
