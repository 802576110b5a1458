---------------------------- MODULE MCComponents ----------------------------
(* Components that do not interact share one run: part says which of them  *)
(* a behaviour is about; the others stay in one initial state.              *)
EXTENDS PendingStore, WSClient, TrafficMeter, SpeedLimits, Probing,
        AccessLog

VARIABLE part

MCAllButCleanup == {"write", "read", "corrupt"}
MCSize == [m \in Messages |-> IF m \in ControlCalls THEN 1 ELSE 2]

MCSpeedRules == {[mode |-> "continuous", span |-> 2, hits |-> 1, hold |-> 2, target |-> 1],
                 [mode |-> "window", span |-> 3, hits |-> 2, hold |-> 2, target |-> 3]}

ComponentsInit ==
    /\ part \in {"store", "client", "meter", "speed", "probing", "access"}
    /\ StoreInit /\ MeterInit /\ SpeedInit /\ ProbingInit /\ AccessInit
    /\ ClientInit /\ (part # "client" => realtime)

\* The parts that p leaves alone.
Others(p) ==
    /\ IF p = "store" THEN TRUE ELSE UNCHANGED storeVars
    /\ IF p = "client" THEN TRUE ELSE UNCHANGED clientVars
    /\ IF p = "meter" THEN TRUE ELSE UNCHANGED meterWorld
    /\ IF p = "speed" THEN TRUE ELSE UNCHANGED speedVars
    /\ IF p = "probing" THEN TRUE ELSE UNCHANGED probingVars
    /\ IF p = "access" THEN TRUE ELSE UNCHANGED accessVars

ComponentsNext ==
    /\ UNCHANGED part
    /\ \/ part = "store" /\ Others("store") /\ Next
       \/ part = "client" /\ Others("client") /\ ClientNext
       \/ part = "meter" /\ Others("meter") /\ MeterNext
       \/ part = "speed" /\ Others("speed") /\ SpeedNext
       \/ part = "probing" /\ Others("probing") /\ ProbingNext
       \/ part = "access" /\ Others("access") /\ AccessNext

ComponentsSpec ==
    ComponentsInit /\ [][ComponentsNext]_<<part, storeVars, clientVars, meterWorld,
                                           speedVars, probingVars, accessVars>>
=============================================================================
