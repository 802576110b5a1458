---------------------------- MODULE MCDeviceGate ----------------------------
(* DeviceGate for TLC in two parts with bounds of their own: in "calls" no  *)
(* time passes and the panel has one lease to grant; in "clock" there is    *)
(* one session, no call is late, the last number is drawn before the first  *)
(* lease can end, and of the other events only revocations happen.  A third *)
(* part, "agent", is AgentProcess, which does not interact with the gate    *)
(* and shares this run.                                                     *)
EXTENDS DeviceGate, AgentProcess

VARIABLE part

CallsOnly ==
    /\ now' = 0
    /\ seq' = MaxSeq => \A w \in wire' : Waiting(w)'
    /\ \A u \in Users : hold'[u] # None => hold'[u].lease = 1

ClockOnly ==
    /\ seq' < MaxSeq /\ runs' <= 1 /\ users' = users /\ closing' = closing
    /\ session' = 0 => session = 0
    /\ now' >= Grace => seq' = seq \/ seq' < MaxSeq - 1
    /\ \A w \in wire' : Waiting(w)'

MCGateInit ==
    /\ part \in {"calls", "clock", "agent"}
    /\ GateInit
    /\ AgentInit /\ (part # "agent" => ~file.sealed)

MCGateNext ==
    /\ UNCHANGED part
    /\ \/ part = "calls" /\ GateNext /\ CallsOnly /\ UNCHANGED agentVars
       \/ part = "clock" /\ GateNext /\ ClockOnly /\ UNCHANGED agentVars
       \/ part = "agent" /\ AgentNext /\ UNCHANGED gateVars

MCGateSpec == MCGateInit /\ [][MCGateNext]_<<part, gateVars, agentVars>>
=============================================================================
