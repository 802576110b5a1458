------------------------------- MODULE MCLive -------------------------------
(* What must happen in the end, for three components that do not interact: *)
(* in part "machine" the nodes of a machine, in part "reports" the report  *)
(* pipeline, in part "control" a node that follows the panel.  The others  *)
(* stay as they are when the process starts.                               *)
EXTENDS MCReportPipeline, Machine, MCNodeControl

VARIABLE part

MCLiveInit ==
    /\ part \in {"machine", "reports", "control"}
    /\ MachineInit /\ PipelineInit /\ ControlInit
    /\ part # "machine" => ~metered /\ Listed(want) = {}
    \* Kernels and configurations are alike: begin with one of them.
    /\ \A n \in Nodes : want[n] \in {Absent, CHOOSE k \in Kernels : TRUE}
    /\ panel.config = CHOOSE c \in Configs : TRUE

MCLiveNext ==
    /\ UNCHANGED part
    /\ \/ part = "machine" /\ MachineNext /\ UNCHANGED <<allVars, controlVars>>
       \/ part = "reports" /\ PipelineNext /\ UNCHANGED <<machineVars, controlVars>>
       \/ /\ part = "control" /\ ControlNext /\ UNCHANGED <<machineVars, allVars>>
          \* A renewal with one connection, or two connections without.
          /\ cert' = 0 \/ links' <= 1

MCLiveSpec ==
    /\ MCLiveInit /\ [][MCLiveNext]_<<part, machineVars, allVars, controlVars>>
    /\ \/ part = "machine" /\ MachineFairness
       \/ part = "reports" /\ ReportFairness
       \/ part = "control" /\ ControlFairness

\* A node gets to the panel's state (EventuallyCurrent) if it runs at all.
EventuallyFollowed == part = "control" => EventuallyCurrent
=============================================================================
