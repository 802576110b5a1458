----------------------------- MODULE RemoteCall -----------------------------
(***************************************************************************)
(* What a call to the panel promises its caller, whichever channel carries *)
(* it: it ends once; success means that the panel has processed it; the    *)
(* panel may process it late, also after its failure, and no more than     *)
(* twice (once per channel).  The report pipeline and the device gate are  *)
(* built on exactly this.                                                  *)
(***************************************************************************)
EXTENDS Naturals

CONSTANT Calls

VARIABLES
    outcome,   \* "idle", "asked", "ok" or "failed"
    effects    \* how often the panel has processed the call

callVars == <<outcome, effects>>

CallInit ==
    /\ outcome = [c \in Calls |-> "idle"]
    /\ effects = [c \in Calls |-> 0]

Ask(c) ==
    /\ outcome[c] = "idle"
    /\ outcome' = [outcome EXCEPT ![c] = "asked"]
    /\ UNCHANGED effects

Effect(c) ==
    /\ outcome[c] # "idle" /\ effects[c] < 2
    /\ effects' = [effects EXCEPT ![c] = @ + 1]
    /\ UNCHANGED outcome

Succeed(c) ==
    /\ outcome[c] = "asked" /\ effects[c] > 0
    /\ outcome' = [outcome EXCEPT ![c] = "ok"]
    /\ UNCHANGED effects

Fail(c) ==
    /\ outcome[c] = "asked"
    /\ outcome' = [outcome EXCEPT ![c] = "failed"]
    /\ UNCHANGED effects

CallNext == \E c \in Calls : Ask(c) \/ Effect(c) \/ Succeed(c) \/ Fail(c)

CallSpec == CallInit /\ [][CallNext]_callVars
=============================================================================
