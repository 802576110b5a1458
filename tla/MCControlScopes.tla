-------------------------- MODULE MCControlScopes --------------------------
(***************************************************************************)
(* The node in two scopes: with certificate renewals, one change of the    *)
(* panel and one connection; or without renewals, within the bounds of the *)
(* constants.                                                              *)
(***************************************************************************)
EXTENDS MCNodeControl

VARIABLE renewals

ScopesInit == ControlInit /\ renewals \in BOOLEAN

ScopesNext ==
    /\ UNCHANGED renewals
    /\ ControlNext
    /\ IF renewals THEN Len(past') <= 2 /\ links' <= 1 ELSE cert' = 0

ScopesSpec == ScopesInit /\ [][ScopesNext]_<<renewals, controlVars>>
=============================================================================
