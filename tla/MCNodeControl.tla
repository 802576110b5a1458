--------------------------- MODULE MCNodeControl ---------------------------
(***************************************************************************)
(* NodeControl for TLC.  Configurations "a" and "a2" differ in what the    *)
(* kernel does not depend on.                                              *)
(***************************************************************************)
EXTENDS NodeControl

KernelHashOf == [c \in Configs |-> IF c = "a2" THEN "a" ELSE c]

=============================================================================
