-------------------------------- MODULE MCDeploy ------------------------------
(***************************************************************************)
(* Deploy for TLC: one claim, two agents.                                  *)
(***************************************************************************)
EXTENDS Deploy, TLC

CONSTANTS p1, c1

MCShared == [c \in Claims |-> p1]

===============================================================================
