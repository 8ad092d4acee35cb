---------------------------- MODULE MCAgentBarrier ----------------------------
(***************************************************************************)
(* AgentBarrier for TLC: the claims share a partition.                     *)
(***************************************************************************)
EXTENDS AgentBarrier, TLC

CONSTANTS p1, c1

MCShared == [c \in Claims |-> p1]

===============================================================================
