---------------------------- MODULE MCOrchestrator ----------------------------
(***************************************************************************)
(* Orchestrator for TLC: the claims share a partition.                     *)
(***************************************************************************)
EXTENDS Orchestrator, TLC

CONSTANTS p1, c1, c2, o1, o2

MCShared == [c \in Claims |-> p1]
MCOneGroup == [w \in Processes |-> "flinkswarm-orchestrator"]

===============================================================================
