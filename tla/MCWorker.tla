------------------------------- MODULE MCWorker -------------------------------
(***************************************************************************)
(* Worker for TLC: the replicas of one agent.                              *)
(***************************************************************************)
EXTENDS Worker, TLC

CONSTANTS p1, p2, c1, c2, w1, w2

MCShared == [c \in Claims |-> p1]
MCSplit == (c1 :> p1) @@ (c2 :> p2)
MCOneAgent == [w \in Processes |-> "ClaimDataAgent"]

===============================================================================
