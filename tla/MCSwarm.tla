-------------------------------- MODULE MCSwarm -------------------------------
(***************************************************************************)
(* The swarm of agent-spec.yaml for TLC: two agents, one process each.     *)
(***************************************************************************)
EXTENDS Swarm, TLC

CONSTANTS p1, c1, w1, w2, o1

MCShared == [c \in Claims |-> p1]
MCTwoAgents == (w1 :> "ClaimDataAgent") @@ (w2 :> "PolicyDocAgent")

===============================================================================
