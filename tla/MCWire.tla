-------------------------------- MODULE MCWire --------------------------------
(***************************************************************************)
(* What one process writes and another reads, for TLC: Payload, Answer and *)
(* Rollout side by side.  They have nothing in common; a behaviour moves   *)
(* only one of them, while the others keep their initial state.            *)
(***************************************************************************)
EXTENDS Payload, Answer, Rollout

(* Two agents, one of them with a name that has to be escaped.             *)
MCAgentNames == {<<"n">>, <<"n", "\"">>}

(* Two versions of the package and three specs: as it is, one that names a *)
(* tool only the later version has, and one without the agent.             *)
MCToolsOf == <<{"get_claim_from_cosmos"}, {"get_claim_from_cosmos", "get_weather"}>>

MCSpec(name, tools, fallback) ==
  [workers |-> <<[name |-> name, tools |-> tools]>>, fallback |-> fallback]

MCSpecs ==
  {MCSpec("ClaimDataAgent", MCToolsOf[1], FALSE),
   MCSpec("ClaimDataAgent", MCToolsOf[2], TRUE),
   MCSpec("PolicyDocAgent", {}, TRUE)}

(* One replica is given its name, the other takes the first of the spec.   *)
MCAgentNameOf ==
  [p \in Processes |-> IF p = CHOOSE r \in Readers : TRUE THEN "" ELSE "ClaimDataAgent"]

MCFirst ==
  [registry |-> FALSE, bootstrap |-> "set", code |-> 1,
   spec |-> MCSpec("ClaimDataAgent", MCToolsOf[1], FALSE)]

payloadVars == <<claimId, findings>>

WireInit == PayloadInit /\ AnswerInit /\ Init

WireNext ==
  \/ AnswerInit /\ Init /\ PayloadNext /\ UNCHANGED <<answer, vars>>
  \/ PayloadInit /\ Init /\ AnswerNext /\ UNCHANGED <<payloadVars, vars>>
  \/ PayloadInit /\ AnswerInit /\ Next /\ UNCHANGED <<payloadVars, answer>>

WireSpec == WireInit /\ [][WireNext]_<<payloadVars, answer, vars>> /\ Fairness

===============================================================================
