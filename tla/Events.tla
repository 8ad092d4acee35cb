-------------------------------- MODULE Events --------------------------------
(***************************************************************************)
(* The wire events of the swarm (flinkswarm/events.py) and the keys they   *)
(* travel under.  claim_id is the Kafka key of every topic, so everything  *)
(* about one claim stays in one partition of a topic, in order.            *)
(*                                                                         *)
(* A prompt, an answer of a model or a rationale is abstracted to what the *)
(* properties tell apart: which dispatch of the claim it was computed for  *)
(* (the round) and whether the barrier's hand-written escaping turns it    *)
(* into a legal JSON string.                                               *)
(***************************************************************************)
EXTENDS Naturals, Sequences, FiniteSets

CONSTANTS
  Claims,        \* the claim ids tasks are dispatched for
  Agents,        \* the names under spec.workers in agent-spec.yaml
  Partitions,    \* the partitions of each topic
  PartitionOf,   \* the partitioner: claim id -> partition
  Texts,         \* what a sub-agent's model may answer
  RawTexts,      \* the answers with a control character esc() leaves raw
  BadPayload,    \* a record value that the value codec fails to decode
  Tombstone,     \* a record with a null value
  Unknown,       \* the claim id "UNKNOWN" of a payload without one
  MaxRounds      \* bound: tasks dispatched per partition

ASSUME EventsAssumption ==
  /\ IsFiniteSet(Agents)
  /\ PartitionOf \in [Claims -> Partitions]
  /\ RawTexts \subseteq Texts
  /\ Unknown \notin Claims
  /\ MaxRounds \in Nat

(* The dispatches of one partition, numbered from 1.                       *)
Round == 1..MaxRounds

(* The text the barrier stores for an agent that reported a failure.       *)
FailureText == "[agent reported FAILURE]"

Task == [claim : Claims, round : Round]

Result ==
  [claim : Claims, agent : Agents, status : {"SUCCESS"}, result : Texts, round : Round]
    \cup
  [claim : Claims, agent : Agents, status : {"FAILURE"}, result : {""}, round : Round]

(* One entry of the barrier's map: the text, and the round it answers.     *)
Finding == [text : Texts \cup {FailureText}, round : Round]

(* The barrier's map agent_name -> finding, and the "results" of a payload.*)
FindingMap == UNION {[S -> Finding] : S \in SUBSET Agents}

(* aggregated_payload.  Its "partial" is false in every row the barrier    *)
(* writes and only changes the wording of a prompt: it is left out.        *)
SynthesisReady == [claim : Claims, results : FindingMap]

(* A partition and an offset of a topic.                                   *)
Position == [part : Partitions, off : Nat]

(* A decision, and the row its prompt was built from.                      *)
DecisionFinal == [claim : Claims \cup {Unknown}, row : Position]

(* Mutant: claim_id and agent_name of a result are swapped.                *)
SuccessSwapped(task, agent, text) ==
  [claim |-> agent, agent |-> task.claim, status |-> "SUCCESS",
   result |-> text, round |-> task.round]

(* What _handle reports when the model has answered, and when its run has  *)
(* raised.                                                                 *)
SuccessOf(task, agent, text) ==
  [claim |-> task.claim, agent |-> agent, status |-> "SUCCESS",
   result |-> text, round |-> task.round]

FailureOf(task, agent) ==
  [claim |-> task.claim, agent |-> agent, status |-> "FAILURE",
   result |-> "", round |-> task.round]

(* Everything worker a may report for a task.                              *)
ReportsOf(task, agent) ==
  {SuccessOf(task, agent, text) : text \in Texts} \cup {FailureOf(task, agent)}

(* Appending a record to the partition of its key.                         *)
Published(topic, claim, rec) ==
  [topic EXCEPT ![PartitionOf[claim]] = Append(@, rec)]

===============================================================================
