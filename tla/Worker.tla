-------------------------------- MODULE Worker --------------------------------
(***************************************************************************)
(* GenericSwarmWorker (flinkswarm/worker.py): every process consumes       *)
(* agent.tasks.dispatched in the consumer group of its agent, runs the     *)
(* model, and produces to agent.results.completed.  The replicas of one    *)
(* agent share a group (k8s/deployment.yaml, scaled by KEDA); different    *)
(* agents have groups of their own and each see every task.                *)
(*                                                                         *)
(* A group of the loop is an agent, GroupOf a process its AGENT_NAME, and  *)
(* input is agent.tasks.dispatched.                                        *)
(***************************************************************************)
EXTENDS Loop, Functions

CONSTANTS
  SchemaRegistry,   \* is SCHEMA_REGISTRY_URL set?
  BadKey,           \* a record whose key is not UTF-8, whatever its value
  Junk,             \* records that are no tasks, put on the topic by others
  MaxRecords        \* bound: records Env puts on the task topic in all

ASSUME WorkerAssumption ==
  /\ Groups \subseteq Agents
  /\ SchemaRegistry \in BOOLEAN
  /\ Junk \subseteq {BadKey, BadPayload, Tombstone}
  /\ BadPayload \notin Task /\ Tombstone \notin Task
  /\ BadKey \notin Task \cup {BadPayload, Tombstone}
  /\ MaxRecords \in Nat

VARIABLE results   \* agent.results.completed: partition -> sequence of results

vars == <<input, results, loopVars>>

Init == LoopInit /\ results = [p \in Partitions |-> <<>>]

-------------------------------------------------------------------------------

(* What _task_codec.decode raises on, inside the try.  Without a registry  *)
(* json.loads fails on a null value; with one the deserializer returns None*)
(* for it.                                                                 *)
Undecodable == {BadPayload} \cup (IF SchemaRegistry THEN {} ELSE {Tombstone})

(* A payload that does not decode is skipped, and committed like any other.*)
(* A key that does not is no such payload: the process has the record in   *)
(* hand and dies of it (Raises).                                           *)
Receive(w, p) ==
  /\ Poll(w, p, IF Peek(w, p) \in Undecodable THEN "commit" ELSE "work")
  /\ UNCHANGED <<input, results>>

(* Mutant: a run that raises is not reported.                              *)
HandleSwallows(w) ==
  /\ proc[w].pc = "work"
  /\ InHand(w) \in Task
  /\ \/ \E text \in Texts : Produce(w, SuccessOf(InHand(w), GroupOf[w], text))
     \/ Goto(w, "flush") /\ UNCHANGED <<owner, acked, trouble>>
  /\ UNCHANGED <<input, results>>

(* _handle: the model answers, or its run raises and a FAILURE is reported *)
(* instead; either way one result is produced.                             *)
Handle(w) ==
  /\ proc[w].pc = "work"
  /\ InHand(w) \in Task
  /\ \E res \in ReportsOf(InHand(w), GroupOf[w]) : Produce(w, res)
  /\ UNCHANGED <<input, results>>

(* What leaves start(), with nothing committed: decode_key of a key that is*)
(* not UTF-8, before the try that decodes the value; and _handle of a      *)
(* decoded None, whose task.prompt raises, as does task.claim_id in the    *)
(* except clause.                                                          *)
Raises(w) ==
  /\ proc[w].pc = "work"
  /\ InHand(w) \notin Task
  /\ Die(w)
  /\ UNCHANGED <<input, results, trouble>>

(* The oldest result of the producer's queue reaches the topic.            *)
Deliver(w) ==
  /\ Sent(w)
  /\ results' = Published(results, Head(proc[w].out).claim, Head(proc[w].out))
  /\ UNCHANGED input

(* Everything process w does of its own accord, its group included.        *)
Progress(w) ==
  \/ Turn(w) /\ UNCHANGED <<input, results>>
  \/ \E p \in Partitions : Receive(w, p)
  \/ Handle(w) \/ Raises(w)

Trouble(w) == Upset(w) /\ UNCHANGED <<input, results>>

Step == \E w \in Processes : Progress(w) \/ Deliver(w) \/ Trouble(w)

(* The environment of the workers on their own: tasks, numbered per        *)
(* partition, and records that are none.                                   *)
NextRound(p) == Len(input[p]) + 1

Env ==
  /\ SumFunction([p \in Partitions |-> Len(input[p])]) < MaxRecords
  /\ \/ \E c \in Claims :
          /\ NextRound(PartitionOf[c]) <= MaxRounds
          /\ input' = Published(input, c,
                         [claim |-> c, round |-> NextRound(PartitionOf[c])])
     \/ \E p \in Partitions, junk \in Junk :
          /\ NextRound(p) <= MaxRounds
          /\ input' = [input EXCEPT ![p] = Append(@, junk)]
  /\ UNCHANGED <<results, loopVars>>

Next == Step \/ Env

Spec == Init /\ [][Next]_vars

(* Replicas are restarted and keep polling, models answer or time out, the *)
(* broker is reachable; nothing has to go wrong.                           *)
Fairness == \A w \in Processes : WF_vars(Progress(w)) /\ WF_vars(Deliver(w))

FairSpec == Spec /\ Fairness

-------------------------------------------------------------------------------

(* Type correctness of the topics, the groups and the processes.           *)
TypeOK ==
  /\ input \in [Partitions -> Seq(Task \cup {BadKey, BadPayload, Tombstone})]
  /\ results \in [Partitions -> Seq(Result)]
  /\ LoopTypeOK(Result)

(* res is a result of agent a for the task.                                *)
Answers(res, task, a) ==
  res.claim = task.claim /\ res.round = task.round /\ res.agent = a

(* The results of agent a for the task on the topic, as offsets.           *)
AnswersTo(task, a) ==
  {j \in 1..Len(results[PartitionOf[task.claim]]) :
     Answers(results[PartitionOf[task.claim]][j], task, a)}

InLog(task, a) == AnswersTo(task, a) # {}

InFlight(task, a) ==
  \E w \in Processes : \E i \in 1..Len(proc[w].out) : Answers(proc[w].out[i], task, a)

(* The tasks agent a's group has committed in partition p, as offsets.     *)
Settled(a, p) == {i \in 1..acked[a][p] : input[p][i] \in Task}

(* At least once: as long as every delivery succeeds within its flush, a   *)
(* committed task has the agent's result on the results topic, whatever    *)
(* crashed, was evicted or was stopped in between.                         *)
NoLostWork ==
  trouble.faults = 0 =>
    \A a \in Groups, p \in Partitions : \A i \in Settled(a, p) : InLog(input[p][i], a)

(* Each failed delivery or timed out flush costs at most one result.       *)
LossBounded ==
  Cardinality({t \in Groups \X Partitions \X (1..MaxRounds) :
                 /\ t[3] \in Settled(t[1], t[2])
                 /\ ~InLog(input[t[2]][t[3]], t[1])
                 /\ ~InFlight(input[t[2]][t[3]], t[1])}) <= trouble.faults

(* The results agent a has on the topic.                                   *)
ReportsBy(a) ==
  UNION {{<<p, i>> : i \in {n \in 1..Len(results[p]) : results[p][n].agent = a}} :
           p \in Partitions}

(* Duplicates are the price of crashes and evictions only, one each:       *)
(* restarts by SIGTERM and rebalances never make an agent answer twice.    *)
DuplicatesNeedDisruption ==
  \A a \in Groups :
    Cardinality(ReportsBy(a)) <=
      Cardinality({<<results[r[1]][r[2]].claim, results[r[1]][r[2]].round>> :
                     r \in ReportsBy(a)}) + Disruptions

(* A null value, with a registry, and a key that is not UTF-8, in any case,*)
(* kill every replica that polls them, and nobody commits them: agent a's  *)
(* group never gets past one.  Its other partitions may wait as well, for  *)
(* every replica may meet that record first.                               *)
Poisoned(a) ==
  \E p \in Partitions :
    /\ acked[a][p] < Len(input[p])
    /\ input[p][acked[a][p] + 1] \notin Task \cup Undecodable

(* Every record on the topic is eventually settled by every agent's group, *)
(* undecodable ones included, unless the group is stuck at such a record.  *)
EveryTaskSettled ==
  \A a \in Groups, p \in Partitions : \A i \in 1..MaxRounds :
    (Len(input[p]) >= i) ~> (acked[a][p] >= i \/ Poisoned(a))

(* What diagrams/deck.html promises: an agent crash simply resumes from the*)
(* last committed offset, with no lost work -- no crash takes away the     *)
(* result, published or queued, of a task that is already committed.       *)
NoWorkLostByCrash ==
  [][trouble'.crashes > trouble.crashes =>
       \A a \in Groups, p \in Partitions : \A i \in Settled(a, p) :
         InLog(input[p][i], a) \/ InFlight(input[p][i], a)
           => (InLog(input[p][i], a) \/ InFlight(input[p][i], a))']_vars

(* The workers implement Relay: a lane is an agent and a partition.        *)
Lanes == Groups \X Partitions

R == INSTANCE Relay WITH
  owed <- [l \in Lanes |-> [i \in 1..Len(input[l[2]]) |-> input[l[2]][i] \in Task]],
  settled <- [l \in Lanes |-> acked[l[1]][l[2]]],
  answers <- [l \in Lanes |-> [i \in 1..Len(input[l[2]]) |->
                IF input[l[2]][i] \in Task
                  THEN Cardinality(AnswersTo(input[l[2]][i], l[1])) ELSE 0]],
  losses <- trouble.faults,
  disruptions <- Disruptions

(* Relay's promise: every task is answered before it is committed, in      *)
(* order, at the price of a fault each at most when it is not, and answered*)
(* again at the price of a crash or an eviction each at most.              *)
ImplementsRelay == R!Spec

===============================================================================
