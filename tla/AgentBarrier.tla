----------------------------- MODULE AgentBarrier -----------------------------
(***************************************************************************)
(* The scatter/gather barrier: the Flink ProcessTableFunction AgentBarrier *)
(* (flink/ptf), partitioned by the Kafka key, reading                      *)
(* agent.results.completed and appending to agent.synthesis.ready.         *)
(*                                                                         *)
(* The statement runs under Flink's exactly-once checkpoints: one call of  *)
(* eval -- consume a result, update the keyed state, append the row -- is  *)
(* one step, and a restore is invisible.  A state TTL of four hours        *)
(* (flink/create_barrier.sh) forgets a claim that waits too long.          *)
(***************************************************************************)
EXTENDS Events, Integers

CONSTANTS
  ExpectedAgents,   \* the expectedAgents argument (0 or less stands for null too)
  MaxExpiries,      \* bound: times the statement's sql.state-ttl strikes
  MaxResults        \* bound: results published per partition by Env

ASSUME BarrierAssumption ==
  /\ ExpectedAgents \in Int
  /\ MaxExpiries \in Nat
  /\ MaxResults \in Nat

VARIABLES
  results,     \* agent.results.completed: partition -> sequence of results
  synthesis,   \* agent.synthesis.ready: partition -> sequence of rows
  responses,   \* BarrierState.responses of every key
  read,        \* offset of the next result the statement consumes
  expiries     \* claims forgotten by the state TTL (history)

vars == <<results, synthesis, responses, read, expiries>>

(* The empty TreeMap of a key without state.                               *)
NoResponses == [a \in {} |-> a]

-------------------------------------------------------------------------------

Init ==
  /\ results = [p \in Partitions |-> <<>>]
  /\ synthesis = [p \in Partitions |-> <<>>]
  /\ responses = [c \in Claims |-> NoResponses]
  /\ read = [p \in Partitions |-> 0]
  /\ expiries = 0

(* A null or non-positive argument means one agent.                        *)
Expected == IF ExpectedAgents <= 0 THEN 1 ELSE ExpectedAgents

(* Mutant: the status is not looked at.                                    *)
StoredRaw(res) == [text |-> res.result, round |-> res.round]

(* What is stored for a result: its text, or the marker of a failure.      *)
Stored(res) ==
  [text  |-> IF res.status = "FAILURE" THEN FailureText ELSE res.result,
   round |-> res.round]

(* Mutants: every agent's entry is overwritten; the first report wins.     *)
PutAll(map, agent, finding) == [a \in DOMAIN map \cup {agent} |-> finding]

PutIfAbsent(map, agent, finding) ==
  [a \in DOMAIN map \cup {agent} |-> IF a \in DOMAIN map THEN map[a] ELSE finding]

(* Map.put: the latest result of an agent replaces its earlier one.        *)
Put(map, agent, finding) ==
  [a \in DOMAIN map \cup {agent} |-> IF a = agent THEN finding ELSE map[a]]

(* Mutant: one report too many is waited for.                              *)
CompleteLate(map) == Cardinality(DOMAIN map) > Expected

(* Have enough distinct agents reported?                                   *)
Complete(map) == Cardinality(DOMAIN map) >= Expected

(* Mutant: the state outlives the row.                                     *)
ClearedNot(map) == map

(* responses.clear and clearAllState: nothing of the map is left.          *)
Cleared(map) == NoResponses

(* eval: buffer the next result; once enough distinct agents have reported *)
(* emit one row and forget the claim.                                      *)
Eval(p) ==
  /\ read[p] < Len(results[p])
  /\ LET res == results[p][read[p] + 1]
         new == Put(responses[res.claim], res.agent, Stored(res))
     IN  \/ /\ Complete(new)
            /\ synthesis' = Published(synthesis, res.claim,
                                      [claim |-> res.claim, results |-> new])
            /\ responses' = [responses EXCEPT ![res.claim] = Cleared(new)]
         \/ /\ ~Complete(new)
            /\ responses' = [responses EXCEPT ![res.claim] = new]
            /\ UNCHANGED synthesis
  /\ read' = [read EXCEPT ![p] = @ + 1]
  /\ UNCHANGED <<results, expiries>>

(* The state TTL: a claim that has been waiting for four hours since its   *)
(* last result is forgotten, whatever had been reported for it.            *)
Expire(c) ==
  /\ expiries < MaxExpiries
  /\ expiries' = expiries + 1
  /\ responses[c] # NoResponses
  /\ responses' = [responses EXCEPT ![c] = NoResponses]
  /\ UNCHANGED <<results, synthesis, read>>

(* The environment of the barrier on its own: any agent reports on any     *)
(* round of any claim, late and duplicate reports included.                *)
Env ==
  \E c \in Claims, a \in Agents, n \in Round :
    /\ Len(results[PartitionOf[c]]) < MaxResults
    /\ \E res \in ReportsOf([claim |-> c, round |-> n], a) :
          results' = Published(results, c, res)
    /\ UNCHANGED <<synthesis, responses, read, expiries>>

Next ==
  \/ \E p \in Partitions : Eval(p)
  \/ \E c \in Claims : Expire(c)
  \/ Env

Spec == Init /\ [][Next]_vars

(* Flink keeps consuming; the TTL and the agents owe nothing.              *)
Fairness == \A p \in Partitions : WF_vars(Eval(p))

FairSpec == Spec /\ Fairness

-------------------------------------------------------------------------------

(* Type correctness of the topics, the keyed state and the read offsets.   *)
TypeOK ==
  /\ results \in [Partitions -> Seq(Result)]
  /\ synthesis \in [Partitions -> Seq(SynthesisReady)]
  /\ responses \in [Claims -> FindingMap]
  /\ read \in [Partitions -> Nat]
  /\ expiries \in Nat

(* The results the statement has consumed for claim c, as offsets.         *)
Consumed(c) ==
  {i \in 1..read[PartitionOf[c]] : results[PartitionOf[c]][i].claim = c}

(* The rows emitted for claim c, as offsets.                               *)
RowsOf(c) ==
  {i \in 1..Len(synthesis[PartitionOf[c]]) : synthesis[PartitionOf[c]][i].claim = c}

(* No claim whose agents have all reported is left waiting in the state,   *)
(* and every row joins exactly the expected number of distinct agents.     *)
RowsAreComplete ==
  /\ \A c \in Claims : Cardinality(DOMAIN responses[c]) < Expected
  /\ \A p \in Partitions : \A i \in 1..Len(synthesis[p]) :
        Cardinality(DOMAIN synthesis[p][i].results) = Expected

(* Finding f of agent a on claim c was really reported, in a result that   *)
(* eval has consumed.                                                      *)
Reported(c, a, f) ==
  \E i \in Consumed(c) :
    LET res == results[PartitionOf[c]][i]
    IN  res.agent = a /\ Stored(res) = f

(* Nothing leaks between claims or agents: all the barrier buffers or      *)
(* emits under a claim was reported for that claim by that agent.          *)
FindingsAreReported ==
  /\ \A c \in Claims : \A a \in DOMAIN responses[c] :
        Reported(c, a, responses[c][a])
  /\ \A p \in Partitions : \A i \in 1..Len(synthesis[p]) :
        LET row == synthesis[p][i]
        IN  \A a \in DOMAIN row.results : Reported(row.claim, a, row.results[a])

(* No result is counted twice: the rows of a claim and what still waits    *)
(* for it use up at most the results consumed for it.                      *)
NoResultCountedTwice ==
  \A c \in Claims :
    Expected * Cardinality(RowsOf(c)) + Cardinality(DOMAIN responses[c])
      <= Cardinality(Consumed(c))

(* The latest report wins: what is buffered for an agent is the last result*)
(* of that agent that eval has consumed for the claim (TreeMap.put replaces*)
(* the earlier one, so a retried answer supersedes the failure before it). *)
LatestReportWins ==
  \A c \in Claims : \A a \in DOMAIN responses[c] :
    \E i \in Consumed(c) :
      /\ results[PartitionOf[c]][i].agent = a
      /\ Stored(results[PartitionOf[c]][i]) = responses[c][a]
      /\ \A j \in Consumed(c) : j > i => results[PartitionOf[c]][j].agent # a

(* The agents that have published a result for claim c.                    *)
AgentsIn(c) ==
  {a \in Agents : \E i \in 1..Len(results[PartitionOf[c]]) :
                    /\ results[PartitionOf[c]][i].claim = c
                    /\ results[PartitionOf[c]][i].agent = a}

(* The barrier opens: once enough distinct agents have published a result  *)
(* for a claim, whatever its status, a row for the claim follows -- unless *)
(* the TTL has forgotten the first of two late agents.                     *)
BarrierOpens ==
  \A c \in Claims :
    (Cardinality(AgentsIn(c)) >= Expected)
      ~> (RowsOf(c) # {} \/ expiries > 0)

===============================================================================
