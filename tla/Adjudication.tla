------------------------------ MODULE Adjudication ----------------------------
(***************************************************************************)
(* What the swarm promises to whoever reads its four topics (abstract):    *)
(* what may come next on each, given only what is on the others and how    *)
(* often a process was disrupted or started.  There are no offsets, no     *)
(* groups, no queues and no memories in it.                                *)
(*                                                                         *)
(* Swarm implements it.                                                    *)
(***************************************************************************)
EXTENDS Events

CONSTANT Expected   \* how many agents a row joins

VARIABLES
  tasks, results, synthesis, decisions,   \* the topics
  disruptions,    \* crashes and evictions of workers so far
  repeats,        \* the same, of orchestrators
  starts          \* orchestrator processes started so far

vars == <<tasks, results, synthesis, decisions, disruptions, repeats, starts>>

Init ==
  /\ tasks = [p \in Partitions |-> <<>>]
  /\ results = [p \in Partitions |-> <<>>]
  /\ synthesis = [p \in Partitions |-> <<>>]
  /\ decisions = [k \in Claims \cup {Unknown} |-> <<>>]
  /\ disruptions = 0 /\ repeats = 0 /\ starts = 0

(* The records of claim c on a topic, as offsets counted from one.         *)
About(topic, c) ==
  {i \in 1..Len(topic[PartitionOf[c]]) : topic[PartitionOf[c]][i].claim = c}

(* What a row says of a result.                                            *)
Entry(res) ==
  [text  |-> IF res.status = "FAILURE" THEN FailureText ELSE res.result,
   round |-> res.round]

(* The claim id a row is decided under.                                    *)
KeyOf(row) ==
  IF \E a \in DOMAIN row.results : row.results[a].text \in RawTexts
    THEN Unknown ELSE row.claim

RowsUnder(c) == {i \in About(synthesis, c) : KeyOf(synthesis[PartitionOf[c]][i]) = c}

-------------------------------------------------------------------------------

(* A claim is dispatched, once more than before.                           *)
Dispatch(c) ==
  /\ \E n \in Round :
       /\ \A i \in About(tasks, c) : tasks[PartitionOf[c]][i].round # n
       /\ tasks' = Published(tasks, c, [claim |-> c, round |-> n])
  /\ UNCHANGED <<results, synthesis, decisions, disruptions, repeats, starts>>

(* An agent answers a task of the claim: one answer to each, and one more  *)
(* for each disruption.                                                    *)
Report(c) ==
  /\ \E i \in About(tasks, c), a \in Agents :
       \E res \in ReportsOf(tasks[PartitionOf[c]][i], a) :
         results' = Published(results, c, res)
  /\ Cardinality(About(results', c))
       <= Cardinality(Agents) * Cardinality(About(tasks, c)) + disruptions
  /\ UNCHANGED <<tasks, synthesis, decisions, disruptions, repeats, starts>>

(* Results of Expected agents are joined, each with what it has reported;  *)
(* no result is used up by two rows.                                       *)
Join(c) ==
  /\ \E f \in FindingMap :
       /\ Cardinality(DOMAIN f) = Expected
       /\ \A a \in DOMAIN f : \E i \in About(results, c) :
            LET res == results[PartitionOf[c]][i]
            IN  res.agent = a /\ Entry(res) = f[a]
       /\ synthesis' = Published(synthesis, c, [claim |-> c, results |-> f])
  /\ Expected * Cardinality(About(synthesis', c)) <= Cardinality(About(results, c))
  /\ UNCHANGED <<tasks, results, decisions, disruptions, repeats, starts>>

(* A row is decided under its key: by each process once, and when the key  *)
(* is a claim, once for each of its rows and once for each disruption.     *)
Decide(k) ==
  /\ \E c \in Claims : \E i \in About(synthesis, c) :
       /\ KeyOf(synthesis[PartitionOf[c]][i]) = k
       /\ decisions' = [decisions EXCEPT ![k] =
            Append(@, [claim |-> k, row |-> [part |-> PartitionOf[c], off |-> i - 1]])]
  /\ Len(decisions'[k]) <= starts
  /\ k \in Claims => Len(decisions'[k]) <= Cardinality(RowsUnder(k)) + repeats
  /\ UNCHANGED <<tasks, results, synthesis, disruptions, repeats, starts>>

(* A process is disrupted, or started.                                     *)
Disturb ==
  /\ \/ disruptions' = disruptions + 1 /\ UNCHANGED <<repeats, starts>>
     \/ repeats' = repeats + 1 /\ UNCHANGED <<disruptions, starts>>
     \/ starts' = starts + 1 /\ UNCHANGED <<disruptions, repeats>>
  /\ UNCHANGED <<tasks, results, synthesis, decisions>>

Next ==
  \/ \E c \in Claims : Dispatch(c) \/ Report(c) \/ Join(c)
  \/ \E k \in Claims \cup {Unknown} : Decide(k)
  \/ Disturb

Spec == Init /\ [][Next]_vars

===============================================================================
