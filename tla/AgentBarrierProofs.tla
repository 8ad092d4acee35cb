-------------------------- MODULE AgentBarrierProofs --------------------------
(***************************************************************************)
(* Theorems about AgentBarrier, for every set of claims, agents and        *)
(* partitions, every number of expected agents and every bound.            *)
(***************************************************************************)
EXTENDS AgentBarrier, TLAPS, FiniteSetTheorems

-------------------------------------------------------------------------------
(* Lemmas about the operators.                                             *)

(* The empty state is a map of findings, of no agent.                      *)
LEMMA NoResponsesType ==
  /\ NoResponses \in FindingMap
  /\ DOMAIN NoResponses = {}
<1>1. NoResponses \in [{} -> Finding]
  BY DEF NoResponses
<1> QED
  BY <1>1 DEF FindingMap

(* The agents of a map of findings are finitely many agents.               *)
LEMMA FindingMapDomain ==
  ASSUME NEW map \in FindingMap
  PROVE  /\ DOMAIN map \subseteq Agents
         /\ IsFiniteSet(DOMAIN map)
         /\ Cardinality(DOMAIN map) \in Nat
         /\ \A a \in DOMAIN map : map[a] \in Finding
<1>1. PICK S \in SUBSET Agents : map \in [S -> Finding]
  BY DEF FindingMap
<1>2. DOMAIN map = S
  BY <1>1
<1>3. IsFiniteSet(S)
  BY EventsAssumption, FS_Subset DEF EventsAssumption
<1> QED
  BY <1>1, <1>2, <1>3, FS_CardinalityType

(* put adds one agent at most and changes no other entry.                  *)
LEMMA PutLemma ==
  ASSUME NEW map \in FindingMap, NEW agent \in Agents, NEW finding \in Finding
  PROVE  /\ Put(map, agent, finding) \in FindingMap
         /\ DOMAIN Put(map, agent, finding) = DOMAIN map \cup {agent}
         /\ Put(map, agent, finding)[agent] = finding
         /\ \A a \in DOMAIN map \ {agent} :
              Put(map, agent, finding)[a] = map[a]
         /\ Cardinality(DOMAIN Put(map, agent, finding))
              <= Cardinality(DOMAIN map) + 1
<1> DEFINE new == Put(map, agent, finding)
           S == DOMAIN map \cup {agent}
<1>1. DOMAIN new = S
  BY DEF Put
<1>2. \A a \in S : new[a] = IF a = agent THEN finding ELSE map[a]
  BY DEF Put
<1>3. S \in SUBSET Agents /\ \A a \in DOMAIN map : map[a] \in Finding
  BY FindingMapDomain
<1>4. new \in [S -> Finding]
  BY <1>3 DEF Put
<1>5. new \in FindingMap
  BY <1>3, <1>4 DEF FindingMap
<1>6. Cardinality(S) <= Cardinality(DOMAIN map) + 1
  <2>1. IsFiniteSet(DOMAIN map) /\ Cardinality(DOMAIN map) \in Nat
    BY FindingMapDomain
  <2>2. Cardinality(S) = IF agent \in DOMAIN map THEN Cardinality(DOMAIN map)
                                                ELSE Cardinality(DOMAIN map) + 1
    BY <2>1, FS_AddElement
  <2> QED
    BY <2>1, <2>2
<1> HIDE DEF new
<1> QED
  BY <1>1, <1>2, <1>5, <1>6 DEF new

(* What is stored for a result is a finding.                               *)
LEMMA StoredType ==
  ASSUME NEW res \in Result
  PROVE  Stored(res) \in Finding
<1>1. CASE res.status = "FAILURE"
  BY <1>1 DEF Result, Stored, Finding
<1>2. CASE res.status # "FAILURE"
  <2>1. res.result \in Texts /\ res.round \in Round
    BY <1>2 DEF Result
  <2> QED
    BY <1>2, <2>1 DEF Stored, Finding
<1> QED
  BY <1>1, <1>2

(* expected is a positive integer, whatever expectedAgents is.             *)
LEMMA ExpectedType == Expected \in Nat /\ Expected > 0
  BY BarrierAssumption DEF Expected, BarrierAssumption

-------------------------------------------------------------------------------
(* Type correctness.                                                       *)

(* The statement never reads past the end of a partition.                  *)
ReadInBounds == \A p \in Partitions : read[p] <= Len(results[p])

(* A result is in the partition of its claim.                              *)
ResultsPartitioned ==
  \A p \in Partitions : \A i \in 1..Len(results[p]) :
    PartitionOf[results[p][i].claim] = p

(* What type correctness rests on.                                         *)
TypeInv == TypeOK /\ ReadInBounds /\ ResultsPartitioned

(* Publishing keeps the type of a topic and everything on it.              *)
LEMMA PublishedLemma ==
  ASSUME NEW S, NEW topic \in [Partitions -> Seq(S)], NEW c \in Claims, NEW rec \in S
  PROVE  /\ Published(topic, c, rec) \in [Partitions -> Seq(S)]
         /\ \A p \in Partitions :
              /\ Len(topic[p]) <= Len(Published(topic, c, rec)[p])
              /\ \A i \in 1..Len(topic[p]) : Published(topic, c, rec)[p][i] = topic[p][i]
              /\ \A i \in 1..Len(Published(topic, c, rec)[p]) :
                   \/ i \in 1..Len(topic[p])
                   \/ p = PartitionOf[c] /\ Published(topic, c, rec)[p][i] = rec
<1>1. PartitionOf[c] \in Partitions
  BY EventsAssumption DEF EventsAssumption
<1> QED
  BY <1>1 DEF Published

(* What one eval reads and computes, with its types.                       *)
LEMMA EvalLemma ==
  ASSUME TypeInv, NEW p \in Partitions, Eval(p)
  PROVE  LET res == results[p][read[p] + 1]
             new == Put(responses[res.claim], res.agent, Stored(res))
         IN  /\ res \in Result /\ res.claim \in Claims /\ res.agent \in Agents
             /\ read[p] \in Nat /\ read[p] + 1 \in 1..Len(results[p])
             /\ responses[res.claim] \in FindingMap
             /\ Stored(res) \in Finding
             /\ new \in FindingMap
             /\ [claim |-> res.claim, results |-> new] \in SynthesisReady
<1> DEFINE res == results[p][read[p] + 1]
           new == Put(responses[res.claim], res.agent, Stored(res))
<1>1. read[p] \in Nat /\ read[p] + 1 \in 1..Len(results[p])
  BY DEF TypeInv, TypeOK, Eval
<1>2. res \in Result
  BY <1>1 DEF TypeInv, TypeOK
<1>3. res.claim \in Claims /\ res.agent \in Agents
  BY <1>2 DEF Result
<1>4. responses[res.claim] \in FindingMap
  BY <1>3 DEF TypeInv, TypeOK
<1>5. Stored(res) \in Finding
  BY <1>2, StoredType
<1>6. new \in FindingMap
  BY <1>3, <1>4, <1>5, PutLemma
<1>7. [claim |-> res.claim, results |-> new] \in SynthesisReady
  BY <1>3, <1>6 DEF SynthesisReady
<1> QED
  BY <1>1, <1>2, <1>3, <1>4, <1>5, <1>6, <1>7

(* Every report is a result.                                               *)
LEMMA ReportsType ==
  ASSUME NEW c \in Claims, NEW a \in Agents, NEW n \in Round,
         NEW res \in ReportsOf([claim |-> c, round |-> n], a)
  PROVE  res \in Result /\ res.claim = c /\ res.agent = a
<1> DEFINE task == [claim |-> c, round |-> n]
<1>1. CASE res = FailureOf(task, a)
  BY <1>1 DEF FailureOf, Result
<1>2. ASSUME NEW text \in Texts, res = SuccessOf(task, a, text)
      PROVE  res \in Result /\ res.claim = c /\ res.agent = a
  BY <1>2 DEF SuccessOf, Result
<1> QED
  BY <1>1, <1>2 DEF ReportsOf

(* One result is published, by whomever: the barrier's own environment, or *)
(* the workers of the swarm.                                               *)
Fed ==
  /\ \E res \in Result : results' = Published(results, res.claim, res)
  /\ UNCHANGED <<synthesis, responses, read, expiries>>

(* The barrier's steps, and results from anywhere.                         *)
Steps == Next \/ Fed

(* The steps of the barrier on its own are among them.                     *)
LEMMA NextCovered == [Next]_vars => [Steps]_vars
  BY DEF Steps

(* The environment publishes one result at a time.                         *)
LEMMA EnvFeeds == Env => Fed
<1> SUFFICES ASSUME Env PROVE Fed
  OBVIOUS
<1>1. PICK c \in Claims, a \in Agents, n \in Round :
           \E res \in ReportsOf([claim |-> c, round |-> n], a) :
             results' = Published(results, c, res)
  BY DEF Env
<1>2. PICK res \in ReportsOf([claim |-> c, round |-> n], a) :
             results' = Published(results, c, res)
  BY <1>1
<1>3. res \in Result /\ res.claim = c
  BY ReportsType
<1> QED
  BY <1>2, <1>3 DEF Env, Fed

(* What is published is added to what is there.                            *)
LEMMA FedLemma ==
  ASSUME TypeInv, Fed
  PROVE  /\ results' \in [Partitions -> Seq(Result)]
         /\ \A p \in Partitions :
              /\ Len(results[p]) <= Len(results'[p])
              /\ \A i \in 1..Len(results[p]) : results'[p][i] = results[p][i]
              /\ \A i \in 1..Len(results'[p]) :
                   \/ i \in 1..Len(results[p])
                   \/ PartitionOf[results'[p][i].claim] = p
<1>1. PICK res \in Result : results' = Published(results, res.claim, res)
  BY DEF Fed
<1>2. res.claim \in Claims
  BY DEF Result
<1> DEFINE c == res.claim
           new == Published(results, c, res)
<1>3. results \in [Partitions -> Seq(Result)]
  BY DEF TypeInv, TypeOK
<1>4. /\ new \in [Partitions -> Seq(Result)]
      /\ \A p \in Partitions :
           /\ Len(results[p]) <= Len(new[p])
           /\ \A i \in 1..Len(results[p]) : new[p][i] = results[p][i]
           /\ \A i \in 1..Len(new[p]) :
                i \in 1..Len(results[p]) \/ (p = PartitionOf[c] /\ new[p][i] = res)
  BY <1>2, <1>3, PublishedLemma
<1>5. results' = new
  BY <1>1
<1> HIDE DEF new
<1> QED
  BY <1>4, <1>5

(* The topics are empty at first.                                          *)
LEMMA TypeInit == Init => TypeInv
<1> SUFFICES ASSUME Init PROVE TypeInv
  OBVIOUS
<1>1. responses \in [Claims -> FindingMap]
  BY NoResponsesType DEF Init
<1> QED
  BY <1>1 DEF Init, TypeInv, TypeOK, ReadInBounds, ResultsPartitioned

(* No step breaks the types, the bounds or the partitioning.               *)
LEMMA TypeNext == TypeInv /\ [Steps]_vars => TypeInv'
<1> SUFFICES ASSUME TypeInv, [Steps]_vars PROVE TypeInv'
  OBVIOUS
<1>1. ASSUME NEW p \in Partitions, Eval(p) PROVE TypeInv'
  <2> DEFINE res == results[p][read[p] + 1]
             new == Put(responses[res.claim], res.agent, Stored(res))
  <2>1. /\ res.claim \in Claims /\ new \in FindingMap
        /\ [claim |-> res.claim, results |-> new] \in SynthesisReady
    BY <1>1, EvalLemma
  <2>2. \/ /\ synthesis' = Published(synthesis, res.claim,
                                     [claim |-> res.claim, results |-> new])
           /\ responses' = [responses EXCEPT ![res.claim] = NoResponses]
        \/ /\ responses' = [responses EXCEPT ![res.claim] = new]
           /\ UNCHANGED synthesis
    BY <1>1 DEF Eval, Cleared
  <2>3. /\ read' = [read EXCEPT ![p] = @ + 1]
        /\ read[p] < Len(results[p])
        /\ UNCHANGED <<results, expiries>>
    BY <1>1 DEF Eval
  <2> HIDE DEF res, new
  <2>4. responses' \in [Claims -> FindingMap]
    BY <2>1, <2>2, NoResponsesType DEF TypeInv, TypeOK
  <2>5. synthesis' \in [Partitions -> Seq(SynthesisReady)]
    <3>1. synthesis \in [Partitions -> Seq(SynthesisReady)]
      BY DEF TypeInv, TypeOK
    <3>2. Published(synthesis, res.claim, [claim |-> res.claim, results |-> new])
            \in [Partitions -> Seq(SynthesisReady)]
      BY <2>1, <3>1, PublishedLemma
    <3> QED
      BY <2>2, <3>1, <3>2
  <2>6. read' \in [Partitions -> Nat] /\ ReadInBounds'
    BY <2>3 DEF TypeInv, TypeOK, ReadInBounds
  <2> QED
    BY <2>3, <2>4, <2>5, <2>6 DEF TypeInv, TypeOK, ResultsPartitioned
<1>2. ASSUME NEW c \in Claims, Expire(c) PROVE TypeInv'
  BY <1>2, NoResponsesType DEF Expire, TypeInv, TypeOK, ReadInBounds, ResultsPartitioned
<1>3. CASE Fed
  <2>1. /\ results' \in [Partitions -> Seq(Result)]
        /\ \A p \in Partitions :
             /\ Len(results[p]) <= Len(results'[p])
             /\ \A i \in 1..Len(results[p]) : results'[p][i] = results[p][i]
             /\ \A i \in 1..Len(results'[p]) :
                  \/ i \in 1..Len(results[p])
                  \/ PartitionOf[results'[p][i].claim] = p
    BY <1>3, FedLemma
  <2>2. UNCHANGED <<synthesis, responses, read, expiries>>
    BY <1>3 DEF Fed
  <2>3. \A p \in Partitions : read'[p] <= Len(results'[p])
    <3> SUFFICES ASSUME NEW p \in Partitions PROVE read'[p] <= Len(results'[p])
      OBVIOUS
    <3>1. /\ read[p] \in Nat /\ Len(results[p]) \in Nat /\ Len(results'[p]) \in Nat
          /\ read[p] <= Len(results[p])
      BY <2>1 DEF TypeInv, TypeOK, ReadInBounds
    <3> QED
      BY <2>1, <2>2, <3>1
  <2>4. ResultsPartitioned'
    BY <2>1 DEF TypeInv, ResultsPartitioned
  <2> QED
    BY <2>1, <2>2, <2>3, <2>4 DEF TypeInv, TypeOK, ReadInBounds
<1>4. CASE UNCHANGED vars
  BY <1>4 DEF vars, TypeInv, TypeOK, ReadInBounds, ResultsPartitioned
<1> QED
  BY <1>1, <1>2, <1>3, <1>4, EnvFeeds DEF Steps, Next

(* The topics, the keyed state and the read offsets always have their type.*)
THEOREM TypeCorrect == Spec => []TypeOK
<1>1. TypeInv => TypeOK
  BY DEF TypeInv
<1> QED
  BY <1>1, TypeInit, TypeNext, NextCovered, PTL DEF Spec

(* The strengthened form the other proofs use.                             *)
LEMMA TypeInvariant == Spec => []TypeInv
  BY TypeInit, TypeNext, NextCovered, PTL DEF Spec

-------------------------------------------------------------------------------
(* Rows are complete.                                                      *)

(* No agent has reported at first.                                         *)
LEMMA CompleteInit == Init => RowsAreComplete
<1> SUFFICES ASSUME Init PROVE RowsAreComplete
  OBVIOUS
<1>1. \A c \in Claims : Cardinality(DOMAIN responses[c]) = 0
  BY NoResponsesType, FS_EmptySet DEF Init
<1>2. \A p \in Partitions : Len(synthesis[p]) = 0
  BY DEF Init
<1> QED
  BY <1>1, <1>2, ExpectedType DEF RowsAreComplete

(* One report adds one agent at most: a claim is never past the mark.      *)
LEMMA CompleteNext == TypeInv /\ RowsAreComplete /\ [Steps]_vars => RowsAreComplete'
<1> SUFFICES ASSUME TypeInv, RowsAreComplete, [Steps]_vars
             PROVE  RowsAreComplete'
  OBVIOUS
<1>1. Cardinality(DOMAIN NoResponses) < Expected
  BY NoResponsesType, FS_EmptySet, ExpectedType
<1>2. ASSUME NEW p \in Partitions, Eval(p) PROVE RowsAreComplete'
  <2> DEFINE res == results[p][read[p] + 1]
             new == Put(responses[res.claim], res.agent, Stored(res))
             row == [claim |-> res.claim, results |-> new]
  <2>1. /\ res.claim \in Claims /\ res.agent \in Agents /\ Stored(res) \in Finding
        /\ responses[res.claim] \in FindingMap
        /\ new \in FindingMap /\ row \in SynthesisReady
    BY <1>2, EvalLemma
  <2>2. /\ Cardinality(DOMAIN new) <= Cardinality(DOMAIN responses[res.claim]) + 1
        /\ Cardinality(DOMAIN new) \in Nat
        /\ Cardinality(DOMAIN responses[res.claim]) \in Nat
    BY <2>1, PutLemma, FindingMapDomain
  <2>3. Cardinality(DOMAIN responses[res.claim]) < Expected
    BY <2>1 DEF RowsAreComplete
  <2>4. responses \in [Claims -> FindingMap]
        /\ synthesis \in [Partitions -> Seq(SynthesisReady)]
    BY DEF TypeInv, TypeOK
  <2>5. \/ /\ Cardinality(DOMAIN new) >= Expected
           /\ synthesis' = Published(synthesis, res.claim, row)
           /\ responses' = [responses EXCEPT ![res.claim] = NoResponses]
        \/ /\ ~(Cardinality(DOMAIN new) >= Expected)
           /\ responses' = [responses EXCEPT ![res.claim] = new]
           /\ UNCHANGED synthesis
    BY <1>2 DEF Eval, Complete, Cleared
  <2>6. row.results = new
    OBVIOUS
  <2> HIDE DEF new, row, res
  <2>7. \A c \in Claims : Cardinality(DOMAIN responses'[c]) < Expected
    BY <1>1, <2>1, <2>2, <2>4, <2>5, ExpectedType DEF RowsAreComplete
  <2>8. ASSUME NEW q \in Partitions, NEW i \in 1..Len(synthesis'[q])
        PROVE  Cardinality(DOMAIN synthesis'[q][i].results) = Expected
    <3>1. CASE UNCHANGED synthesis
      BY <3>1 DEF RowsAreComplete
    <3>2. CASE /\ Cardinality(DOMAIN new) >= Expected
               /\ synthesis' = Published(synthesis, res.claim, row)
      <4>1. Cardinality(DOMAIN new) = Expected
        BY <2>2, <2>3, <3>2, ExpectedType
      <4>2. \/ i \in 1..Len(synthesis[q]) /\ synthesis'[q][i] = synthesis[q][i]
            \/ synthesis'[q][i] = row
        <5> DEFINE pub == Published(synthesis, res.claim, row)
        <5>1. i \in 1..Len(pub[q]) /\ synthesis'[q][i] = pub[q][i]
          BY <3>2
        <5>2. /\ \A j \in 1..Len(synthesis[q]) : pub[q][j] = synthesis[q][j]
              /\ \A j \in 1..Len(pub[q]) : j \in 1..Len(synthesis[q]) \/ pub[q][j] = row
          BY <2>1, <2>4, PublishedLemma
        <5> HIDE DEF pub
        <5> QED
          BY <5>1, <5>2
      <4> QED
        BY <2>6, <4>1, <4>2 DEF RowsAreComplete
    <3> QED
      BY <2>5, <3>1, <3>2
  <2> QED
    BY <2>7, <2>8, ExpectedType DEF RowsAreComplete, Expected
<1>3. ASSUME NEW c \in Claims, Expire(c) PROVE RowsAreComplete'
  BY <1>1, <1>3 DEF Expire, RowsAreComplete, TypeInv, TypeOK, Expected
<1>4. CASE Fed
  BY <1>4 DEF Fed, RowsAreComplete, Expected
<1>5. CASE UNCHANGED vars
  BY <1>5 DEF vars, RowsAreComplete, Expected
<1> QED
  BY <1>2, <1>3, <1>4, <1>5, EnvFeeds DEF Steps, Next

(* However many agents a claim has and however their results interleave,   *)
(* no complete claim is left waiting, and every row joins exactly the      *)
(* expected number of distinct agents.                                     *)
THEOREM RowsComplete == Spec => []RowsAreComplete
  BY TypeInvariant, CompleteInit, CompleteNext, NextCovered, PTL DEF Spec

-------------------------------------------------------------------------------
(* Findings are reported.                                                  *)

(* Nothing is unread, and what is on the results topic stays there.        *)
LEMMA ResultsGrow ==
  ASSUME TypeInv, [Steps]_vars, NEW q \in Partitions
  PROVE  /\ read[q] \in Nat /\ read'[q] \in Nat /\ read[q] <= read'[q]
         /\ read[q] <= Len(results[q])
         /\ Len(results[q]) \in Nat
         /\ \A j \in 1..Len(results[q]) : results'[q][j] = results[q][j]
<1>1. /\ results \in [Partitions -> Seq(Result)]
      /\ read \in [Partitions -> Nat]
  BY DEF TypeInv, TypeOK
<1>2. read[q] <= Len(results[q]) /\ read[q] \in Nat /\ Len(results[q]) \in Nat
  BY <1>1 DEF TypeInv, ReadInBounds
<1>3. ASSUME NEW p \in Partitions, Eval(p)
      PROVE  read'[q] \in Nat /\ read[q] <= read'[q] /\ results' = results
  BY <1>1, <1>3 DEF Eval
<1>4. ASSUME NEW c \in Claims, Expire(c) PROVE UNCHANGED <<results, read>>
  BY <1>4 DEF Expire
<1>5. CASE Fed
  <2>1. \A p \in Partitions : \A j \in 1..Len(results[p]) : results'[p][j] = results[p][j]
    BY <1>5, FedLemma
  <2>2. read' = read
    BY <1>5 DEF Fed
  <2> QED
    BY <1>2, <2>1, <2>2
<1>6. CASE UNCHANGED vars
  BY <1>2, <1>6 DEF vars
<1> QED
  BY <1>2, <1>3, <1>4, <1>5, <1>6, EnvFeeds DEF Steps, Next

(* Reported, in the state after a step.                                    *)
ReportedThen(c, a, f) ==
  \E i \in 1..read'[PartitionOf[c]] :
    /\ results'[PartitionOf[c]][i].claim = c
    /\ results'[PartitionOf[c]][i].agent = a
    /\ Stored(results'[PartitionOf[c]][i]) = f

(* What was reported stays reported.                                       *)
LEMMA ReportedStays ==
  ASSUME TypeInv, [Steps]_vars, NEW c \in Claims, NEW a, NEW f, Reported(c, a, f)
  PROVE  ReportedThen(c, a, f)
<1>1. PICK i \in 1..read[PartitionOf[c]] :
        /\ results[PartitionOf[c]][i].claim = c
        /\ results[PartitionOf[c]][i].agent = a
        /\ Stored(results[PartitionOf[c]][i]) = f
  BY DEF Reported, Consumed
<1>2. PartitionOf[c] \in Partitions
  BY EventsAssumption DEF EventsAssumption
<1>3. i \in 1..read'[PartitionOf[c]] /\ i \in 1..Len(results[PartitionOf[c]])
  BY <1>1, <1>2, ResultsGrow
<1>4. results'[PartitionOf[c]][i] = results[PartitionOf[c]][i]
  BY <1>2, <1>3, ResultsGrow
<1> QED
  BY <1>1, <1>3, <1>4 DEF ReportedThen

(* The result that eval reads is reported after it.                        *)
LEMMA EvalReports ==
  ASSUME TypeInv, NEW p \in Partitions, Eval(p)
  PROVE  LET res == results[p][read[p] + 1]
         IN  ReportedThen(res.claim, res.agent, Stored(res))
<1> DEFINE res == results[p][read[p] + 1]
<1>1. /\ read[p] \in Nat /\ read[p] + 1 \in 1..Len(results[p])
      /\ res \in Result /\ res.claim \in Claims
  BY EvalLemma
<1>2. PartitionOf[res.claim] = p
  BY <1>1 DEF TypeInv, ResultsPartitioned
<1>3. results' = results /\ read'[p] = read[p] + 1
  BY DEF Eval, TypeInv, TypeOK
<1>4. read[p] + 1 \in 1..read'[p]
  BY <1>1, <1>3
<1>5. results'[p][read[p] + 1] = res
  BY <1>3
<1> HIDE DEF res
<1> QED
  BY <1>2, <1>4, <1>5 DEF ReportedThen, res

(* Nothing is buffered or emitted at first.                                *)
LEMMA ReportedInit == Init => FindingsAreReported
  BY NoResponsesType DEF Init, FindingsAreReported

(* eval stores what it has read under its own claim and agent.             *)
LEMMA ReportedNext == TypeInv /\ FindingsAreReported /\ [Steps]_vars => FindingsAreReported'
<1> SUFFICES ASSUME TypeInv, FindingsAreReported, [Steps]_vars
             PROVE  FindingsAreReported'
  OBVIOUS
<1>1. SUFFICES
        /\ \A c \in Claims : \A a \in DOMAIN responses'[c] :
             ReportedThen(c, a, responses'[c][a])
        /\ \A p \in Partitions : \A i \in 1..Len(synthesis'[p]) :
             \A a \in DOMAIN synthesis'[p][i].results :
               ReportedThen(synthesis'[p][i].claim, a, synthesis'[p][i].results[a])
  BY DEF FindingsAreReported, Reported, Consumed, ReportedThen
<1>2. /\ responses \in [Claims -> FindingMap]
      /\ synthesis \in [Partitions -> Seq(SynthesisReady)]
  BY DEF TypeInv, TypeOK
<1>3. \A c \in Claims : \A a \in DOMAIN responses[c] : ReportedThen(c, a, responses[c][a])
  <2> SUFFICES ASSUME NEW c \in Claims, NEW a \in DOMAIN responses[c]
               PROVE  ReportedThen(c, a, responses[c][a])
    OBVIOUS
  <2>1. Reported(c, a, responses[c][a])
    BY DEF FindingsAreReported
  <2> QED
    BY <2>1, ReportedStays
<1>4. \A p \in Partitions : \A i \in 1..Len(synthesis[p]) :
        \A a \in DOMAIN synthesis[p][i].results :
          ReportedThen(synthesis[p][i].claim, a, synthesis[p][i].results[a])
  <2> SUFFICES ASSUME NEW p \in Partitions, NEW i \in 1..Len(synthesis[p]),
                      NEW a \in DOMAIN synthesis[p][i].results
               PROVE  ReportedThen(synthesis[p][i].claim, a, synthesis[p][i].results[a])
    OBVIOUS
  <2>1. synthesis[p][i] \in SynthesisReady
    BY <1>2
  <2>2. synthesis[p][i].claim \in Claims
    BY <2>1 DEF SynthesisReady
  <2>3. Reported(synthesis[p][i].claim, a, synthesis[p][i].results[a])
    BY DEF FindingsAreReported
  <2> QED
    BY <2>2, <2>3, ReportedStays
<1>5. \A a \in DOMAIN NoResponses : FALSE
  BY NoResponsesType
<1>6. ASSUME NEW p \in Partitions, Eval(p)
      PROVE  /\ \A c \in Claims : \A a \in DOMAIN responses'[c] : ReportedThen(c, a, responses'[c][a])
             /\ \A q \in Partitions : \A i \in 1..Len(synthesis'[q]) :
                  \A a \in DOMAIN synthesis'[q][i].results :
                    ReportedThen(synthesis'[q][i].claim, a, synthesis'[q][i].results[a])
  <2> DEFINE res == results[p][read[p] + 1]
             new == Put(responses[res.claim], res.agent, Stored(res))
             row == [claim |-> res.claim, results |-> new]
  <2>1. /\ res.claim \in Claims /\ res.agent \in Agents /\ Stored(res) \in Finding
        /\ responses[res.claim] \in FindingMap
        /\ new \in FindingMap /\ row \in SynthesisReady
    BY <1>6, EvalLemma
  <2>2. ReportedThen(res.claim, res.agent, Stored(res))
    BY <1>6, EvalReports
  <2>3. /\ DOMAIN new = DOMAIN responses[res.claim] \cup {res.agent}
        /\ new[res.agent] = Stored(res)
        /\ \A a \in DOMAIN responses[res.claim] \ {res.agent} :
             new[a] = responses[res.claim][a]
    BY DEF Put
  <2>4. \A a \in DOMAIN new : ReportedThen(res.claim, a, new[a])
    BY <1>3, <2>1, <2>2, <2>3
  <2>5. \/ /\ synthesis' = Published(synthesis, res.claim, row)
           /\ responses' = [responses EXCEPT ![res.claim] = NoResponses]
        \/ /\ responses' = [responses EXCEPT ![res.claim] = new]
           /\ UNCHANGED synthesis
    BY <1>6 DEF Eval, Cleared
  <2>6. row.claim = res.claim /\ row.results = new
    OBVIOUS
  <2> HIDE DEF res, new, row
  <2>7. \A c \in Claims : \A a \in DOMAIN responses'[c] : ReportedThen(c, a, responses'[c][a])
    BY <1>2, <1>3, <1>5, <2>1, <2>4, <2>5
  <2>8. ASSUME NEW q \in Partitions, NEW i \in 1..Len(synthesis'[q]),
               NEW a \in DOMAIN synthesis'[q][i].results
        PROVE  ReportedThen(synthesis'[q][i].claim, a, synthesis'[q][i].results[a])
    <3>1. CASE UNCHANGED synthesis
      BY <1>4, <3>1
    <3>2. CASE synthesis' = Published(synthesis, res.claim, row)
      <4> DEFINE pub == Published(synthesis, res.claim, row)
      <4>1. i \in 1..Len(pub[q]) /\ synthesis'[q][i] = pub[q][i]
        BY <3>2
      <4>2. /\ \A j \in 1..Len(synthesis[q]) : pub[q][j] = synthesis[q][j]
            /\ \A j \in 1..Len(pub[q]) : j \in 1..Len(synthesis[q]) \/ pub[q][j] = row
        BY <1>2, <2>1, PublishedLemma
      <4> HIDE DEF pub
      <4>3. \/ i \in 1..Len(synthesis[q]) /\ synthesis'[q][i] = synthesis[q][i]
            \/ synthesis'[q][i] = row
        BY <4>1, <4>2
      <4> QED
        BY <1>4, <2>4, <2>6, <4>3
    <3> QED
      BY <2>5, <3>1, <3>2
  <2> QED
    BY <2>7, <2>8
<1>7. ASSUME NEW c \in Claims, Expire(c)
      PROVE  /\ \A k \in Claims : \A a \in DOMAIN responses'[k] : ReportedThen(k, a, responses'[k][a])
             /\ UNCHANGED synthesis
  BY <1>2, <1>3, <1>5, <1>7 DEF Expire
<1>8. Fed \/ UNCHANGED vars => UNCHANGED <<responses, synthesis>>
  BY DEF Fed, vars
<1> QED
  BY <1>3, <1>4, <1>6, <1>7, <1>8, EnvFeeds DEF Steps, Next

(* Nothing leaks between claims or agents, in any interleaving of their    *)
(* results, late, duplicate and forgotten ones included.                   *)
THEOREM OnlyReportedFindings == Spec => []FindingsAreReported
  BY TypeInvariant, ReportedInit, ReportedNext, NextCovered, PTL DEF Spec

-------------------------------------------------------------------------------
(* What has been consumed for a claim, and what was last consumed of it.   *)

(* An initial segment of the offsets is finite.                            *)
LEMMA SegmentFinite == \A n \in Nat : IsFiniteSet(1..n)
<1> SUFFICES ASSUME NEW n \in Nat PROVE IsFiniteSet(1..n)
  OBVIOUS
<1>1. 1 \in Int /\ n \in Int
  OBVIOUS
<1> QED
  BY <1>1, FS_Interval

(* One more element is at most one more.                                   *)
LEMMA AddOne ==
  ASSUME NEW S, NEW x, IsFiniteSet(S)
  PROVE  /\ IsFiniteSet(S \cup {x})
         /\ Cardinality(S \cup {x}) \in Nat
         /\ Cardinality(S \cup {x}) <= Cardinality(S) + 1
         /\ x \notin S => Cardinality(S \cup {x}) = Cardinality(S) + 1
<1>1. /\ IsFiniteSet(S \cup {x}) /\ Cardinality(S) \in Nat
      /\ Cardinality(S \cup {x}) =
           IF x \in S THEN Cardinality(S) ELSE Cardinality(S) + 1
  BY FS_AddElement, FS_CardinalityType
<1> QED
  BY <1>1

(* The results consumed for a claim are finitely many.                     *)
LEMMA ConsumedType ==
  ASSUME TypeInv, NEW c \in Claims
  PROVE  /\ IsFiniteSet(Consumed(c)) /\ Cardinality(Consumed(c)) \in Nat
         /\ IsFiniteSet(RowsOf(c)) /\ Cardinality(RowsOf(c)) \in Nat
<1> DEFINE p == PartitionOf[c]
<1>1. p \in Partitions
  BY EventsAssumption DEF EventsAssumption
<1>2. read[p] \in Nat /\ Len(synthesis[p]) \in Nat
  BY <1>1 DEF TypeInv, TypeOK
<1>3. IsFiniteSet(1..read[p]) /\ IsFiniteSet(1..Len(synthesis[p]))
  BY <1>2, SegmentFinite
<1>4. Consumed(c) \subseteq 1..read[p] /\ RowsOf(c) \subseteq 1..Len(synthesis[p])
  BY DEF Consumed, RowsOf
<1>5. IsFiniteSet(Consumed(c)) /\ IsFiniteSet(RowsOf(c))
  BY <1>3, <1>4, FS_Subset
<1> QED
  BY <1>5, FS_CardinalityType

(* eval consumes one more result, for its claim and for no other.          *)
LEMMA EvalConsumes ==
  ASSUME TypeInv, NEW p \in Partitions, Eval(p), NEW c \in Claims
  PROVE  LET res == results[p][read[p] + 1]
         IN  /\ c = res.claim => /\ Consumed(c)' = Consumed(c) \cup {read[p] + 1}
                                 /\ read[p] + 1 \notin Consumed(c)
                                 /\ \A i \in Consumed(c) : i < read[p] + 1
             /\ c # res.claim => Consumed(c)' = Consumed(c)
             /\ results' = results
<1> DEFINE res == results[p][read[p] + 1]
           q == PartitionOf[c]
<1>1. /\ read[p] \in Nat /\ read[p] + 1 \in 1..Len(results[p])
      /\ res.claim \in Claims
  BY EvalLemma
<1>2. PartitionOf[res.claim] = p /\ q \in Partitions
  BY <1>1, EventsAssumption DEF TypeInv, ResultsPartitioned, EventsAssumption
<1>3. results' = results /\ read' = [read EXCEPT ![p] = @ + 1]
      /\ read \in [Partitions -> Nat]
  BY DEF Eval, TypeInv, TypeOK
<1>4. CASE q # p
  <2>1. read'[q] = read[q]
    BY <1>2, <1>3, <1>4
  <2> QED
    BY <1>2, <1>3, <1>4, <2>1 DEF Consumed
<1>5. CASE q = p
  <2>1. read'[p] = read[p] + 1
    BY <1>3
  <2>2. 1..read'[p] = (1..read[p]) \cup {read[p] + 1} /\ read[p] + 1 \notin 1..read[p]
        /\ \A i \in 1..read[p] : i < read[p] + 1
    BY <1>1, <2>1
  <2>3. Consumed(c)' = {i \in (1..read[p]) \cup {read[p] + 1} : results[p][i].claim = c}
    BY <1>3, <1>5, <2>2 DEF Consumed
  <2>4. Consumed(c) = {i \in 1..read[p] : results[p][i].claim = c}
    BY <1>5 DEF Consumed
  <2> QED
    BY <1>3, <2>2, <2>3, <2>4
<1> QED
  BY <1>4, <1>5

(* Every other step leaves what has been consumed as it is.                *)
LEMMA OthersConsumeNothing ==
  ASSUME TypeInv, Fed \/ (\E k \in Claims : Expire(k)) \/ UNCHANGED vars, NEW c \in Claims
  PROVE  /\ Consumed(c)' = Consumed(c)
         /\ \A i \in Consumed(c) :
              results'[PartitionOf[c]][i] = results[PartitionOf[c]][i]
         /\ UNCHANGED synthesis
<1> DEFINE q == PartitionOf[c]
<1>1. q \in Partitions
  BY EventsAssumption DEF EventsAssumption
<1>2. read[q] \in Nat /\ Len(results[q]) \in Nat /\ read[q] <= Len(results[q])
  BY <1>1 DEF TypeInv, TypeOK, ReadInBounds
<1>3. CASE Fed
  <2>1. UNCHANGED <<read, synthesis>>
    BY <1>3 DEF Fed
  <2>2. \A i \in 1..Len(results[q]) : results'[q][i] = results[q][i]
    BY <1>1, <1>3, FedLemma
  <2>3. \A i \in 1..read[q] : results'[q][i] = results[q][i]
    BY <1>2, <2>2
  <2> QED
    BY <2>1, <2>3 DEF Consumed
<1>4. CASE \E k \in Claims : Expire(k)
  BY <1>4 DEF Expire, Consumed
<1>5. CASE UNCHANGED vars
  BY <1>5 DEF vars, Consumed
<1> QED
  BY <1>3, <1>4, <1>5

-------------------------------------------------------------------------------
(* No result is counted twice.                                             *)

(* Nothing is consumed and nothing is waiting at first.                    *)
LEMMA CountedInit == Init => NoResultCountedTwice
<1> SUFFICES ASSUME Init, NEW c \in Claims
             PROVE  Expected * Cardinality(RowsOf(c)) + Cardinality(DOMAIN responses[c])
                      <= Cardinality(Consumed(c))
  BY DEF NoResultCountedTwice
<1>1. PartitionOf[c] \in Partitions
  BY EventsAssumption DEF EventsAssumption
<1>2. RowsOf(c) = {} /\ Consumed(c) = {} /\ DOMAIN responses[c] = {}
  BY <1>1, NoResponsesType DEF Init, RowsOf, Consumed
<1>3. Expected * 0 + 0 <= 0
  BY ExpectedType
<1> QED
  BY <1>2, <1>3, FS_EmptySet

(* A row uses up the expected number of results, and only its own.         *)
LEMMA CountedNext ==
  TypeInv /\ RowsAreComplete /\ NoResultCountedTwice /\ [Steps]_vars => NoResultCountedTwice'
<1> SUFFICES ASSUME TypeInv, RowsAreComplete, NoResultCountedTwice, [Steps]_vars,
                    NEW c \in Claims
             PROVE  Expected * Cardinality(RowsOf(c)') + Cardinality(DOMAIN responses'[c])
                      <= Cardinality(Consumed(c)')
  BY DEF NoResultCountedTwice, Expected
<1> DEFINE n == Cardinality(RowsOf(c))
           k == Cardinality(Consumed(c))
           d == Cardinality(DOMAIN responses[c])
<1>1. /\ n \in Nat /\ k \in Nat /\ d \in Nat
      /\ IsFiniteSet(RowsOf(c)) /\ IsFiniteSet(Consumed(c))
  <2>1. responses[c] \in FindingMap
    BY DEF TypeInv, TypeOK
  <2> QED
    BY <2>1, ConsumedType, FindingMapDomain
<1>2. Expected * n + d <= k /\ d < Expected
  BY DEF NoResultCountedTwice, RowsAreComplete
<1>3. Expected * (n + 1) = Expected * n + Expected /\ Expected * n \in Nat
  BY <1>1, ExpectedType
<1>4. Cardinality(DOMAIN NoResponses) = 0
  BY NoResponsesType, FS_EmptySet
<1>5. ASSUME NEW p \in Partitions, Eval(p)
      PROVE  Expected * Cardinality(RowsOf(c)') + Cardinality(DOMAIN responses'[c])
               <= Cardinality(Consumed(c)')
  <2> DEFINE res == results[p][read[p] + 1]
             new == Put(responses[res.claim], res.agent, Stored(res))
             row == [claim |-> res.claim, results |-> new]
  <2>1. /\ res.claim \in Claims /\ res.agent \in Agents /\ Stored(res) \in Finding
        /\ responses[res.claim] \in FindingMap
        /\ new \in FindingMap /\ row \in SynthesisReady
    BY <1>5, EvalLemma
  <2>2. /\ Cardinality(DOMAIN new) <= Cardinality(DOMAIN responses[res.claim]) + 1
        /\ Cardinality(DOMAIN new) \in Nat
    BY <2>1, PutLemma, FindingMapDomain
  <2>3. /\ responses \in [Claims -> FindingMap]
        /\ synthesis \in [Partitions -> Seq(SynthesisReady)]
        /\ PartitionOf \in [Claims -> Partitions]
    BY EventsAssumption DEF TypeInv, TypeOK, EventsAssumption
  <2>4. \/ /\ Cardinality(DOMAIN new) >= Expected
           /\ synthesis' = Published(synthesis, res.claim, row)
           /\ responses' = [responses EXCEPT ![res.claim] = NoResponses]
        \/ /\ responses' = [responses EXCEPT ![res.claim] = new]
           /\ UNCHANGED synthesis
    BY <1>5 DEF Eval, Complete, Cleared
  <2>5. /\ c = res.claim => /\ Consumed(c)' = Consumed(c) \cup {read[p] + 1}
                            /\ read[p] + 1 \notin Consumed(c)
        /\ c # res.claim => Consumed(c)' = Consumed(c)
    BY <1>5, EvalConsumes
  <2>6. row.claim = res.claim
    OBVIOUS
  <2> HIDE DEF new, row, res
  <2>7. CASE c = res.claim
    <3>1. Cardinality(Consumed(c)') = k + 1
      <4> DEFINE S == Consumed(c)
                 x == read[p] + 1
      <4>1. x \notin S /\ IsFiniteSet(S) /\ Consumed(c)' = S \cup {x}
        BY <1>1, <2>5, <2>7
      <4> HIDE DEF S, x
      <4>2. Cardinality(S \cup {x}) = Cardinality(S) + 1
        BY <4>1, AddOne
      <4> QED
        BY <4>1, <4>2 DEF S
    <3>2. CASE /\ synthesis' = Published(synthesis, res.claim, row)
               /\ responses' = [responses EXCEPT ![res.claim] = NoResponses]
               /\ Cardinality(DOMAIN new) >= Expected
      <4> DEFINE q == PartitionOf[c]
      <4>1. q \in Partitions /\ synthesis'[q] = Append(synthesis[q], row)
        BY <2>3, <2>7, <3>2 DEF Published
      <4>2. RowsOf(c)' \subseteq RowsOf(c) \cup {Len(synthesis[q]) + 1}
        BY <2>3, <4>1 DEF RowsOf
      <4>3. /\ IsFiniteSet(RowsOf(c) \cup {Len(synthesis[q]) + 1})
            /\ Cardinality(RowsOf(c) \cup {Len(synthesis[q]) + 1}) <= n + 1
            /\ Cardinality(RowsOf(c) \cup {Len(synthesis[q]) + 1}) \in Nat
        <5> DEFINE S == RowsOf(c)
                   x == Len(synthesis[q]) + 1
        <5>1. IsFiniteSet(S)
          BY <1>1
        <5> HIDE DEF S, x
        <5>2. /\ IsFiniteSet(S \cup {x})
              /\ Cardinality(S \cup {x}) <= Cardinality(S) + 1
              /\ Cardinality(S \cup {x}) \in Nat
          BY <5>1, AddOne
        <5> QED
          BY <5>2 DEF S, x
      <4> DEFINE n2 == Cardinality(RowsOf(c)')
      <4>4. n2 <= n + 1 /\ n2 \in Nat
        <5>1. IsFiniteSet(RowsOf(c)') /\ n2 <= Cardinality(RowsOf(c) \cup {Len(synthesis[q]) + 1})
          BY <4>2, <4>3, FS_Subset
        <5>2. n2 \in Nat
          BY <5>1, FS_CardinalityType
        <5> QED
          BY <1>1, <4>3, <5>1, <5>2
      <4>5. Cardinality(DOMAIN responses'[c]) = 0
        BY <1>4, <2>3, <2>7, <3>2
      <4>6. Expected <= d + 1
        BY <1>1, <2>2, <2>7, <3>2, ExpectedType
      <4> HIDE DEF n, k, d, n2
      <4>7. Expected * n2 <= Expected * (n + 1)
        BY <1>1, <4>4, ExpectedType, Z3
      <4>8. Expected * n2 \in Nat
        BY <4>4, ExpectedType
      <4>9. Expected * n2 + 0 <= k + 1
        BY <1>1, <1>2, <1>3, <4>6, <4>7, <4>8, ExpectedType
      <4> QED
        BY <3>1, <4>5, <4>9 DEF n2
    <3>3. CASE responses' = [responses EXCEPT ![res.claim] = new] /\ UNCHANGED synthesis
      <4>1. RowsOf(c)' = RowsOf(c)
        BY <3>3 DEF RowsOf
      <4>2. Cardinality(DOMAIN responses'[c]) <= d + 1
            /\ Cardinality(DOMAIN responses'[c]) \in Nat
        BY <2>2, <2>3, <2>7, <3>3
      <4> HIDE DEF n, k, d
      <4> QED
        BY <1>1, <1>2, <1>3, <3>1, <4>1, <4>2 DEF n
    <3> QED
      BY <2>4, <3>2, <3>3
  <2>8. CASE c # res.claim
    <3>1. responses'[c] = responses[c]
      BY <2>3, <2>4, <2>8
    <3>2. RowsOf(c)' = RowsOf(c)
      <4> DEFINE q == PartitionOf[c]
      <4>1. CASE synthesis'[q] = synthesis[q]
        BY <4>1 DEF RowsOf
      <4>2. CASE synthesis'[q] = Append(synthesis[q], row)
        <5>1. synthesis[q] \in Seq(SynthesisReady)
          BY <2>3
        <5>2. /\ Len(synthesis'[q]) = Len(synthesis[q]) + 1
              /\ synthesis'[q][Len(synthesis[q]) + 1] = row
              /\ \A i \in 1..Len(synthesis[q]) : synthesis'[q][i] = synthesis[q][i]
              /\ Len(synthesis[q]) \in Nat
          BY <2>1, <4>2, <5>1
        <5>3. row.claim # c
          BY <2>6, <2>8
        <5> QED
          BY <5>2, <5>3 DEF RowsOf
      <4>3. synthesis'[q] = synthesis[q] \/ synthesis'[q] = Append(synthesis[q], row)
        BY <2>1, <2>3, <2>4 DEF Published
      <4> QED
        BY <4>1, <4>2, <4>3
    <3> QED
      BY <1>2, <2>5, <2>8, <3>1, <3>2
  <2> QED
    BY <2>7, <2>8
<1>6. CASE Fed \/ (\E e \in Claims : Expire(e)) \/ UNCHANGED vars
  <2>1. Consumed(c)' = Consumed(c) /\ UNCHANGED synthesis
    BY <1>6, OthersConsumeNothing
  <2>2. RowsOf(c)' = RowsOf(c)
    BY <2>1 DEF RowsOf
  <2>3. responses'[c] = responses[c] \/ responses'[c] = NoResponses
    BY <1>6 DEF Fed, Expire, vars, TypeInv, TypeOK
  <2>4. Cardinality(DOMAIN responses'[c]) <= d /\ Cardinality(DOMAIN responses'[c]) \in Nat
    BY <1>1, <1>4, <2>3
  <2> HIDE DEF n, k, d
  <2> QED
    BY <1>1, <1>2, <1>3, <2>1, <2>2, <2>4 DEF n, k
<1> QED
  BY <1>5, <1>6, EnvFeeds DEF Steps, Next

(* No result is counted twice, however late, duplicated or forgotten the   *)
(* results of a claim are: k rows of a claim used up k times the expected  *)
(* number of results.                                                      *)
THEOREM CountedOnce == Spec => []NoResultCountedTwice
  BY TypeInvariant, RowsComplete, CountedInit, CountedNext, NextCovered, PTL DEF Spec

-------------------------------------------------------------------------------
(* The latest report wins.                                                 *)

(* The result at offset i is the last that was consumed of its agent for c,*)
(* and what is buffered for the agent.                                     *)
LatestAt(i, c, a) ==
  /\ i \in Consumed(c)
  /\ results[PartitionOf[c]][i].agent = a
  /\ Stored(results[PartitionOf[c]][i]) = responses[c][a]
  /\ \A j \in Consumed(c) : j > i => results[PartitionOf[c]][j].agent # a

(* Nothing is buffered at first.                                          *)
LEMMA LatestInit == Init => LatestReportWins
  BY NoResponsesType DEF Init, LatestReportWins

(* What eval reads is the last of its agent, and the others keep theirs.   *)
LEMMA LatestNext == TypeInv /\ LatestReportWins /\ [Steps]_vars => LatestReportWins'
<1> SUFFICES ASSUME TypeInv, LatestReportWins, [Steps]_vars, NEW c \in Claims,
                    NEW a \in DOMAIN responses'[c]
             PROVE  \E i \in Consumed(c)' :
                      /\ results'[PartitionOf[c]][i].agent = a
                      /\ Stored(results'[PartitionOf[c]][i]) = responses'[c][a]
                      /\ \A j \in Consumed(c)' : j > i => results'[PartitionOf[c]][j].agent # a
  BY DEF LatestReportWins, Consumed, Stored
<1>1. \A b \in DOMAIN responses[c] : \E i \in Consumed(c) : LatestAt(i, c, b)
  BY DEF LatestReportWins, LatestAt
<1>2. DOMAIN NoResponses = {}
  BY NoResponsesType
<1>3. responses \in [Claims -> FindingMap]
  BY DEF TypeInv, TypeOK
<1>4. ASSUME NEW p \in Partitions, Eval(p)
      PROVE  \E i \in Consumed(c)' :
               /\ results'[PartitionOf[c]][i].agent = a
               /\ Stored(results'[PartitionOf[c]][i]) = responses'[c][a]
               /\ \A j \in Consumed(c)' : j > i => results'[PartitionOf[c]][j].agent # a
  <2> DEFINE res == results[p][read[p] + 1]
             new == Put(responses[res.claim], res.agent, Stored(res))
  <2>1. /\ res.claim \in Claims /\ res.agent \in Agents /\ Stored(res) \in Finding
        /\ responses[res.claim] \in FindingMap
        /\ read[p] \in Nat /\ read[p] + 1 \in 1..Len(results[p])
    BY <1>4, EvalLemma
  <2>2. PartitionOf[res.claim] = p
    BY <2>1 DEF TypeInv, ResultsPartitioned
  <2>3. /\ c = res.claim => /\ Consumed(c)' = Consumed(c) \cup {read[p] + 1}
                            /\ \A i \in Consumed(c) : i < read[p] + 1
        /\ c # res.claim => Consumed(c)' = Consumed(c)
        /\ results' = results
    BY <1>4, EvalConsumes
  <2>4. \/ responses' = [responses EXCEPT ![res.claim] = NoResponses]
        \/ responses' = [responses EXCEPT ![res.claim] = new]
    BY <1>4 DEF Eval, Cleared
  <2>5. /\ DOMAIN new = DOMAIN responses[res.claim] \cup {res.agent}
        /\ new[res.agent] = Stored(res)
        /\ \A b \in DOMAIN responses[res.claim] \ {res.agent} :
             new[b] = responses[res.claim][b]
    BY DEF Put
  <2>6. Consumed(c) \subseteq Nat
    <3>1. read[PartitionOf[c]] \in Nat
      BY EventsAssumption DEF EventsAssumption, TypeInv, TypeOK
    <3> QED
      BY <3>1 DEF Consumed
  <2> DEFINE last == read[p] + 1
  <2> HIDE DEF new
  <2>7. CASE c # res.claim
    <3>1. responses'[c] = responses[c]
      BY <1>3, <2>4, <2>7
    <3>2. PICK i \in Consumed(c) : LatestAt(i, c, a)
      BY <1>1, <3>1
    <3> QED
      BY <2>3, <2>7, <3>1, <3>2 DEF LatestAt
  <2>8. CASE c = res.claim
    <3>1. responses'[c] = new
      BY <1>2, <1>3, <2>4, <2>8
    <3>2. a \in DOMAIN responses[c] \/ a = res.agent
      BY <2>5, <2>8, <3>1
    <3>3. CASE a = res.agent
      <4>1. last \in Consumed(c)' /\ results'[PartitionOf[c]][last] = res
        BY <2>2, <2>3, <2>8
      <4>2. \A j \in Consumed(c)' : ~(j > last)
        <5>1. /\ Consumed(c)' = Consumed(c) \cup {last} /\ last \in Nat
              /\ \A i \in Consumed(c) : i < last
          BY <2>1, <2>3, <2>8
        <5> HIDE DEF last, res
        <5> QED
          BY <2>6, <5>1
      <4>3. Stored(res) = responses'[c][a] /\ res.agent = a
        BY <2>5, <3>1, <3>3
      <4> HIDE DEF last, res
      <4> QED
        BY <4>1, <4>2, <4>3
    <3>4. CASE a # res.agent
      <4>1. PICK i \in Consumed(c) : LatestAt(i, c, a)
        BY <1>1, <3>2, <3>4
      <4>2. responses'[c][a] = responses[c][a]
        BY <2>5, <2>8, <3>1, <3>2, <3>4
      <4>3. \A j \in Consumed(c)' : j > i => results'[PartitionOf[c]][j].agent # a
        <5> SUFFICES ASSUME NEW j \in Consumed(c)', j > i
                     PROVE  results'[PartitionOf[c]][j].agent # a
          OBVIOUS
        <5>1. CASE j \in Consumed(c)
          BY <2>3, <4>1, <5>1 DEF LatestAt
        <5>2. CASE j = last
          <6>1. results'[PartitionOf[c]][j] = res
            BY <2>2, <2>3, <2>8, <5>2
          <6> QED
            BY <3>4, <6>1
        <5> QED
          BY <2>3, <2>8, <5>1, <5>2
      <4>4. i \in Consumed(c)'
        BY <2>3, <2>8, <4>1
      <4> QED
        BY <2>3, <4>1, <4>2, <4>3, <4>4 DEF LatestAt
    <3> QED
      BY <3>3, <3>4
  <2> QED
    BY <2>7, <2>8
<1>5. CASE Fed \/ (\E e \in Claims : Expire(e)) \/ UNCHANGED vars
  <2>1. /\ Consumed(c)' = Consumed(c)
        /\ \A i \in Consumed(c) :
             results'[PartitionOf[c]][i] = results[PartitionOf[c]][i]
    BY <1>5, OthersConsumeNothing
  <2>2. responses'[c] = responses[c] \/ responses'[c] = NoResponses
    BY <1>3, <1>5 DEF Fed, Expire, vars
  <2>3. responses'[c] = responses[c]
    BY <1>2, <2>2
  <2>4. PICK i \in Consumed(c) : LatestAt(i, c, a)
    BY <1>1, <2>3
  <2> QED
    BY <2>1, <2>3, <2>4 DEF LatestAt
<1> QED
  BY <1>4, <1>5, EnvFeeds DEF Steps, Next

(* A retried answer supersedes the failure before it, whatever the order   *)
(* in which the other agents and claims report: what is buffered for an    *)
(* agent is its last result that eval has consumed for the claim.          *)
THEOREM LatestWins == Spec => []LatestReportWins
  BY TypeInvariant, LatestInit, LatestNext, NextCovered, PTL DEF Spec

===============================================================================
