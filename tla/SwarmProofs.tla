------------------------------ MODULE SwarmProofs -----------------------------
(***************************************************************************)
(* Theorems about the whole swarm, for every number of claims, agents,     *)
(* replicas and partitions, and every bound on what goes wrong: they put   *)
(* together what the theorems about the workers, the barrier and the       *)
(* orchestrator say of each of them, whoever feeds it.                     *)
(***************************************************************************)
EXTENDS Swarm, FiniteSetTheorems, TLAPS

(* The theorems about the workers,                                         *)
WP == INSTANCE WorkerProofs WITH
  input <- tasks, Processes <- Workers, Groups <- Agents, GroupOf <- AgentOf,
  Junk <- {}, MaxRecords <- 0,
  MaxTrouble <- MaxDisruptions + MaxStops + MaxFaults

(* ... the barrier,                                                        *)
BP == INSTANCE AgentBarrierProofs WITH MaxResults <- 0

(* ... and the orchestrator.                                               *)
OP == INSTANCE OrchestratorProofs WITH
  input <- synthesis, owner <- oowner, acked <- oacked, proc <- oproc,
  trouble <- otrouble, Processes <- Orchestrators, Groups <- {Synthesizers},
  GroupOf <- [o \in Orchestrators |-> Synthesizers],
  MaxDisruptions <- MaxODisruptions, MaxStops <- MaxOStops,
  MaxFaults <- MaxOFaults,
  MaxTrouble <- MaxODisruptions + MaxOStops + MaxOFaults, Junk <- {}, MaxRows <- 0

-------------------------------------------------------------------------------
(* What the theorems about the parts assume holds in the swarm.            *)

(* The sets of the instances are those of the swarm.                       *)
LEMMA SameSets ==
  /\ WP!Task = Task /\ WP!Result = Result /\ WP!Position = Position
  /\ BP!Result = Result /\ BP!SynthesisReady = SynthesisReady /\ BP!FindingMap = FindingMap
  /\ OP!SynthesisReady = SynthesisReady /\ OP!Position = Position
BY DEF WP!Task, Task, WP!Result, Result, WP!Position, Position, WP!Round, Round,
       BP!Result, BP!Round, BP!SynthesisReady, SynthesisReady, BP!FindingMap, FindingMap,
       BP!Finding, Finding, BP!FailureText, FailureText, OP!SynthesisReady,
       OP!FindingMap, OP!Finding, OP!Round, OP!FailureText, OP!Position

(* ... of the workers,                                                     *)
LEMMA WorkerFacts ==
  /\ WP!IsFiniteSet(Agents) /\ PartitionOf \in [Claims -> Partitions]
  /\ RawTexts \subseteq Texts /\ Unknown \notin Claims /\ MaxRounds \in Nat
  /\ WP!IsFiniteSet(Workers) /\ AgentOf \in [Workers -> Agents]
  /\ NoProcess \notin Workers /\ NoMsg \notin WP!Position
  /\ MaxDisruptions \in Nat /\ MaxStops \in Nat /\ MaxFaults \in Nat
  /\ MaxDisruptions + MaxStops + MaxFaults \in Nat
  /\ Agents \subseteq Agents /\ SchemaRegistry \in BOOLEAN
  /\ {} \subseteq {BadKey, BadPayload, Tombstone}
  /\ BadPayload \notin WP!Task /\ Tombstone \notin WP!Task
  /\ BadKey \notin WP!Task \cup {BadPayload, Tombstone} /\ 0 \in Nat
<1>1. WP!IsFiniteSet(Agents) /\ WP!IsFiniteSet(Workers)
  BY EventsAssumption, SwarmAssumption
  DEF EventsAssumption, SwarmAssumption, IsFiniteSet, WP!IsFiniteSet
<1> QED
  BY <1>1, EventsAssumption, SwarmAssumption, SameSets DEF EventsAssumption, SwarmAssumption

(* ... of the barrier,                                                     *)
LEMMA BarrierFacts ==
  /\ ExpectedAgents \in Int /\ MaxExpiries \in Nat /\ 0 \in Nat
  /\ BP!IsFiniteSet(Agents) /\ PartitionOf \in [Claims -> Partitions]
  /\ RawTexts \subseteq Texts /\ Unknown \notin Claims /\ MaxRounds \in Nat
<1>1. BP!IsFiniteSet(Agents)
  BY EventsAssumption DEF EventsAssumption, IsFiniteSet, BP!IsFiniteSet
<1> QED
  BY <1>1, EventsAssumption, SwarmAssumption DEF EventsAssumption, SwarmAssumption

(* ... and of the orchestrator.                                            *)
LEMMA OrchestratorFacts ==
  /\ OP!IsFiniteSet(Agents) /\ PartitionOf \in [Claims -> Partitions]
  /\ RawTexts \subseteq Texts /\ Unknown \notin Claims /\ MaxRounds \in Nat
  /\ OP!IsFiniteSet(Orchestrators)
  /\ [o \in Orchestrators |-> Synthesizers] \in [Orchestrators -> {Synthesizers}]
  /\ NoProcess \notin Orchestrators /\ NoMsg \notin OP!Position
  /\ MaxODisruptions \in Nat /\ MaxOStops \in Nat /\ MaxOFaults \in Nat
  /\ MaxODisruptions + MaxOStops + MaxOFaults \in Nat
  /\ \E g \in {Synthesizers} : {Synthesizers} = {g}
  /\ {} \subseteq {BadPayload, Tombstone}
  /\ BadPayload \notin OP!SynthesisReady /\ Tombstone \notin OP!SynthesisReady
  /\ 0 \in Nat /\ MaxFailures \in Nat
<1>1. OP!IsFiniteSet(Agents) /\ OP!IsFiniteSet(Orchestrators)
  BY EventsAssumption, SwarmAssumption
  DEF EventsAssumption, SwarmAssumption, IsFiniteSet, OP!IsFiniteSet
<1> QED
  BY <1>1, EventsAssumption, SwarmAssumption, SameSets DEF EventsAssumption, SwarmAssumption

-------------------------------------------------------------------------------
(* The parts of the swarm are the parts that the theorems are about.       *)

(* A step of a worker's loop,                                              *)
LEMMA SameLoop ==
  ASSUME NEW w \in Workers
  PROVE  (W!Turn(w) <=> WP!Turn(w)) /\ (W!Upset(w) <=> WP!Upset(w))
BY DEF W!Turn, WP!Turn, W!Start, WP!Start, W!Goto, WP!Goto, W!Assign,
      WP!Assign, W!AssignAt, WP!AssignAt, W!Fellows, WP!Fellows, W!Member,
      WP!Member, W!Owns, WP!Owns, W!Owned, WP!Owned, W!Busy, WP!Busy,
      W!Revoke, WP!Revoke, W!PollEmpty, WP!PollEmpty, W!FlushDone,
      WP!FlushDone, W!Commit, WP!Commit, W!CommitRejected, WP!CommitRejected,
      W!Die, WP!Die, W!Released, WP!Released, W!Idle, WP!Idle, W!Close,
      WP!Close, W!Fault, WP!Fault, W!Count, WP!Count, W!Disruptions,
      WP!Disruptions, W!Upset, WP!Upset, W!Evict, WP!Evict, W!Disrupted,
      WP!Disrupted, W!Crash, WP!Crash, W!RequestStop, WP!RequestStop,
      W!DeliveryFails, WP!DeliveryFails, W!Unqueue, WP!Unqueue,
      W!FlushTimeout, WP!FlushTimeout, W!Cardinality, WP!Cardinality,
      W!IsFiniteSet, WP!IsFiniteSet

(* ... what a worker does with a record,                                   *)
LEMMA SameWorker ==
  ASSUME NEW w \in Workers
  PROVE  /\ (\E p \in Partitions : W!Receive(w, p))
              <=> (\E p \in Partitions : WP!Receive(w, p))
         /\ W!Handle(w) <=> WP!Handle(w)
         /\ W!Raises(w) <=> WP!Raises(w)
         /\ W!Deliver(w) <=> WP!Deliver(w)
BY DEF W!Receive, WP!Receive, W!Handle, WP!Handle, W!Raises,
      WP!Raises, W!Deliver, WP!Deliver, W!Poll, WP!Poll, W!Owns,
      WP!Owns, W!Peek, WP!Peek, W!Undecodable, WP!Undecodable, W!Task,
      WP!Task, W!Round, WP!Round, W!InHand, WP!InHand, W!ReportsOf,
      WP!ReportsOf, W!SuccessOf, WP!SuccessOf, W!FailureOf, WP!FailureOf,
      W!Produce, WP!Produce, W!Die, WP!Die, W!Released, WP!Released, W!Idle,
      WP!Idle, W!Sent, WP!Sent, W!Unqueue, WP!Unqueue, W!Published,
      WP!Published

(* ... a step of an orchestrator's loop,                                   *)
LEMMA SameOLoop ==
  ASSUME NEW w \in Orchestrators
  PROVE  /\ (O!Turn(w) /\ O!Memory(w)) <=> (OP!Turn(w) /\ OP!Memory(w))
         /\ (O!Upset(w) /\ O!Memory(w)) <=> (OP!Upset(w) /\ OP!Memory(w))
BY DEF O!Turn, OP!Turn, O!Start, OP!Start, O!Goto, OP!Goto, O!Assign,
      OP!Assign, O!AssignAt, OP!AssignAt, O!Fellows, OP!Fellows, O!Member,
      OP!Member, O!Owns, OP!Owns, O!Owned, OP!Owned, O!Busy, OP!Busy,
      O!Revoke, OP!Revoke, O!PollEmpty, OP!PollEmpty, O!FlushDone,
      OP!FlushDone, O!Commit, OP!Commit, O!CommitRejected, OP!CommitRejected,
      O!Die, OP!Die, O!Released, OP!Released, O!Idle, OP!Idle, O!Close,
      OP!Close, O!Fault, OP!Fault, O!Count, OP!Count, O!Disruptions,
      OP!Disruptions, O!Upset, OP!Upset, O!Evict, OP!Evict, O!Disrupted,
      OP!Disrupted, O!Crash, OP!Crash, O!RequestStop, OP!RequestStop,
      O!DeliveryFails, OP!DeliveryFails, O!Unqueue, OP!Unqueue,
      O!FlushTimeout, OP!FlushTimeout, O!Cardinality, OP!Cardinality,
      O!IsFiniteSet, OP!IsFiniteSet, O!Memory, OP!Memory

(* ... what an orchestrator does with a row,                               *)
LEMMA SameOrchestrator ==
  ASSUME NEW w \in Orchestrators
  PROVE  /\ (\E p \in Partitions : O!Consume(w, p))
              <=> (\E p \in Partitions : OP!Consume(w, p))
         /\ O!Synthesize(w) <=> OP!Synthesize(w)
         /\ O!SynthesizeFails(w) <=> OP!SynthesizeFails(w)
         /\ O!Decide(w) <=> OP!Decide(w)
BY DEF O!Consume, OP!Consume, O!Poll, OP!Poll, O!Owns, OP!Owns, O!Peek,
      OP!Peek, O!Skipped, OP!Skipped, O!ClaimIdOf, OP!ClaimIdOf, O!Synthesize,
      OP!Synthesize, O!Produce, OP!Produce, O!DecisionOf, OP!DecisionOf,
      O!InHand, OP!InHand, O!SynthesizeFails, OP!SynthesizeFails, O!Goto,
      OP!Goto, O!Decide, OP!Decide, O!Sent, OP!Sent, O!Unqueue, OP!Unqueue

(* ... a step of the barrier,                                              *)
LEMMA SameBarrier ==
  /\ \A p \in Partitions : B!Eval(p) <=> BP!Eval(p)
  /\ \A c \in Claims : B!Expire(c) <=> BP!Expire(c)
BY DEF B!Eval, BP!Eval, B!Put, BP!Put, B!Stored, BP!Stored, B!Complete,
      BP!Complete, B!Cleared, BP!Cleared, B!NoResponses, BP!NoResponses,
      B!Expected, BP!Expected, B!Published, BP!Published, B!Cardinality,
      BP!Cardinality, B!IsFiniteSet, BP!IsFiniteSet, B!FailureText,
      BP!FailureText, B!Expire, BP!Expire

(* ... and where each of them starts.                                      *)
LEMMA SameInit ==
  /\ W!Init <=> WP!Init
  /\ B!Init <=> BP!Init
  /\ O!Init <=> OP!Init
BY DEF W!Init, WP!Init, W!LoopInit, WP!LoopInit, W!Idle, WP!Idle, B!Init,
      BP!Init, B!NoResponses, BP!NoResponses, O!Init, OP!Init, O!LoopInit,
      OP!LoopInit, O!Idle, OP!Idle, O!ClaimId, OP!ClaimId

-------------------------------------------------------------------------------
(* What a step of the swarm is to its parts.                               *)

(* A dispatch feeds the workers, and is nothing to the others.             *)
LEMMA DispatchFeeds ==
  ASSUME WP!IInv, NEW c \in Claims, Dispatch(c)
  PROVE  WP!Fed
<1> DEFINE p == PartitionOf[c]
           rec == [claim |-> c, round |-> Len(tasks[p]) + 1]
<1>1. p \in Partitions /\ MaxRounds \in Nat
  BY EventsAssumption DEF EventsAssumption
<1>2. tasks \in [Partitions -> Seq(WP!Record)]
  BY DEF WP!IInv, WP!LoopInv
<1>3. Len(tasks[p]) \in Nat /\ Len(tasks[p]) + 1 <= MaxRounds
  BY <1>1, <1>2 DEF Dispatch, W!NextRound
<1>4. Len(tasks[p]) + 1 \in 1..MaxRounds
  BY <1>1, <1>3
<1>5. rec \in WP!Record
  BY <1>4 DEF WP!Record, WP!Task, WP!Round
<1>6. tasks' = [tasks EXCEPT ![p] = Append(@, rec)]
  BY DEF Dispatch, Published, W!NextRound
<1>7. rec.round = Len(tasks[p]) + 1 /\ PartitionOf[rec.claim] = p
  OBVIOUS
<1> HIDE DEF p, rec
<1>8. UNCHANGED <<results, WP!loopVars>>
  BY DEF Dispatch, workerVars, WP!loopVars
<1> QED
  BY <1>1, <1>5, <1>6, <1>7, <1>8 DEF WP!Fed

(* A step of the workers is one of Worker.                                 *)
LEMMA WorkerSteps ==
  ASSUME WorkerStep
  PROVE  WP!Step
<1>1. PICK w \in Workers : W!Progress(w) \/ W!Deliver(w) \/ W!Trouble(w)
  BY DEF WorkerStep, W!Step
<1>2. WP!Progress(w) \/ WP!Deliver(w) \/ WP!Trouble(w)
  BY <1>1, SameLoop, SameWorker DEF W!Progress, WP!Progress, W!Trouble, WP!Trouble
<1> QED
  BY <1>2 DEF WP!Step

(* To the barrier it is at most a result that is published.                *)
LEMMA WorkerFeeds ==
  ASSUME WP!IInv, WorkerStep
  PROVE  BP!Fed \/ UNCHANGED BP!vars
<1>1. UNCHANGED <<synthesis, responses, read, expiries>>
  BY DEF WorkerStep, barrierVars
<1>2. PICK w \in Workers : WP!Progress(w) \/ WP!Deliver(w) \/ WP!Trouble(w)
  BY WorkerSteps DEF WP!Step
<1>3. CASE WP!Deliver(w)
  <2>1. /\ proc[w].out # <<>>
        /\ results' = WP!Published(results, Head(proc[w].out).claim, Head(proc[w].out))
    BY <1>3 DEF WP!Deliver, WP!Sent, WP!Unqueue
  <2>2. proc[w].out \in Seq(WP!Result)
    <3>1. WP!LoopTypeOK(WP!Result)
      BY DEF WP!IInv, WP!LoopInv
    <3> QED
      BY <3>1 DEF WP!LoopTypeOK, WP!Process
  <2>3. Head(proc[w].out) \in BP!Result
    BY <2>1, <2>2, SameSets
  <2> QED
    BY <1>1, <2>1, <2>3 DEF BP!Fed, WP!Published, BP!Published
<1>4. CASE WP!Progress(w) \/ WP!Trouble(w)
  <2>1. results' = results
    BY <1>4 DEF WP!Progress, WP!Trouble, WP!Receive, WP!Handle, WP!Raises
  <2> QED
    BY <1>1, <2>1 DEF BP!vars
<1> QED
  BY <1>2, <1>3, <1>4

(* A step of the barrier is one of AgentBarrier.                           *)
LEMMA BarrierSteps ==
  ASSUME BarrierStep
  PROVE  \/ \E p \in Partitions : BP!Eval(p)
         \/ \E c \in Claims : BP!Expire(c)
BY SameBarrier DEF BarrierStep

(* To the orchestrator it is at most a row that is published.              *)
LEMMA BarrierFeeds ==
  ASSUME BP!TypeInv, BarrierStep
  PROVE  OP!Fed \/ UNCHANGED OP!vars
<1>1. UNCHANGED OP!ownVars
  BY DEF BarrierStep, orchestratorVars, OP!ownVars, OP!loopVars
<1>2. CASE UNCHANGED synthesis
  BY <1>1, <1>2 DEF OP!vars
<1>3. ASSUME NEW p \in Partitions, BP!Eval(p), synthesis' # synthesis
      PROVE  OP!Fed
  <2> DEFINE res == results[p][read[p] + 1]
             new == BP!Put(responses[res.claim], res.agent, BP!Stored(res))
             row == [claim |-> res.claim, results |-> new]
  <2>1. res.claim \in Claims /\ row \in BP!SynthesisReady
    BY <1>3, BP!EvalLemma, BarrierFacts
  <2>2. synthesis' = BP!Published(synthesis, res.claim, row)
    BY <1>3 DEF BP!Eval
  <2>3. row \in OP!Record /\ PartitionOf[res.claim] \in Partitions /\ row.claim = res.claim
    BY <2>1, SameSets, EventsAssumption DEF OP!Record, EventsAssumption
  <2> HIDE DEF row
  <2>4. synthesis' = [synthesis EXCEPT ![PartitionOf[res.claim]] = Append(@, row)]
    BY <2>2 DEF BP!Published
  <2> QED
    BY <1>1, <2>3, <2>4 DEF OP!Fed
<1>4. ASSUME NEW c \in Claims, BP!Expire(c)
      PROVE  UNCHANGED synthesis
  BY <1>4 DEF BP!Expire
<1> QED
  BY <1>2, <1>3, <1>4, BarrierSteps

(* A step of the orchestrator is one of Orchestrator.                      *)
LEMMA OrchestratorSteps ==
  ASSUME OrchestratorStep
  PROVE  OP!Step
<1>1. PICK w \in Orchestrators : O!Progress(w) \/ O!Decide(w) \/ O!Trouble(w)
  BY DEF OrchestratorStep, O!Step
<1>2. OP!Progress(w) \/ OP!Decide(w) \/ OP!Trouble(w)
  BY <1>1, SameOLoop, SameOrchestrator DEF O!Progress, OP!Progress, O!Trouble, OP!Trouble
<1> QED
  BY <1>2 DEF OP!Step

(* It takes rows, and emits none.                                          *)
LEMMA OrchestratorEmitsNoRow ==
  ASSUME OrchestratorStep
  PROVE  synthesis' = synthesis
<1>1. PICK w \in Orchestrators : OP!Progress(w) \/ OP!Decide(w) \/ OP!Trouble(w)
  BY OrchestratorSteps DEF OP!Step
<1> QED
  BY <1>1 DEF OP!Progress, OP!Memory, OP!Consume, OP!Synthesize, OP!Decide, OP!Trouble,
              OP!SynthesizeFails

(* What each kind of step is to each part.                                 *)
LEMMA Parts ==
  ASSUME WP!IInv, BP!TypeInv, [Next]_vars
  PROVE  /\ WP!Fed \/ [WP!Next]_WP!vars
         /\ [BP!Steps]_BP!vars
         /\ OP!Fed \/ [OP!Next]_OP!vars
         /\ overlapped \in BOOLEAN => overlapped' \in BOOLEAN
<1>1. ASSUME NEW c \in Claims, Dispatch(c)
      PROVE  WP!Fed /\ UNCHANGED BP!vars /\ UNCHANGED OP!vars
             /\ (overlapped \in BOOLEAN => overlapped' \in BOOLEAN)
  BY <1>1, DispatchFeeds
  DEF Dispatch, BP!vars, barrierVars, OP!vars, OP!ownVars, OP!loopVars, orchestratorVars
<1>2. CASE WorkerStep
  <2>1. WP!Next /\ (BP!Fed \/ UNCHANGED BP!vars)
    BY <1>2, WorkerSteps, WorkerFeeds DEF WP!Next
  <2>2. UNCHANGED OP!vars /\ overlapped' = overlapped
    BY <1>2 DEF WorkerStep, OP!vars, OP!ownVars, OP!loopVars, orchestratorVars
  <2> QED
    BY <2>1, <2>2 DEF BP!Steps
<1>3. CASE BarrierStep
  <2>1. BP!Steps /\ (OP!Fed \/ UNCHANGED OP!vars)
    BY <1>3, BarrierSteps, BarrierFeeds DEF BP!Steps, BP!Next
  <2>2. UNCHANGED WP!vars /\ overlapped' = overlapped
    <3>1. results' = results
      BY <1>3, BarrierSteps DEF BP!Eval, BP!Expire
    <3> QED
      BY <1>3, <3>1 DEF BarrierStep, workerVars, WP!vars, WP!loopVars
  <2> QED
    BY <2>1, <2>2
<1>4. CASE OrchestratorStep
  <2>1. OP!Next
    BY <1>4, OrchestratorSteps DEF OP!Next
  <2>2. UNCHANGED WP!vars /\ UNCHANGED BP!vars /\ overlapped' = overlapped
    BY <1>4, OrchestratorEmitsNoRow
    DEF OrchestratorStep, workerVars, barrierVars, WP!vars, WP!loopVars, BP!vars
  <2> QED
    BY <2>1, <2>2
<1>5. CASE UNCHANGED vars
  BY <1>5 DEF vars, workerVars, barrierVars, orchestratorVars, WP!vars, WP!loopVars,
              BP!vars, OP!vars, OP!ownVars, OP!loopVars
<1> QED
  BY <1>1, <1>2, <1>3, <1>4, <1>5 DEF Next

-------------------------------------------------------------------------------
(* The invariants of the parts hold together.                              *)

(* The barrier's invariant.                                                *)
BarrierInv ==
  BP!TypeInv /\ BP!RowsAreComplete /\ BP!FindingsAreReported /\ BP!NoResultCountedTwice

(* The inductive invariant of the swarm.                                   *)
SwarmInv ==
  /\ WP!IInv /\ WP!RelayInv
  /\ BarrierInv
  /\ OP!IInv /\ OP!RowsInv
  /\ overlapped \in BOOLEAN

(* The swarm starts in the invariant.                                      *)
LEMMA SwarmInit == Init => SwarmInv
<1> SUFFICES ASSUME Init PROVE SwarmInv
  OBVIOUS
<1>1. WP!Init /\ BP!Init /\ OP!Init /\ overlapped \in BOOLEAN
  BY SameInit DEF Init
<1>2. WP!IInv /\ WP!RelayInv
  BY <1>1, WP!InvInit, WP!RelayInit, WorkerFacts
<1>3. BarrierInv
  BY <1>1, BP!TypeInit, BP!CompleteInit, BP!ReportedInit, BP!CountedInit, BarrierFacts
  DEF BarrierInv
<1>4. OP!IInv /\ OP!RowsInv
  BY <1>1, OP!InvInit, OP!RowsInit, OrchestratorFacts
<1> QED
  BY <1>1, <1>2, <1>3, <1>4 DEF SwarmInv

(* Every step of the swarm keeps it: to each part it is a step of its own, *)
(* or one that feeds it.                                                   *)
LEMMA SwarmNext == SwarmInv /\ [Next]_vars => SwarmInv'
<1> SUFFICES ASSUME SwarmInv, [Next]_vars PROVE SwarmInv'
  OBVIOUS
<1>1. /\ WP!IInv /\ WP!RelayInv /\ BP!TypeInv /\ BP!RowsAreComplete
      /\ BP!FindingsAreReported /\ BP!NoResultCountedTwice
      /\ OP!IInv /\ OP!RowsInv
  BY DEF SwarmInv, BarrierInv
<1>2. /\ WP!Fed \/ [WP!Next]_WP!vars
      /\ [BP!Steps]_BP!vars
      /\ OP!Fed \/ [OP!Next]_OP!vars
      /\ overlapped' \in BOOLEAN
  BY <1>1, Parts DEF SwarmInv
<1>3. WP!IInv'
  BY <1>1, <1>2, WP!FedPreserves, WP!InvNext, WorkerFacts
<1>4. WP!RelayInv'
  BY <1>1, <1>2, WP!RelayFed, WP!RelayNext, WorkerFacts
<1>5. BP!TypeInv' /\ BP!RowsAreComplete'
  BY <1>1, <1>2, BP!TypeNext, BP!CompleteNext, BarrierFacts
<1>6. BP!FindingsAreReported' /\ BP!NoResultCountedTwice'
  BY <1>1, <1>2, BP!ReportedNext, BP!CountedNext, BarrierFacts
<1>7. OP!IInv'
  BY <1>1, <1>2, OP!FedPreserves, OP!InvNext, OrchestratorFacts
<1>8. OP!RowsInv'
  BY <1>1, <1>2, OP!FedRows, OP!RowsNext, OrchestratorFacts
<1> QED
  BY <1>2, <1>3, <1>4, <1>5, <1>6, <1>7, <1>8 DEF SwarmInv, BarrierInv

(* The invariant of the parts holds throughout.                            *)
LEMMA SwarmInvariant == Spec => []SwarmInv
  BY SwarmInit, SwarmNext, PTL DEF Spec

(* An instance's Cardinality is the usual one.                             *)
LEMMA CardinalityIs ==
  \A S : /\ B!Cardinality(S) = Cardinality(S) /\ BP!Cardinality(S) = Cardinality(S)
         /\ WP!Cardinality(S) = Cardinality(S) /\ (WP!IsFiniteSet(S) <=> IsFiniteSet(S))
BY DEF B!Cardinality, BP!Cardinality, WP!Cardinality, Cardinality,
       B!IsFiniteSet, BP!IsFiniteSet, WP!IsFiniteSet, IsFiniteSet

-------------------------------------------------------------------------------
(* Type correctness.                                                       *)

(* The types of the parts are those of the swarm.                          *)
LEMMA SameTypes ==
  /\ WP!TypeOK => W!TypeOK
  /\ BP!TypeOK => B!TypeOK
  /\ OP!TypeOK => O!TypeOK
<1>1. WP!TypeOK => W!TypeOK
  BY DEF W!TypeOK, WP!TypeOK, W!Task, WP!Task, W!Round, WP!Round, W!Result,
         WP!Result, W!LoopTypeOK, WP!LoopTypeOK, W!Process, WP!Process,
         W!States, WP!States, W!Busy, WP!Busy, W!Position, WP!Position
<1>2. BP!TypeOK => B!TypeOK
  BY DEF B!TypeOK, BP!TypeOK, B!Result, BP!Result, B!Round, BP!Round,
         B!SynthesisReady, BP!SynthesisReady, B!FindingMap, BP!FindingMap,
         B!Finding, BP!Finding, B!FailureText, BP!FailureText
<1>3. OP!TypeOK => O!TypeOK
  BY DEF O!TypeOK, OP!TypeOK, O!SynthesisReady, OP!SynthesisReady, O!Round,
         OP!Round, O!FindingMap, OP!FindingMap, O!Finding, OP!Finding,
         O!FailureText, OP!FailureText, O!ClaimId, OP!ClaimId,
         O!DecisionFinal, OP!DecisionFinal, O!LoopTypeOK, OP!LoopTypeOK,
         O!Process, OP!Process, O!States, OP!States, O!Busy, OP!Busy,
         O!Position, OP!Position
<1> QED
  BY <1>1, <1>2, <1>3

(* The topics, the loops and the barrier always have their types, however  *)
(* many claims are dispatched and whatever goes wrong.                     *)
THEOREM SwarmTypeCorrect == Spec => []TypeOK
<1>1. SwarmInv => TypeOK
  <2> SUFFICES ASSUME SwarmInv PROVE TypeOK
    OBVIOUS
  <2>1. WP!TypeOK
    BY WP!InvImplies, WorkerFacts DEF SwarmInv
  <2>2. OP!TypeOK
    BY OP!InvImplies, OrchestratorFacts DEF SwarmInv
  <2>3. BP!TypeOK /\ overlapped \in BOOLEAN
    BY DEF SwarmInv, BarrierInv, BP!TypeInv
  <2> QED
    BY <2>1, <2>2, <2>3, SameTypes DEF TypeOK
<1> QED
  BY <1>1, SwarmInvariant, PTL

-------------------------------------------------------------------------------
(* Where a decision comes from.                                            *)

(* What the statement has consumed answers a task that was dispatched.     *)
LEMMA ConsumedAnswers ==
  ASSUME SwarmInv, NEW c \in Claims, NEW j \in 1..Len(results[PartitionOf[c]]),
         results[PartitionOf[c]][j].claim = c
  PROVE  LET res == results[PartitionOf[c]][j]
         IN  /\ res \in Result /\ res.agent \in Agents
             /\ res.round \in Dispatched(c)
<1> DEFINE p == PartitionOf[c]
           res == results[p][j]
<1>1. p \in Partitions
  BY EventsAssumption DEF EventsAssumption
<1>2. results \in [Partitions -> Seq(WP!Result)] /\ WP!LogOK(results, tasks)
  BY DEF SwarmInv, WP!IInv, WP!RelayInv
<1>3. res \in Result
  BY <1>1, <1>2, SameSets
<1>4. WP!ResultOK(res, tasks)
  BY <1>1, <1>2 DEF WP!LogOK
<1>5. /\ res.round \in 1..Len(tasks[p])
      /\ tasks[p][res.round] = [claim |-> c, round |-> res.round]
  BY <1>4 DEF WP!ResultOK
<1>6. res.agent \in Agents
  BY <1>3 DEF Result
<1> HIDE DEF res
<1>7. res.round \in Dispatched(c)
  BY <1>5 DEF Dispatched
<1> QED
  BY <1>3, <1>6, <1>7 DEF res

(* What the barrier was reported answers a task that was dispatched.       *)
LEMMA ReportedAnswers ==
  ASSUME SwarmInv, NEW c \in Claims, NEW a, NEW f, BP!Reported(c, a, f)
  PROVE  /\ B!Reported(c, a, f)
         /\ \E i \in Dispatched(c) : tasks[PartitionOf[c]][i].round = f.round
<1> DEFINE p == PartitionOf[c]
<1>1. B!Reported(c, a, f)
  BY DEF B!Reported, BP!Reported, B!Consumed, BP!Consumed, B!Stored, BP!Stored,
         B!FailureText, BP!FailureText
<1>2. PICK j \in 1..read[p] : results[p][j].claim = c /\ BP!Stored(results[p][j]) = f
  BY DEF BP!Reported, BP!Consumed
<1>3. j \in 1..Len(results[p])
  <2>1. p \in Partitions
    BY EventsAssumption DEF EventsAssumption
  <2>2. read[p] <= Len(results[p]) /\ read[p] \in Nat /\ Len(results[p]) \in Nat
    BY <2>1 DEF SwarmInv, BarrierInv, BP!TypeInv, BP!TypeOK, BP!ReadInBounds
  <2> QED
    BY <2>2
<1>4. results[p][j].round \in Dispatched(c)
  BY <1>2, <1>3, ConsumedAnswers
<1>5. f.round = results[p][j].round
  BY <1>2 DEF BP!Stored
<1>6. tasks[p][results[p][j].round].round = results[p][j].round
  <2>1. p \in Partitions /\ WP!LogOK(results, tasks)
    BY EventsAssumption DEF EventsAssumption, SwarmInv, WP!RelayInv
  <2>2. WP!ResultOK(results[p][j], tasks)
    BY <1>3, <2>1 DEF WP!LogOK
  <2> QED
    BY <1>2, <2>2 DEF WP!ResultOK
<1> QED
  BY <1>1, <1>4, <1>5, <1>6

(* The decisions rest on rows, the rows on results, the results on tasks.  *)
LEMMA InvBacks == SwarmInv => DecisionsAreBacked
<1> SUFFICES ASSUME SwarmInv, NEW k \in O!ClaimId, NEW n \in 1..Len(decisions[k])
             PROVE  LET p == decisions[k][n].row.part
                        row == synthesis[p][decisions[k][n].row.off + 1]
                    IN  /\ k \in {row.claim, Unknown}
                        /\ PartitionOf[row.claim] = p
                        /\ Cardinality(DOMAIN row.results) = B!Expected
                        /\ \A a \in DOMAIN row.results :
                             /\ B!Reported(row.claim, a, row.results[a])
                             /\ \E i \in Dispatched(row.claim) :
                                  tasks[p][i].round = row.results[a].round
  BY DEF DecisionsAreBacked
<1> DEFINE d == decisions[k][n]
           p == d.row.part
           i == d.row.off + 1
           row == synthesis[p][i]
<1>1. k \in OP!ClaimId
  BY DEF O!ClaimId, OP!ClaimId
<1>2. decisions \in [OP!ClaimId -> Seq(OP!DecisionFinal)] /\ OP!LogOK(decisions, synthesis)
  BY DEF SwarmInv, OP!IInv, OP!RowsInv
<1>3. d \in OP!DecisionFinal /\ d.claim = k /\ OP!DecisionOK(d, synthesis)
  BY <1>1, <1>2 DEF OP!LogOK
<1>4. p \in Partitions /\ d.row.off \in Nat
  BY <1>3 DEF OP!DecisionFinal, OP!Position
<1> HIDE DEF d
<1>5. /\ d.row.off < Len(synthesis[p])
      /\ row \in OP!SynthesisReady /\ OP!ClaimIdOf(row) = k
  BY <1>3 DEF OP!DecisionOK, OP!IsRowOf
<1>6. i \in 1..Len(synthesis[p])
  <2>1. synthesis \in [Partitions -> Seq(OP!Record)]
    BY DEF SwarmInv, OP!IInv, OP!LoopInv
  <2>2. Len(synthesis[p]) \in Nat
    BY <1>4, <2>1
  <2> QED
    BY <1>4, <1>5, <2>2
<1> HIDE DEF p, i
<1>7. PartitionOf[row.claim] = p /\ row.claim \in Claims
  BY <1>4, <1>5, <1>6 DEF SwarmInv, OP!RowsInv, OP!Placed, OP!SynthesisReady
<1>8. k \in {row.claim, Unknown}
  BY <1>5 DEF OP!ClaimIdOf
<1>9. BP!Cardinality(DOMAIN row.results) = BP!Expected
  BY <1>4, <1>6 DEF SwarmInv, BarrierInv, BP!RowsAreComplete
<1>10. \A a \in DOMAIN row.results : BP!Reported(row.claim, a, row.results[a])
  BY <1>4, <1>6 DEF SwarmInv, BarrierInv, BP!FindingsAreReported
<1> HIDE DEF row
<1>11. Cardinality(DOMAIN row.results) = B!Expected
  BY <1>9, CardinalityIs DEF B!Expected, BP!Expected
<1>12. \A a \in DOMAIN row.results :
         /\ B!Reported(row.claim, a, row.results[a])
         /\ \E j \in Dispatched(row.claim) : tasks[p][j].round = row.results[a].round
  BY <1>7, <1>10, ReportedAnswers
<1> QED
  BY <1>7, <1>8, <1>11, <1>12 DEF row, p, i, d

(* Every decision rests on a row that joins the expected number of agents, *)
(* each with a finding it reported for that claim in answer to a task that *)
(* was dispatched for it, through every topic and whatever crashed.        *)
THEOREM DecisionsBacked == Spec => []DecisionsAreBacked
  BY SwarmInvariant, InvBacks, PTL

-------------------------------------------------------------------------------
(* How many rows a claim has.                                              *)

(* The results published for claim c.                                      *)
ResultsFor(c) ==
  {j \in 1..Len(results[PartitionOf[c]]) : results[PartitionOf[c]][j].claim = c}

(* The agent and the task each of them answers.                            *)
AnsweredBy(c) ==
  [j \in ResultsFor(c) |->
     <<results[PartitionOf[c]][j].agent, results[PartitionOf[c]][j].round>>]

(* The answers beyond the first of an agent to a task, as the workers'     *)
(* invariant counts them.                                                  *)
Potential == WP!Pots(WP!Slot, WP!Told(results), proc, owner, acked)
(* ... one element for each.                                               *)
Surplus == WP!Extra(WP!Lane, Potential)

(* A result beyond the first of its agent for its task is one of these.    *)
LEMMA ResultsMarked ==
  ASSUME SwarmInv, NEW c \in Claims
  PROVE  WP!Marks(ResultsFor(c), Agents \X Dispatched(c), AnsweredBy(c), Surplus,
                  [y \in (Agents \X Dispatched(c)) \X Nat |->
                     <<<<y[1][1], PartitionOf[c]>>, y[1][2], y[2]>>])
<1> DEFINE p == PartitionOf[c]
           S == ResultsFor(c)
           D == Agents \X Dispatched(c)
           key == AnsweredBy(c)
           mark == [y \in D \X Nat |-> <<<<y[1][1], p>>, y[1][2], y[2]>>]
           F(d) == WP!Under(S, key, d)
<1>1. p \in Partitions /\ results \in [Partitions -> Seq(WP!Result)]
  BY EventsAssumption DEF EventsAssumption, SwarmInv, WP!IInv
<1>2. Dispatched(c) \subseteq Nat
  <2>1. tasks \in [Partitions -> Seq(WP!Record)]
    BY DEF SwarmInv, WP!IInv, WP!LoopInv
  <2>2. Len(tasks[p]) \in Nat
    BY <1>1, <2>1
  <2> QED
    BY <2>2 DEF Dispatched
<1>3. ASSUME NEW d \in D, NEW n \in 2..Cardinality(F(d))
      PROVE  mark[<<d, n>>] \in Surplus
  <2> DEFINE a == d[1]
             i == d[2]
             mine == WP!Reports(results, a, p, i)
  <2>1. a \in Agents /\ i \in Nat /\ d = <<a, i>>
    BY <1>2
  <2>2. IsFiniteSet(mine) /\ Cardinality(mine) \in Nat
    <3>1. WP!IsFiniteSet(mine) /\ WP!Cardinality(mine) \in Nat
      BY <1>1, <2>1, WP!ReportsFinite, WorkerFacts
    <3> HIDE DEF mine
    <3> QED
      BY <3>1, CardinalityIs
  <2>3. F(d) \subseteq mine
    <3>1. ASSUME NEW j \in S, key[j] = d
          PROVE  j \in 1..Len(results[p]) /\ results[p][j].agent = a /\ results[p][j].round = i
      BY <3>1 DEF ResultsFor, AnsweredBy
    <3> HIDE DEF S, key, D
    <3> QED
      BY <3>1 DEF WP!Under, WP!Reports
  <2> HIDE DEF mine, F
  <2>4. IsFiniteSet(F(d)) /\ Cardinality(F(d)) <= Cardinality(mine)
        /\ Cardinality(F(d)) \in Nat
    BY <2>2, <2>3, FS_Subset, FS_CardinalityType
  <2>5. n \in Nat /\ n \in 2..Cardinality(mine)
    BY <2>2, <2>4
  <2>6. <<<<a, p>>, i>> \in WP!Lane \X Nat
    BY <1>1, <2>1 DEF WP!Lane
  <2>7. Potential[<<<<a, p>>, i>>] =
          Cardinality(mine) + WP!Chances(WP!Slot, a, p, i, proc, owner, acked)
    <3>1. WP!Told(results)[<<<<a, p>>, i>>] = Cardinality(mine)
      <4>1. WP!Told(results)[<<<<a, p>>, i>>] = WP!Cardinality(mine)
        <5>1. WP!Told(results)[<<<<a, p>>, i>>] = WP!Cardinality(WP!Reports(results, a, p, i))
          <6>1. \A g \in Agents, q \in Partitions, m \in Nat :
                  WP!Told(results)[<<<<g, q>>, m>>] =
                    WP!Cardinality(WP!Reports(results, g, q, m))
            BY <1>1, WP!ToldType, WorkerFacts
          <6> HIDE DEF a, i
          <6> QED
            BY <1>1, <2>1, <6>1
        <5> QED
          BY <5>1 DEF mine
      <4> HIDE DEF a, i
      <4> QED
        BY <4>1, CardinalityIs
    <3> QED
      BY <2>6, <3>1 DEF Potential, WP!Pots
  <2>8. WP!Chances(WP!Slot, a, p, i, proc, owner, acked) \in Nat
    BY WP!ChancesNat, WorkerFacts
  <2>9. n \in 2..Potential[<<<<a, p>>, i>>]
    BY <2>2, <2>5, <2>7, <2>8
  <2>10. <<<<a, p>>, i, n>> \in Surplus
    BY <1>1, <2>1, <2>5, <2>9 DEF Surplus, WP!Extra, WP!Lane
  <2>11. mark[<<d, n>>] = <<<<a, p>>, i, n>>
    <3> HIDE DEF D
    <3> QED
      BY <2>5
  <2> QED
    BY <2>10, <2>11
<1>4. ASSUME NEW d \in D, NEW e \in D, NEW n \in Nat, NEW m \in Nat,
             mark[<<d, n>>] = mark[<<e, m>>]
      PROVE  d = e /\ n = m
  <2>1. /\ mark[<<d, n>>] = <<<<d[1], p>>, d[2], n>>
        /\ mark[<<e, m>>] = <<<<e[1], p>>, e[2], m>>
    <3> HIDE DEF D
    <3> QED
      OBVIOUS
  <2> HIDE DEF mark
  <2>2. d[1] = e[1] /\ d[2] = e[2] /\ n = m
    BY <1>4, <2>1
  <2>3. d = <<d[1], d[2]>> /\ e = <<e[1], e[2]>>
    OBVIOUS
  <2> QED
    BY <2>2, <2>3
<1>5. \A d \in D : WP!Cardinality(F(d)) = Cardinality(F(d))
  <2> HIDE DEF F, D
  <2> QED
    BY CardinalityIs
<1> HIDE DEF S, D, key, mark
<1>6. WP!Marks(S, D, key, Surplus, mark)
  BY <1>3, <1>4, <1>5 DEF WP!Marks
<1> QED
  BY <1>6 DEF S, D, key, mark

(* Workers answer a task of a claim once each, and again for a disruption. *)
LEMMA ResultsCounted ==
  ASSUME SwarmInv, NEW c \in Claims
  PROVE  /\ IsFiniteSet(ResultsFor(c))
         /\ Cardinality(Agents) \in Nat /\ Cardinality(Dispatched(c)) \in Nat
         /\ WP!Disruptions \in Nat
         /\ Cardinality(ResultsFor(c))
              <= Cardinality(Agents) * Cardinality(Dispatched(c)) + WP!Disruptions
<1> DEFINE p == PartitionOf[c]
           S == ResultsFor(c)
           T == Dispatched(c)
           D == Agents \X T
           key == AnsweredBy(c)
           mark == [y \in D \X Nat |-> <<<<y[1][1], p>>, y[1][2], y[2]>>]
<1>1. /\ p \in Partitions /\ results \in [Partitions -> Seq(WP!Result)]
      /\ tasks \in [Partitions -> Seq(WP!Record)]
  BY EventsAssumption DEF EventsAssumption, SwarmInv, WP!IInv, WP!LoopInv
<1>2. Len(results[p]) \in Nat /\ Len(tasks[p]) \in Nat
  BY <1>1
<1>3. IsFiniteSet(1..Len(results[p])) /\ IsFiniteSet(1..Len(tasks[p]))
  <2>1. \A n \in Nat : IsFiniteSet(1..n)
    BY FS_Interval
  <2> QED
    BY <1>2, <2>1
<1>4. IsFiniteSet(S) /\ IsFiniteSet(T) /\ IsFiniteSet(Agents)
  BY <1>3, FS_Subset, EventsAssumption DEF ResultsFor, Dispatched, EventsAssumption
<1>5. key \in [S -> D]
  <2>1. \A j \in S : results[p][j].agent \in Agents /\ results[p][j].round \in T
    BY ConsumedAnswers DEF ResultsFor
  <2> QED
    BY <2>1 DEF AnsweredBy
<1>6. IsFiniteSet(Surplus) /\ Cardinality(Surplus) <= WP!Disruptions
  <2>1. WP!IsFiniteSet(Surplus) /\ WP!Cardinality(Surplus) <= WP!Disruptions
    BY DEF SwarmInv, WP!RelayInv, WP!SurplusBounded, Surplus, Potential
  <2> QED
    BY <2>1, CardinalityIs
<1>7. WP!Disruptions \in Nat
  BY DEF SwarmInv, WP!IInv, WP!LoopInv, WP!LoopTypeOK, WP!Disruptions
<1>8. WP!Marks(S, D, key, Surplus, mark)
  BY ResultsMarked
<1> HIDE DEF S, T, key, mark
<1>9. IsFiniteSet(D) /\ Cardinality(D) = Cardinality(Agents) * Cardinality(T)
  BY <1>4, FS_Product
<1> HIDE DEF D
<1>10. WP!Cardinality(S) <= WP!Cardinality(D) + WP!Cardinality(Surplus)
  <2>1. WP!IsFiniteSet(S) /\ WP!IsFiniteSet(D) /\ WP!IsFiniteSet(Surplus)
    BY <1>4, <1>6, <1>9, CardinalityIs
  <2> QED
    BY <1>5, <1>8, <2>1, WP!CountByKey, WorkerFacts
<1>11. Cardinality(S) <= Cardinality(D) + Cardinality(Surplus)
  <2>1. /\ WP!Cardinality(S) = Cardinality(S) /\ WP!Cardinality(D) = Cardinality(D)
        /\ WP!Cardinality(Surplus) = Cardinality(Surplus)
    BY CardinalityIs
  <2> QED
    BY <1>10, <2>1
<1>12. /\ Cardinality(S) \in Nat /\ Cardinality(Surplus) \in Nat /\ Cardinality(D) \in Nat
       /\ Cardinality(Agents) \in Nat /\ Cardinality(T) \in Nat
  BY <1>4, <1>6, <1>9, FS_CardinalityType
<1>13. Cardinality(S) <= Cardinality(D) + WP!Disruptions
  <2> HIDE DEF WP!Disruptions
  <2> QED
    BY <1>6, <1>7, <1>11, <1>12
<1> QED
  BY <1>4, <1>7, <1>9, <1>12, <1>13 DEF S, T

(* The rows of a claim use up as many results as they join agents.         *)
LEMMA RowsUseResults ==
  ASSUME SwarmInv, NEW c \in Claims
  PROVE  /\ B!Expected * Cardinality(RowsOf(c)) \in Nat
         /\ B!Expected * Cardinality(RowsOf(c)) <= Cardinality(ResultsFor(c))
<1> DEFINE k == Cardinality(RowsOf(c))
           e == B!Expected
           used == Cardinality(BP!Consumed(c))
           waiting == Cardinality(DOMAIN responses[c])
           total == Cardinality(ResultsFor(c))
<1>1. B!Expected = BP!Expected /\ RowsOf(c) = BP!RowsOf(c)
  BY DEF B!Expected, BP!Expected, RowsOf, B!RowsOf, BP!RowsOf
<1>2. BP!TypeInv /\ BP!NoResultCountedTwice
  BY DEF SwarmInv, BarrierInv
<1>3. e * k + waiting <= used
  BY <1>1, <1>2, CardinalityIs DEF BP!NoResultCountedTwice
<1>4. e \in Nat /\ k \in Nat /\ used \in Nat /\ waiting \in Nat /\ e * k \in Nat
  <2>1. e \in Nat
    BY <1>1, BP!ExpectedType, BarrierFacts
  <2>2. BP!Cardinality(BP!Consumed(c)) \in Nat /\ BP!Cardinality(BP!RowsOf(c)) \in Nat
    BY <1>2, BP!ConsumedType, BarrierFacts
  <2>3. responses[c] \in BP!FindingMap
    BY <1>2 DEF BP!TypeInv, BP!TypeOK
  <2>4. BP!Cardinality(DOMAIN responses[c]) \in Nat
    BY <2>3, BP!FindingMapDomain, BarrierFacts
  <2>5. k \in Nat /\ used \in Nat /\ waiting \in Nat
    BY <1>1, <2>2, <2>4, CardinalityIs
  <2> HIDE DEF e, k
  <2> QED
    BY <2>1, <2>5
<1>5. used <= total /\ total \in Nat
  <2>1. BP!Consumed(c) \subseteq ResultsFor(c)
    <3>1. PartitionOf[c] \in Partitions
      BY EventsAssumption DEF EventsAssumption
    <3>2. /\ read[PartitionOf[c]] \in Nat /\ Len(results[PartitionOf[c]]) \in Nat
          /\ read[PartitionOf[c]] <= Len(results[PartitionOf[c]])
      BY <1>2, <3>1 DEF BP!TypeInv, BP!TypeOK, BP!ReadInBounds
    <3> QED
      BY <3>2 DEF BP!Consumed, ResultsFor
  <2> QED
    BY <2>1, ResultsCounted, FS_Subset, FS_CardinalityType
<1> HIDE DEF k, e, used, waiting, total
<1>6. e * k \in Nat /\ e * k <= total
  BY <1>3, <1>4, <1>5
<1> QED
  BY <1>6 DEF k, e, total

(* The rows of a claim use up results, the results are answers to tasks.   *)
LEMMA InvAccounts == SwarmInv => RowsAreAccountedFor
<1> SUFFICES ASSUME SwarmInv, NEW c \in Claims
             PROVE  B!Expected * Cardinality(RowsOf(c))
                      <= Cardinality(Agents) * Cardinality(Dispatched(c)) + W!Disruptions
  BY DEF RowsAreAccountedFor
<1> DEFINE used == B!Expected * Cardinality(RowsOf(c))
           total == Cardinality(ResultsFor(c))
           due == Cardinality(Agents) * Cardinality(Dispatched(c))
           d == WP!Disruptions
<1>1. W!Disruptions = d
  BY DEF W!Disruptions, WP!Disruptions
<1>2. used \in Nat /\ used <= total
  BY RowsUseResults
<1>3. total \in Nat /\ total <= due + d /\ due \in Nat /\ d \in Nat
  BY ResultsCounted, FS_CardinalityType
<1> HIDE DEF used, total, due, d
<1>4. used <= due + d
  BY <1>2, <1>3
<1> QED
  BY <1>1, <1>4 DEF used, due

(* The pipeline multiplies no work by itself: beyond one row per dispatch  *)
(* every row of a claim is paid for by as many disrupted workers as it     *)
(* joins agents, however results are retried, repeated or forgotten.       *)
THEOREM RowsAccounted == Spec => []RowsAreAccountedFor
  BY SwarmInvariant, InvAccounts, PTL

-------------------------------------------------------------------------------
(* Re-dispatches are decided fresh, as long as nothing goes wrong.         *)

(* The premise: every dispatch waited for the one before it to settle, no  *)
(* worker was disrupted, no delivery cut short, and nothing forgotten.     *)
Calm == ~overlapped /\ WP!Disruptions = 0 /\ trouble.faults = 0 /\ expiries = 0

(* The number of the last task of claim c's partition.                     *)
Latest(c) == Len(tasks[PartitionOf[c]])

(* The agents whose answer to that task the barrier has consumed for c.    *)
HeardOf(c) ==
  {a \in Agents : \E j \in BP!Consumed(c) :
     /\ results[PartitionOf[c]][j].agent = a
     /\ results[PartitionOf[c]][j].round = Latest(c)}

(* What the barrier has yet to consume answers the last task.              *)
UnreadFresh ==
  \A p \in Partitions : \A j \in 1..Len(results[p]) :
    j > read[p] => results[p][j].round = Len(tasks[p])

(* What waits for a claim answers the last task, and nobody who has        *)
(* answered it is missing -- or all have, and the row is out.              *)
WaitingFresh(c) ==
  /\ \A a \in DOMAIN responses[c] : responses[c][a].round = Latest(c)
  /\ \/ HeardOf(c) \subseteq DOMAIN responses[c]
     \/ DOMAIN responses[c] = {} /\ HeardOf(c) = Agents

(* No row joins answers to different tasks.                                *)
RowsFresh == \A p \in Partitions : \A i \in 1..Len(synthesis[p]) : SameRound(synthesis[p][i])

(* The inductive invariant.                                                *)
FreshInv ==
  Calm => WP!AtLast /\ UnreadFresh /\ (\A c \in Claims : WaitingFresh(c)) /\ RowsFresh

(* The calm before a calm state.                                           *)
LEMMA CalmBefore ==
  ASSUME SwarmInv, [Next]_vars, Calm'
  PROVE  /\ Calm
         /\ WorkerStep => trouble'.evictions = 0
         /\ \A c \in Claims : ~BP!Expire(c)
         /\ \A c \in Claims : Dispatch(c) => Settled(c)
<1>1. /\ overlapped' = FALSE /\ WP!Disruptions' = 0 /\ trouble'.faults = 0 /\ expiries' = 0
      /\ overlapped \in BOOLEAN /\ WP!IInv /\ expiries \in Nat
  BY DEF Calm, SwarmInv, BarrierInv, BP!TypeInv, BP!TypeOK
<1>2. ASSUME NEW c \in Claims, BP!Expire(c) PROVE FALSE
  BY <1>1, <1>2 DEF BP!Expire
<1>3. ASSUME NEW c \in Claims, Dispatch(c) PROVE Settled(c) /\ Calm
  BY <1>1, <1>3 DEF Dispatch, Calm, WP!Disruptions, workerVars, barrierVars
<1>4. CASE WorkerStep
  <2>1. WP!Step /\ UNCHANGED <<expiries, overlapped>>
    BY <1>4, WorkerSteps DEF WorkerStep, barrierVars
  <2>2. WP!Disruptions = 0 /\ trouble.faults = 0 /\ trouble'.evictions = 0
    BY <1>1, <2>1, WP!TroubleGrows, WorkerFacts
  <2> QED
    BY <1>1, <1>2, <1>3, <2>1, <2>2 DEF Calm
<1>5. CASE BarrierStep \/ OrchestratorStep \/ UNCHANGED vars
  <2>1. UNCHANGED <<trouble, overlapped>>
    BY <1>5 DEF BarrierStep, OrchestratorStep, vars, workerVars
  <2>2. expiries' = expiries
    <3>1. CASE BarrierStep
      BY <1>2, <3>1, BarrierSteps DEF BP!Eval
    <3>2. CASE OrchestratorStep \/ UNCHANGED vars
      BY <3>2 DEF OrchestratorStep, vars, barrierVars
    <3> QED
      BY <1>5, <3>1, <3>2
  <2>3. Calm
    BY <1>1, <2>1, <2>2 DEF Calm, WP!Disruptions
  <2>4. WorkerStep => trouble'.evictions = 0
    BY <1>1, WorkerSteps, WP!TroubleGrows, WorkerFacts
  <2> QED
    BY <1>2, <1>3, <2>3, <2>4
<1>6. WorkerStep => trouble'.evictions = 0
  BY <1>1, WorkerSteps, WP!TroubleGrows, WorkerFacts
<1> QED
  BY <1>2, <1>3, <1>4, <1>5, <1>6 DEF Next

(* What the barrier waits for, when it rests on nothing that has changed.  *)
LEMMA WaitingStays ==
  ASSUME SwarmInv, NEW c \in Claims, WaitingFresh(c), UNCHANGED <<read, responses>>,
         tasks'[PartitionOf[c]] = tasks[PartitionOf[c]],
         BP!Consumed(c)' = BP!Consumed(c),
         \A i \in BP!Consumed(c) :
           results'[PartitionOf[c]][i] = results[PartitionOf[c]][i]
  PROVE  WaitingFresh(c)'
<1>1. HeardOf(c)' = HeardOf(c) /\ Latest(c)' = Latest(c)
  BY DEF HeardOf, Latest
<1> QED
  BY <1>1 DEF WaitingFresh

(* A worker's step.                                                        *)
LEMMA FreshWorker ==
  ASSUME SwarmInv, FreshInv, Calm, WorkerStep, trouble'.evictions = 0
  PROVE  FreshInv'
<1>1. /\ WP!IInv /\ WP!RelayInv /\ BP!TypeInv /\ WP!AtLast /\ UnreadFresh
      /\ (\A c \in Claims : WaitingFresh(c)) /\ RowsFresh
  BY DEF SwarmInv, BarrierInv, FreshInv
<1>2. WP!Step /\ UNCHANGED <<synthesis, responses, read, expiries>>
  BY WorkerSteps DEF WorkerStep, barrierVars
<1>3. tasks' = tasks
  <2>1. PICK w \in Workers : WP!Progress(w) \/ WP!Deliver(w) \/ WP!Trouble(w)
    BY <1>2 DEF WP!Step
  <2> QED
    BY <2>1 DEF WP!Progress, WP!Trouble, WP!Receive, WP!Handle, WP!Raises, WP!Deliver
<1>4. WP!AtLast'
  BY <1>1, <1>2, WP!LastStep, WorkerFacts
<1>5. UnreadFresh'
  <2>1. CASE results' = results
    BY <1>1, <1>2, <1>3, <2>1 DEF UnreadFresh
  <2>2. ASSUME NEW res \in WP!Result, results' = WP!Published(results, res.claim, res),
               WP!LastTask(res, tasks)
        PROVE  UnreadFresh'
    <3> DEFINE q == PartitionOf[res.claim]
    <3>1. q \in Partitions /\ results \in [Partitions -> Seq(WP!Result)]
      BY <1>1, EventsAssumption DEF EventsAssumption, WP!Result, WP!IInv
    <3>2. results' = [results EXCEPT ![q] = Append(@, res)] /\ res.round = Len(tasks[q])
      BY <2>2 DEF WP!Published, WP!LastTask
    <3> HIDE DEF q
    <3>3. ASSUME NEW p \in Partitions, NEW j \in 1..Len(results'[p]), j > read[p]
          PROVE  results'[p][j].round = Len(tasks[p])
      <4>1. CASE j \in 1..Len(results[p])
        <5>1. results'[p][j] = results[p][j]
          BY <3>1, <3>2, <4>1
        <5> QED
          BY <1>1, <3>3, <4>1, <5>1 DEF UnreadFresh
      <4>2. CASE j \notin 1..Len(results[p])
        <5>1. p = q /\ results'[p][j] = res
          BY <3>1, <3>2, <4>2
        <5> QED
          BY <3>2, <5>1
      <4> QED
        BY <4>1, <4>2
    <3> QED
      BY <1>2, <1>3, <3>3 DEF UnreadFresh
  <2>3. \/ results' = results
        \/ \E res \in WP!Result : /\ results' = WP!Published(results, res.claim, res)
                                  /\ WP!LastTask(res, tasks)
    BY <1>1, <1>2, WP!LastPublished, WorkerFacts
  <2> QED
    BY <2>1, <2>2, <2>3
<1>6. ASSUME NEW c \in Claims PROVE WaitingFresh(c)'
  <2>1. BP!Fed \/ UNCHANGED BP!vars
    BY <1>1, WorkerFeeds
  <2>2. /\ BP!Consumed(c)' = BP!Consumed(c)
        /\ \A i \in BP!Consumed(c) : results'[PartitionOf[c]][i] = results[PartitionOf[c]][i]
    BY <1>1, <2>1, BP!OthersConsumeNothing, BarrierFacts
  <2> QED
    BY <1>1, <1>2, <1>3, <2>2, WaitingStays
<1>7. RowsFresh'
  BY <1>1, <1>2 DEF RowsFresh, SameRound
<1> QED
  BY <1>4, <1>5, <1>6, <1>7 DEF FreshInv

(* Who is waited with has been heard of.                                   *)
LEMMA WaitingHeard ==
  ASSUME SwarmInv, NEW c \in Claims, WaitingFresh(c)
  PROVE  DOMAIN responses[c] \subseteq HeardOf(c)
<1> SUFFICES ASSUME NEW a \in DOMAIN responses[c] PROVE a \in HeardOf(c)
  OBVIOUS
<1>1. BP!Reported(c, a, responses[c][a]) /\ responses[c][a].round = Latest(c)
  BY DEF SwarmInv, BarrierInv, BP!FindingsAreReported, WaitingFresh
<1>2. PICK j \in BP!Consumed(c) :
        LET res == results[PartitionOf[c]][j]
        IN  res.agent = a /\ BP!Stored(res) = responses[c][a]
  BY <1>1 DEF BP!Reported
<1>3. results[PartitionOf[c]][j].round = Latest(c)
  BY <1>1, <1>2 DEF BP!Stored
<1>4. a \in Agents
  <2>1. responses[c] \in BP!FindingMap
    BY DEF SwarmInv, BarrierInv, BP!TypeInv, BP!TypeOK
  <2> QED
    BY <2>1, BP!FindingMapDomain, BarrierFacts
<1> QED
  BY <1>2, <1>3, <1>4 DEF HeardOf

(* Nobody's answer to the last task was lost: once the partition is settled*)
(* and every agent is waited for, nothing waits for a claim any more.      *)
LEMMA SettledEmpty ==
  ASSUME SwarmInv, FreshInv, Calm, Cardinality(Agents) = BP!Expected,
         NEW c \in Claims, NEW k \in Claims, Settled(c), PartitionOf[k] = PartitionOf[c]
  PROVE  DOMAIN responses[k] = {}
<1> SUFFICES ASSUME NEW a \in DOMAIN responses[k] PROVE FALSE
  OBVIOUS
<1> DEFINE p == PartitionOf[c]
           last == Len(tasks[p])
<1>1. /\ p \in Partitions /\ read[p] = Len(results[p]) /\ \A g \in Agents : acked[g][p] = last
  BY EventsAssumption DEF EventsAssumption, Settled
<1>2. /\ WP!IInv /\ WP!RelayInv /\ BP!TypeInv /\ BP!FindingsAreReported
      /\ BP!RowsAreComplete /\ WaitingFresh(k) /\ trouble.faults = 0
  BY DEF SwarmInv, BarrierInv, FreshInv, Calm
<1>3. BP!Reported(k, a, responses[k][a]) /\ responses[k][a].round = last
  BY <1>2 DEF BP!FindingsAreReported, WaitingFresh, Latest
<1>4. PICK j \in BP!Consumed(k) : results[p][j].round = last /\ results[p][j].claim = k
  BY <1>3 DEF BP!Reported, BP!Stored, BP!Consumed
<1>5. j \in 1..Len(results[p])
  BY <1>1, <1>4 DEF BP!Consumed
<1>6. last \in 1..last /\ tasks[p][last] = [claim |-> k, round |-> last]
  <2>1. WP!ResultOK(results[p][j], tasks)
    BY <1>1, <1>2, <1>5 DEF WP!RelayInv, WP!LogOK
  <2> QED
    BY <1>4, <2>1 DEF WP!ResultOK
<1>7. tasks[p][last] \in WP!Task
  <2>1. tasks \in [Partitions -> Seq(WP!Record)]
    BY <1>2 DEF WP!IInv, WP!LoopInv
  <2>2. last \in Nat
    BY <1>1, <2>1
  <2>3. results[p][j] \in WP!Result
    BY <1>1, <1>2, <1>5 DEF WP!IInv
  <2>4. last \in WP!Round
    BY <1>4, <2>3 DEF WP!Result
  <2> HIDE DEF p, last
  <2> QED
    BY <1>6, <2>4 DEF WP!Task
<1>8. ASSUME NEW g \in Agents PROVE g \in HeardOf(k)
  <2>1. WP!Logged(tasks[p][last], g, results)
    BY <1>1, <1>2, <1>6, <1>7 DEF WP!IInv, WP!NothingLost
  <2>2. PICK n \in 1..Len(results[p]) : WP!Answers(results[p][n], tasks[p][last], g)
    BY <1>6, <2>1 DEF WP!Logged
  <2>3. results[p][n].claim = k /\ results[p][n].round = last /\ results[p][n].agent = g
    BY <1>6, <2>2 DEF WP!Answers
  <2>4. n \in BP!Consumed(k)
    BY <1>1, <2>3 DEF BP!Consumed
  <2> QED
    BY <2>3, <2>4 DEF HeardOf, Latest
<1>9. DOMAIN responses[k] = Agents
  <2>1. responses[k] \in BP!FindingMap
    BY <1>2 DEF BP!TypeInv, BP!TypeOK
  <2>2. DOMAIN responses[k] \subseteq Agents
    BY <2>1, BP!FindingMapDomain, BarrierFacts
  <2>3. Agents \subseteq HeardOf(k)
    BY <1>8
  <2> QED
    BY <1>2, <2>2, <2>3 DEF WaitingFresh
<1>10. Cardinality(DOMAIN responses[k]) < BP!Expected
  BY <1>2, CardinalityIs DEF BP!RowsAreComplete
<1>11. BP!Expected \in Nat
  BY BP!ExpectedType, BarrierFacts
<1> QED
  BY <1>9, <1>10, <1>11

(* The dispatch of a settled claim.                                        *)
LEMMA FreshDispatch ==
  ASSUME SwarmInv, FreshInv, Calm, Cardinality(Agents) = BP!Expected,
         NEW c \in Claims, Dispatch(c), Settled(c)
  PROVE  FreshInv'
<1> DEFINE p == PartitionOf[c]
           rec == [claim |-> c, round |-> Len(tasks[p]) + 1]
<1>1. /\ WP!IInv /\ WP!RelayInv /\ BP!TypeInv /\ WP!AtLast /\ UnreadFresh
      /\ (\A k \in Claims : WaitingFresh(k)) /\ RowsFresh
  BY DEF SwarmInv, BarrierInv, FreshInv
<1>2. /\ p \in Partitions /\ tasks' = [tasks EXCEPT ![p] = Append(@, rec)]
      /\ UNCHANGED <<results, synthesis, responses, read, owner, acked, proc, trouble>>
      /\ tasks \in [Partitions -> Seq(WP!Record)]
      /\ acked \in [Agents -> [Partitions -> Nat]]
  BY <1>1, EventsAssumption
  DEF EventsAssumption, Dispatch, Published, W!NextRound, workerVars, barrierVars,
      WP!IInv, WP!LoopInv, WP!LoopTypeOK
<1>3. /\ \A g \in Agents : acked[g][p] = Len(tasks[p])
      /\ \A w \in Workers : proc[w].out = <<>>
      /\ read[p] = Len(results[p])
  BY DEF Settled
<1> HIDE DEF rec
<1>4. /\ Len(tasks[p]) \in Nat /\ Len(tasks'[p]) = Len(tasks[p]) + 1
      /\ \A q \in Partitions : q # p => tasks'[q] = tasks[q]
      /\ \A q \in Partitions : Len(results[q]) \in Nat /\ Len(tasks[q]) \in Nat
      /\ \A q \in Partitions : read[q] \in Nat
  <2>1. /\ results \in [Partitions -> Seq(BP!Result)] /\ read \in [Partitions -> Nat]
    BY <1>1 DEF BP!TypeInv, BP!TypeOK
  <2>2. /\ p \in Partitions /\ tasks' = [tasks EXCEPT ![p] = Append(@, rec)]
        /\ tasks \in [Partitions -> Seq(WP!Record)]
    BY <1>2
  <2> HIDE DEF p
  <2>3. /\ Len(tasks[p]) \in Nat /\ tasks'[p] = Append(tasks[p], rec)
        /\ \A q \in Partitions : q # p => tasks'[q] = tasks[q]
    BY <2>2
  <2>4. Len(tasks'[p]) = Len(tasks[p]) + 1
    <3>1. tasks[p] \in Seq(WP!Record \cup {rec}) /\ rec \in WP!Record \cup {rec}
      BY <2>2
    <3> QED
      BY <2>3, <3>1
  <2>5. \A q \in Partitions :
          Len(results[q]) \in Nat /\ Len(tasks[q]) \in Nat /\ read[q] \in Nat
    BY <2>1, <2>2
  <2> QED
    BY <2>3, <2>4, <2>5
<1>5. WP!AtLast'
  <2>1. WP!HandsOwned(proc', owner')
    BY <1>1, <1>2 DEF WP!AtLast
  <2>2. ASSUME NEW g \in Agents, NEW q \in Partitions
        PROVE  Len(tasks'[q]) <= acked'[g][q] + 1
    <3>1. CASE q = p
      BY <1>2, <1>3, <1>4, <3>1
    <3>2. CASE q # p
      BY <1>1, <1>2, <1>4, <3>2 DEF WP!AtLast
    <3> QED
      BY <3>1, <3>2
  <2>3. \A w \in Workers : \A n \in 1..Len(proc'[w].out) : WP!LastTask(proc'[w].out[n], tasks')
    BY <1>2, <1>3
  <2> QED
    BY <2>1, <2>2, <2>3 DEF WP!AtLast
<1>6. UnreadFresh'
  <2>1. ASSUME NEW q \in Partitions, NEW j \in 1..Len(results[q]), j > read[q]
        PROVE  results[q][j].round = Len(tasks'[q])
    <3>1. q # p
      BY <1>3, <1>4, <2>1
    <3>2. results[q][j].round = Len(tasks[q])
      BY <1>1, <2>1 DEF UnreadFresh
    <3> QED
      BY <1>4, <3>1, <3>2
  <2> QED
    BY <1>2, <2>1 DEF UnreadFresh
<1>7. ASSUME NEW k \in Claims PROVE WaitingFresh(k)'
  <2>1. PartitionOf[k] \in Partitions /\ BP!Consumed(k)' = BP!Consumed(k)
    BY <1>2, EventsAssumption DEF EventsAssumption, BP!Consumed
  <2>2. CASE PartitionOf[k] # p
    BY <1>1, <1>2, <1>4, <2>1, <2>2, WaitingStays
  <2>3. CASE PartitionOf[k] = p
    <3>1. DOMAIN responses[k] = {}
      BY <2>3, SettledEmpty
    <3>2. ASSUME NEW j \in BP!Consumed(k) PROVE results[p][j].round # Len(tasks'[p])
      <4>1. j \in 1..Len(results[p]) /\ results[p][j].claim = k
        BY <1>3, <2>3 DEF BP!Consumed
      <4>2. WP!ResultOK(results[p][j], tasks)
        BY <1>1, <1>2, <4>1 DEF WP!RelayInv, WP!LogOK
      <4>3. results[p][j].round \in 1..Len(tasks[p])
        BY <2>3, <4>1, <4>2 DEF WP!ResultOK
      <4> HIDE DEF p
      <4> QED
        BY <1>4, <4>3
    <3>3. HeardOf(k)' = {}
      BY <1>2, <2>1, <2>3, <3>2 DEF HeardOf, Latest
    <3>4. DOMAIN responses'[k] = {}
      BY <1>2, <3>1
    <3> QED
      BY <3>3, <3>4 DEF WaitingFresh
  <2> QED
    BY <2>2, <2>3
<1>8. RowsFresh'
  <2>1. RowsFresh /\ synthesis' = synthesis
    BY <1>1, <1>2
  <2> QED
    BY <2>1 DEF RowsFresh, SameRound
<1> QED
  BY <1>5, <1>6, <1>7, <1>8 DEF FreshInv

(* An agent the barrier hears of was not heard of for this task before.    *)
LEMMA NewlyHeard ==
  ASSUME SwarmInv, FreshInv, Calm, NEW p \in Partitions, BP!Eval(p), BarrierStep,
         NEW res, res = results[p][read[p] + 1]
  PROVE  /\ PartitionOf[res.claim] = p /\ res.round = Latest(res.claim)
         /\ res.agent \notin HeardOf(res.claim)
         /\ HeardOf(res.claim)' = HeardOf(res.claim) \cup {res.agent}
         /\ \A k \in Claims \ {res.claim} : HeardOf(k)' = HeardOf(k)
         /\ \A k \in Claims : Latest(k)' = Latest(k)
<1> DEFINE n == read[p] + 1
           c == res.claim
           L == Len(tasks[p])
<1>1. WP!IInv /\ WP!RelayInv /\ BP!TypeInv /\ UnreadFresh /\ WP!Disruptions = 0
  BY DEF SwarmInv, BarrierInv, FreshInv, Calm
<1>2. /\ n \in 1..Len(results[p]) /\ read[p] \in Nat
      /\ c \in Claims /\ res.agent \in Agents
  BY <1>1, BP!EvalLemma, BarrierFacts
<1>3. PartitionOf[c] = p
  BY <1>1, <1>2 DEF BP!TypeInv, BP!ResultsPartitioned
<1>4. res.round = L
  BY <1>1, <1>2 DEF UnreadFresh
<1>5. /\ BP!Consumed(c)' = BP!Consumed(c) \cup {n}
      /\ \A i \in BP!Consumed(c) : i < n
      /\ \A k \in Claims : k # c => BP!Consumed(k)' = BP!Consumed(k)
      /\ results' = results
  BY <1>1, <1>2, BP!EvalConsumes, BarrierFacts
<1>6. tasks' = tasks
  BY DEF BarrierStep
<1> HIDE DEF n
<1>7. ASSUME NEW j \in BP!Consumed(c), results[p][j].agent = res.agent,
             results[p][j].round = L
      PROVE  FALSE
  <2>1. j \in 1..Len(results[p])
    <3>1. j \in 1..read[p] /\ read[p] <= Len(results[p]) /\ Len(results[p]) \in Nat
      BY <1>1, <1>3, <1>7 DEF BP!Consumed, BP!TypeInv, BP!TypeOK, BP!ReadInBounds
    <3> QED
      BY <1>2, <3>1
  <2>2. results[p][n].agent = results[p][j].agent /\ results[p][n].round = results[p][j].round
    BY <1>4, <1>7 DEF n
  <2>3. n = j
    BY <1>1, <1>2, <2>1, <2>2, WP!AnsweredOnce, WorkerFacts
  <2> QED
    BY <1>2, <1>5, <1>7, <2>3
<1>8. \A k \in Claims : Latest(k)' = Latest(k)
  BY <1>6 DEF Latest
<1>9. res.agent \notin HeardOf(c)
  BY <1>3, <1>7 DEF HeardOf, Latest
<1>10. HeardOf(c)' = HeardOf(c) \cup {res.agent}
  <2>1. results[PartitionOf[c]][n] = res /\ Latest(c) = L
    BY <1>3 DEF n, Latest
  <2> QED
    BY <1>2, <1>4, <1>5, <1>8, <2>1 DEF HeardOf
<1>11. \A k \in Claims \ {c} : HeardOf(k)' = HeardOf(k)
  BY <1>5, <1>8 DEF HeardOf
<1> QED
  BY <1>3, <1>4, <1>8, <1>9, <1>10, <1>11 DEF Latest

(* A result is consumed, and completes the row or waits.                   *)
LEMMA FreshEval ==
  ASSUME SwarmInv, FreshInv, Calm, Cardinality(Agents) = BP!Expected,
         NEW p \in Partitions, BP!Eval(p), BarrierStep,
         NEW res, res = results[p][read[p] + 1]
  PROVE  FreshInv'
<1> DEFINE c == res.claim
           new == BP!Put(responses[c], res.agent, BP!Stored(res))
           row == [claim |-> c, results |-> new]
<1>1. /\ BP!TypeInv /\ WP!AtLast /\ UnreadFresh
      /\ (\A k \in Claims : WaitingFresh(k)) /\ RowsFresh
  BY DEF SwarmInv, BarrierInv, FreshInv
<1>2. /\ c \in Claims /\ res.agent \in Agents /\ read[p] \in Nat
      /\ responses[c] \in BP!FindingMap /\ BP!Stored(res) \in BP!Finding
      /\ row \in BP!SynthesisReady /\ new \in BP!FindingMap
  BY <1>1, BP!EvalLemma, BarrierFacts
<1>3. /\ PartitionOf[c] = p /\ res.round = Latest(c)
      /\ res.agent \notin HeardOf(c)
      /\ HeardOf(c)' = HeardOf(c) \cup {res.agent}
      /\ \A k \in Claims \ {c} : HeardOf(k)' = HeardOf(k)
      /\ \A k \in Claims : Latest(k)' = Latest(k)
  BY NewlyHeard
<1>4. /\ results' = results /\ read' = [read EXCEPT ![p] = @ + 1]
      /\ UNCHANGED <<tasks, owner, acked, proc, trouble>>
      /\ \/ /\ BP!Complete(new)
            /\ synthesis' = BP!Published(synthesis, c, row)
            /\ responses' = [responses EXCEPT ![c] = BP!NoResponses]
         \/ /\ ~BP!Complete(new)
            /\ responses' = [responses EXCEPT ![c] = new]
            /\ UNCHANGED synthesis
  BY DEF BarrierStep, workerVars, BP!Eval, BP!Cleared
<1>5. /\ DOMAIN new = DOMAIN responses[c] \cup {res.agent}
      /\ new[res.agent] = BP!Stored(res)
      /\ \A a \in DOMAIN responses[c] \ {res.agent} : new[a] = responses[c][a]
      /\ DOMAIN new \subseteq Agents
  <2>1. /\ DOMAIN new = DOMAIN responses[c] \cup {res.agent}
        /\ new[res.agent] = BP!Stored(res)
        /\ \A a \in DOMAIN responses[c] \ {res.agent} : new[a] = responses[c][a]
    BY DEF BP!Put
  <2>2. DOMAIN new \subseteq Agents
    BY <1>2, BP!FindingMapDomain, BarrierFacts
  <2> QED
    BY <2>1, <2>2
<1>6. BP!Stored(res).round = Latest(c)
  BY <1>3 DEF BP!Stored
<1> HIDE DEF c, new
<1>7. HeardOf(c) \subseteq DOMAIN responses[c]
  BY <1>1, <1>2, <1>3 DEF WaitingFresh
<1>8. \A a \in DOMAIN new : new[a].round = Latest(c)
  BY <1>1, <1>2, <1>5, <1>6 DEF WaitingFresh
<1>9. BP!Complete(new) => DOMAIN new = Agents
  <2> SUFFICES ASSUME BP!Complete(new) PROVE DOMAIN new = Agents
    OBVIOUS
  <2>1. Cardinality(DOMAIN new) >= Cardinality(Agents)
    BY CardinalityIs DEF BP!Complete
  <2>2. IsFiniteSet(Agents)
    BY EventsAssumption DEF EventsAssumption
  <2>3. /\ IsFiniteSet(DOMAIN new) /\ Cardinality(DOMAIN new) \in Nat
        /\ Cardinality(Agents) \in Nat /\ Cardinality(DOMAIN new) <= Cardinality(Agents)
        /\ Cardinality(DOMAIN new) = Cardinality(Agents) => DOMAIN new = Agents
    BY <1>5, <2>2, FS_Subset, FS_CardinalityType
  <2> QED
    BY <2>1, <2>3
<1>10. HeardOf(c)' \subseteq DOMAIN new
  BY <1>3, <1>5, <1>7
<1>11. responses \in [Claims -> BP!FindingMap]
  BY <1>1 DEF BP!TypeInv, BP!TypeOK
<1>12. WaitingFresh(c)'
  <2>1. CASE BP!Complete(new)
    <3>1. DOMAIN responses'[c] = {}
      BY <1>2, <1>4, <1>11, <2>1, BP!NoResponsesType, BarrierFacts
    <3>2. HeardOf(c)' = Agents
      <4>1. responses[c] \in BP!FindingMap /\ DOMAIN responses[c] \subseteq HeardOf(c)
        BY <1>1, <1>2, WaitingHeard
      <4> QED
        BY <1>3, <1>5, <1>9, <1>10, <2>1, <4>1
    <3> QED
      BY <3>1, <3>2 DEF WaitingFresh
  <2>2. CASE ~BP!Complete(new)
    <3>1. responses'[c] = new
      BY <1>2, <1>4, <1>11, <2>2
    <3>2. Latest(c)' = Latest(c)
      BY <1>2, <1>3
    <3> QED
      BY <1>8, <1>10, <3>1, <3>2 DEF WaitingFresh
  <2> QED
    BY <2>1, <2>2
<1>13. ASSUME NEW k \in Claims, k # c PROVE WaitingFresh(k)'
  <2>1. responses'[k] = responses[k]
    BY <1>4, <1>11, <1>13
  <2>2. HeardOf(k)' = HeardOf(k) /\ Latest(k)' = Latest(k)
    BY <1>3, <1>13
  <2> QED
    BY <1>1, <2>1, <2>2 DEF WaitingFresh
<1>14. UnreadFresh'
  <2>1. ASSUME NEW q \in Partitions, NEW j \in 1..Len(results[q]), j > read'[q]
        PROVE  j > read[q]
    <3>1. read[q] \in Nat /\ (q = p => read'[q] = read[q] + 1) /\ (q # p => read'[q] = read[q])
      BY <1>1, <1>4 DEF BP!TypeInv, BP!TypeOK
    <3> QED
      BY <2>1, <3>1
  <2> QED
    BY <1>1, <1>4, <2>1 DEF UnreadFresh
<1>15. WP!AtLast'
  BY <1>1, <1>4 DEF WP!AtLast, WP!HandsOwned, WP!LastTask
<1>16. RowsFresh'
  <2>1. CASE BP!Complete(new)
    <3>1. SameRound(row)
      BY <1>8 DEF SameRound
    <3> HIDE DEF row
    <3>2. ASSUME NEW q \in Partitions, NEW i \in 1..Len(synthesis'[q])
          PROVE  SameRound(synthesis'[q][i])
      <4>1. (i \in 1..Len(synthesis[q]) /\ synthesis'[q][i] = synthesis[q][i])
            \/ synthesis'[q][i] = row
        <5>1. synthesis \in [Partitions -> Seq(BP!SynthesisReady)]
          BY <1>1 DEF BP!TypeInv, BP!TypeOK
        <5>2. synthesis' = BP!Published(synthesis, c, row) /\ row \in BP!SynthesisReady
          BY <1>2, <1>4, <2>1
        <5>3. PartitionOf[c] \in Partitions
          BY <1>2, EventsAssumption DEF EventsAssumption
        <5>4. synthesis' = [synthesis EXCEPT ![PartitionOf[c]] = Append(@, row)]
          BY <5>2 DEF BP!Published
        <5> QED
          BY <5>1, <5>2, <5>3, <5>4
      <4> QED
        BY <1>1, <3>1, <4>1 DEF RowsFresh
    <3> QED
      BY <3>2 DEF RowsFresh, SameRound
  <2>2. CASE ~BP!Complete(new)
    <3>1. RowsFresh /\ synthesis' = synthesis
      BY <1>1, <1>4, <2>2
    <3> QED
      BY <3>1 DEF RowsFresh, SameRound
  <2> QED
    BY <2>1, <2>2
<1> QED
  <2>1. \A k \in Claims : WaitingFresh(k)'
    BY <1>12, <1>13
  <2> QED
    BY <1>14, <1>15, <1>16, <2>1 DEF FreshInv

(* The invariant is inductive.                                             *)
LEMMA FreshInit == Init => FreshInv
<1> SUFFICES ASSUME Init PROVE FreshInv
  OBVIOUS
<1>1. WP!Init /\ BP!Init
  BY SameInit DEF Init
<1>2. WP!AtLast
  BY <1>1 DEF WP!Init, WP!LoopInit, WP!Idle, WP!AtLast, WP!HandsOwned, WP!Busy
<1>3. UnreadFresh /\ RowsFresh
  BY <1>1 DEF BP!Init, UnreadFresh, RowsFresh
<1>4. ASSUME NEW c \in Claims PROVE WaitingFresh(c)
  <2>1. PartitionOf[c] \in Partitions
    BY EventsAssumption DEF EventsAssumption
  <2>2. BP!Consumed(c) = {} /\ DOMAIN responses[c] = {}
    BY <1>1, <2>1 DEF BP!Init, BP!Consumed, BP!NoResponses
  <2> QED
    BY <2>2 DEF WaitingFresh, HeardOf
<1> QED
  BY <1>2, <1>3, <1>4 DEF FreshInv

(* Every step keeps the invariant.                                         *)
LEMMA FreshNext ==
  Cardinality(Agents) = BP!Expected /\ SwarmInv /\ FreshInv /\ [Next]_vars => FreshInv'
<1> SUFFICES ASSUME Cardinality(Agents) = BP!Expected, SwarmInv, FreshInv, [Next]_vars, Calm'
             PROVE  FreshInv'
  BY DEF FreshInv
<1>1. /\ Calm
      /\ WorkerStep => trouble'.evictions = 0
      /\ \A c \in Claims : ~BP!Expire(c)
      /\ \A c \in Claims : Dispatch(c) => Settled(c)
  BY CalmBefore
<1>2. ASSUME NEW c \in Claims, Dispatch(c) PROVE FreshInv'
  BY <1>1, <1>2, FreshDispatch
<1>3. CASE WorkerStep
  BY <1>1, <1>3, FreshWorker
<1>4. CASE BarrierStep
  <2>1. PICK p \in Partitions : BP!Eval(p)
    BY <1>1, <1>4, BarrierSteps
  <2>2. PICK res : res = results[p][read[p] + 1]
    OBVIOUS
  <2> QED
    BY <1>1, <1>4, <2>1, <2>2, FreshEval
<1>5. CASE OrchestratorStep \/ UNCHANGED vars
  <2>1. UNCHANGED <<tasks, results, synthesis, owner, acked, proc, trouble,
                    responses, read, expiries, overlapped>>
    <3>1. CASE OrchestratorStep
      BY <3>1, OrchestratorEmitsNoRow DEF OrchestratorStep, workerVars, barrierVars
    <3>2. CASE UNCHANGED vars
      BY <3>2 DEF vars, workerVars, barrierVars
    <3> QED
      BY <1>5, <3>1, <3>2
  <2>2. WP!AtLast'
    BY <1>1, <2>1 DEF FreshInv, WP!AtLast, WP!HandsOwned, WP!LastTask
  <2>3. UnreadFresh' /\ RowsFresh'
    BY <1>1, <2>1 DEF FreshInv, UnreadFresh, RowsFresh, SameRound
  <2>4. ASSUME NEW c \in Claims PROVE WaitingFresh(c)'
    BY <1>1, <2>1, WaitingStays DEF FreshInv, BP!Consumed
  <2> QED
    BY <2>2, <2>3, <2>4 DEF FreshInv
<1> QED
  BY <1>2, <1>3, <1>4, <1>5 DEF Next

(* With fewer agents than the barrier expects there is no row at all.      *)
LEMMA NoRows ==
  ASSUME SwarmInv, Cardinality(Agents) < BP!Expected
  PROVE  RowsFresh
<1> SUFFICES ASSUME NEW p \in Partitions, NEW i \in 1..Len(synthesis[p])
             PROVE  FALSE
  BY DEF RowsFresh
<1> DEFINE map == synthesis[p][i].results
<1>1. Cardinality(DOMAIN map) = BP!Expected
  BY CardinalityIs DEF SwarmInv, BarrierInv, BP!RowsAreComplete
<1>2. map \in BP!FindingMap
  <2>1. synthesis[p][i] \in BP!SynthesisReady
    BY DEF SwarmInv, BarrierInv, BP!TypeInv, BP!TypeOK
  <2> QED
    BY <2>1 DEF BP!SynthesisReady
<1> HIDE DEF map
<1>3. DOMAIN map \subseteq Agents /\ IsFiniteSet(Agents)
  BY <1>2, BP!FindingMapDomain, BarrierFacts, EventsAssumption DEF EventsAssumption
<1>4. /\ Cardinality(DOMAIN map) <= Cardinality(Agents)
      /\ Cardinality(DOMAIN map) \in Nat /\ Cardinality(Agents) \in Nat
  BY <1>3, FS_Subset, FS_CardinalityType
<1>5. BP!Expected \in Nat
  BY BP!ExpectedType, BarrierFacts
<1> QED
  BY <1>1, <1>4, <1>5

(* Re-dispatching a settled claim is decided fresh while the workers are   *)
(* undisturbed and the TTL does not strike, provided the barrier expects no*)
(* fewer agents than there are: had it fewer to wait for, the last agent's *)
(* answer would be left behind and joined to the next dispatch's.          *)
THEOREM FreshRows ==
  ASSUME Cardinality(Agents) <= B!Expected
  PROVE  Spec => []FreshUnlessDisturbed
<1>1. RowsFresh => FreshUnlessDisturbed
  BY DEF RowsFresh, FreshUnlessDisturbed
<1>2. Calm <=> (~overlapped /\ W!Disruptions = 0 /\ trouble.faults = 0 /\ expiries = 0)
  BY DEF Calm, WP!Disruptions, W!Disruptions
<1>3. FreshInv => FreshUnlessDisturbed
  BY <1>1, <1>2 DEF FreshInv, FreshUnlessDisturbed
<1>4. B!Expected = BP!Expected /\ BP!Expected \in Nat /\ Cardinality(Agents) \in Nat
  BY BP!ExpectedType, BarrierFacts, EventsAssumption, FS_CardinalityType
  DEF B!Expected, BP!Expected, EventsAssumption
<1>5. CASE Cardinality(Agents) = BP!Expected
  <2>1. SwarmInv /\ FreshInv /\ [Next]_vars => FreshInv'
    BY <1>5, FreshNext
  <2> QED
    BY <1>3, <2>1, FreshInit, SwarmInvariant, PTL DEF Spec
<1>6. CASE Cardinality(Agents) < BP!Expected
  <2>1. SwarmInv => FreshUnlessDisturbed
    BY <1>1, <1>6, NoRows
  <2> QED
    BY <2>1, SwarmInvariant, PTL
<1> QED
  BY <1>4, <1>5, <1>6

-------------------------------------------------------------------------------
(* The swarm implements Adjudication.                                      *)

(* The inductive invariant: only tasks are dispatched, and the orchestrator*)
(* decides as often as OrchestratorProofs says, whoever feeds it.          *)
LedgerInv ==
  /\ SwarmInv
  /\ tasks \in [Partitions -> Seq(Task)]
  /\ OP!OnceInv /\ OP!SurplusInv

(* It holds at first.                                                      *)
LEMMA LedgerInit == Init => LedgerInv
<1> SUFFICES ASSUME Init PROVE LedgerInv
  OBVIOUS
<1>1. WP!Init /\ OP!Init /\ SwarmInv
  BY SameInit, SwarmInit DEF Init
<1>2. OP!OnceInv /\ OP!SurplusInv
  BY <1>1, OP!OnceInit, OP!SurplusInit, OrchestratorFacts
<1>3. tasks \in [Partitions -> Seq(Task)]
  BY <1>1 DEF WP!Init, WP!LoopInit
<1> QED
  BY <1>1, <1>2, <1>3 DEF LedgerInv

(* Only a dispatch adds to the topic of tasks.                             *)
LEMMA TasksKept ==
  ASSUME [Next]_vars, \A c \in Claims : ~Dispatch(c)
  PROVE  tasks' = tasks
<1>1. CASE WorkerStep
  <2>1. PICK w \in Workers : WP!Progress(w) \/ WP!Deliver(w) \/ WP!Trouble(w)
    BY <1>1, WorkerSteps DEF WP!Step
  <2> QED
    BY <2>1 DEF WP!Progress, WP!Trouble, WP!Receive, WP!Handle, WP!Raises, WP!Deliver
<1> QED
  BY <1>1 DEF Next, BarrierStep, OrchestratorStep, vars

(* The task that a dispatch adds.                                          *)
LEMMA DispatchFacts ==
  ASSUME SwarmInv, NEW c \in Claims, Dispatch(c)
  PROVE  LET n == Len(tasks[PartitionOf[c]]) + 1
         IN  /\ Len(tasks[PartitionOf[c]]) \in Nat /\ n \in Round
             /\ [claim |-> c, round |-> n] \in Task
             /\ tasks' = Published(tasks, c, [claim |-> c, round |-> n])
<1>1. PartitionOf[c] \in Partitions /\ MaxRounds \in Nat
  BY EventsAssumption DEF EventsAssumption
<1>2. tasks \in [Partitions -> Seq(WP!Record)]
  BY DEF SwarmInv, WP!IInv, WP!LoopInv
<1>3. Len(tasks[PartitionOf[c]]) \in Nat /\ Len(tasks[PartitionOf[c]]) + 1 <= MaxRounds
  BY <1>1, <1>2 DEF Dispatch, W!NextRound
<1>4. Len(tasks[PartitionOf[c]]) + 1 \in Round
  BY <1>1, <1>3 DEF Round
<1> QED
  BY <1>3, <1>4 DEF Task, Dispatch, W!NextRound

(* Every step keeps it.                                                    *)
LEMMA LedgerNext == LedgerInv /\ [Next]_vars => LedgerInv'
<1> SUFFICES ASSUME LedgerInv, [Next]_vars PROVE LedgerInv'
  OBVIOUS
<1>1. SwarmInv /\ SwarmInv' /\ OP!OnceInv /\ OP!SurplusInv
  BY SwarmNext DEF LedgerInv
<1>2. OP!IInv /\ OP!RowsInv /\ OP!IInv' /\ OP!RowsInv'
  BY <1>1 DEF SwarmInv
<1>3. OP!Fed \/ [OP!Next]_OP!vars
  BY <1>1, Parts DEF SwarmInv, BarrierInv
<1>4. OP!OnceInv'
  BY <1>1, <1>2, <1>3, OP!FedOnce, OP!OnceNext, OrchestratorFacts
<1>5. OP!SurplusInv'
  <2>1. CASE OP!Fed
    <3>1. UNCHANGED <<decisions, oowner, oacked, oproc, otrouble>>
      BY <2>1 DEF OP!Fed, OP!ownVars, OP!loopVars
    <3>2. OP!Disruptions' = OP!Disruptions /\ OP!QueuesOK(OP!RowNo)' = OP!QueuesOK(OP!RowNo)
      BY <3>1 DEF OP!Disruptions, OP!QueuesOK
    <3> QED
      BY <1>1, <3>1, <3>2 DEF OP!SurplusInv
  <2>2. CASE [OP!Next]_OP!vars
    BY <1>1, <1>2, <2>2, OP!SurplusNext, OrchestratorFacts
  <2> QED
    BY <1>3, <2>1, <2>2
<1>6. tasks' \in [Partitions -> Seq(Task)]
  <2>1. ASSUME NEW c \in Claims, Dispatch(c)
        PROVE  tasks' \in [Partitions -> Seq(Task)]
    <3> DEFINE rec == [claim |-> c, round |-> Len(tasks[PartitionOf[c]]) + 1]
    <3>1. rec \in Task /\ tasks' = Published(tasks, c, rec)
      BY <1>1, <2>1, DispatchFacts
    <3> HIDE DEF rec
    <3>2. PartitionOf[c] \in Partitions /\ tasks \in [Partitions -> Seq(Task)]
      BY EventsAssumption DEF EventsAssumption, LedgerInv
    <3> QED
      BY <3>1, <3>2 DEF Published
  <2> QED
    BY <2>1, TasksKept DEF LedgerInv
<1> QED
  BY <1>1, <1>4, <1>5, <1>6 DEF LedgerInv

(* An instance's Cardinality is the usual one, here too.                   *)
LEMMA AdjudicatedCardinality ==
  \A S : A!Cardinality(S) = Cardinality(S) /\ OP!Cardinality(S) = Cardinality(S)
BY DEF A!Cardinality, OP!Cardinality, Cardinality, A!IsFiniteSet, OP!IsFiniteSet, IsFiniteSet

(* A row joins what its agents reported for its claim, and no topic holds  *)
(* more records than those before it call for.                             *)
Paid ==
  /\ \A p \in Partitions : \A i \in 1..Len(synthesis[p]) :
       \A a \in DOMAIN synthesis[p][i].results :
         \E j \in A!About(results, synthesis[p][i].claim) :
           LET row == synthesis[p][i]
               res == results[PartitionOf[row.claim]][j]
           IN  res.agent = a /\ A!Entry(res) = row.results[a]
  /\ \A c \in Claims :
       /\ A!Cardinality(A!About(results, c))
            <= A!Cardinality(Agents) * A!Cardinality(A!About(tasks, c)) + W!Disruptions
       /\ B!Expected * A!Cardinality(A!About(synthesis, c))
            <= A!Cardinality(A!About(results, c))
       /\ Len(decisions[c]) <= A!Cardinality(A!RowsUnder(c)) + O!Disruptions
  /\ \A k \in Claims \cup {Unknown} : Len(decisions[k]) <= starts

(* The rows the orchestrator counts for a claim are those under its key.   *)
LEMMA RowsUnderAre ==
  ASSUME SwarmInv, NEW c \in Claims
  PROVE  OP!RowsFor(c, PartitionOf[c], Len(synthesis[PartitionOf[c]])) = A!RowsUnder(c)
<1> DEFINE p == PartitionOf[c]
<1>1. p \in Partitions /\ c # Unknown
  BY EventsAssumption DEF EventsAssumption
<1>2. ASSUME NEW i \in 1..Len(synthesis[p])
      PROVE  synthesis[p][i] \in OP!SynthesisReady
  <2>1. synthesis[p] \in Seq(BP!SynthesisReady)
    BY <1>1 DEF SwarmInv, BarrierInv, BP!TypeInv, BP!TypeOK
  <2> QED
    BY <2>1, SameSets
<1>3. \A i : OP!ClaimIdOf(synthesis[p][i]) = A!KeyOf(synthesis[p][i])
  BY DEF OP!ClaimIdOf, A!KeyOf
<1>4. \A i : A!KeyOf(synthesis[p][i]) = c => synthesis[p][i].claim = c
  BY <1>1 DEF A!KeyOf
<1> QED
  BY <1>2, <1>3, <1>4 DEF OP!RowsFor, A!RowsUnder, A!About

(* The invariant says so.                                                  *)
LEMMA InvPaid == LedgerInv => Paid
<1> SUFFICES ASSUME LedgerInv PROVE Paid
  OBVIOUS
<1>1. SwarmInv /\ OP!IInv /\ OP!RowsInv /\ OP!OnceInv /\ OP!SurplusInv
  BY DEF LedgerInv, SwarmInv
<1>2. W!Disruptions = WP!Disruptions /\ O!Disruptions = OP!Disruptions
  BY DEF W!Disruptions, WP!Disruptions, O!Disruptions, OP!Disruptions
<1>3. ASSUME NEW c \in Claims
      PROVE  /\ A!Cardinality(A!About(results, c))
                  <= A!Cardinality(Agents) * A!Cardinality(A!About(tasks, c)) + W!Disruptions
             /\ B!Expected * A!Cardinality(A!About(synthesis, c))
                  <= A!Cardinality(A!About(results, c))
  <2>1. /\ A!About(results, c) = ResultsFor(c) /\ A!About(tasks, c) = Dispatched(c)
        /\ A!About(synthesis, c) = RowsOf(c)
    BY DEF A!About, ResultsFor, Dispatched, RowsOf, B!RowsOf
  <2>2. Cardinality(ResultsFor(c))
          <= Cardinality(Agents) * Cardinality(Dispatched(c)) + W!Disruptions
    BY <1>1, <1>2, ResultsCounted
  <2>3. B!Expected * Cardinality(RowsOf(c)) <= Cardinality(ResultsFor(c))
    BY <1>1, RowsUseResults
  <2> QED
    BY <2>1, <2>2, <2>3, AdjudicatedCardinality
<1>4. ASSUME NEW k \in Claims \cup {Unknown}
      PROVE  /\ Len(decisions[k]) \in Nat /\ Len(decisions[k]) <= starts
             /\ Len(decisions[k]) <= OP!Taken(k) /\ OP!Taken(k) \in Nat
  <2>1. k \in OP!ClaimId
    BY DEF OP!ClaimId
  <2>2. Len(decisions[k]) \in Nat /\ starts \in Nat
    BY <1>1, <2>1 DEF OP!IInv
  <2>3. OP!Cardinality(OP!Adders(k)) \in Nat
    BY OP!AddersFinite, OrchestratorFacts
  <2>4. Len(decisions[k]) + OP!Cardinality(OP!Adders(k)) <= starts
    BY <1>1, <2>1 DEF OP!OnceInv
  <2>5. /\ OP!Taken(k) = Len(decisions[k]) + OP!Cardinality(OP!QueuedFor(k))
        /\ OP!Cardinality(OP!QueuedFor(k)) \in Nat
    <3>1. OP!Taken(k) = Len(decisions[k]) + OP!Cardinality(OP!QueuedFor(k))
      BY DEF OP!Taken, OP!QueuedFor
    <3>2. OP!Cardinality(OP!QueuedFor(k)) \in Nat
      BY <1>1, OP!QueuedOnce, OrchestratorFacts
    <3> QED
      BY <3>1, <3>2
  <2> QED
    BY <2>2, <2>3, <2>4, <2>5
<1>5. ASSUME NEW c \in Claims
      PROVE  Len(decisions[c]) <= A!Cardinality(A!RowsUnder(c)) + O!Disruptions
  <2> DEFINE rows == OP!RowsFor(c, PartitionOf[c], Len(synthesis[PartitionOf[c]]))
  <2>1. OP!Taken(c) <= OP!Cardinality(rows) + OP!Disruptions
    BY <1>1, OP!RepeatsCounted, OrchestratorFacts DEF OP!OnlyCrashesRepeatRows
  <2>2. OP!Cardinality(rows) = A!Cardinality(A!RowsUnder(c))
    BY <1>1, RowsUnderAre, AdjudicatedCardinality
  <2>3. A!Cardinality(A!RowsUnder(c)) \in Nat
    <3>1. A!RowsUnder(c) \subseteq RowsOf(c)
      BY DEF A!RowsUnder, A!About, RowsOf, B!RowsOf
    <3>2. IsFiniteSet(RowsOf(c))
      <4>1. synthesis[PartitionOf[c]] \in Seq(BP!SynthesisReady)
        BY <1>1, EventsAssumption
        DEF EventsAssumption, SwarmInv, BarrierInv, BP!TypeInv, BP!TypeOK
      <4>2. IsFiniteSet(1..Len(synthesis[PartitionOf[c]]))
        BY <4>1, FS_Interval
      <4> QED
        BY <4>2, FS_Subset DEF RowsOf, B!RowsOf
    <3> QED
      BY <3>1, <3>2, FS_Subset, FS_CardinalityType, AdjudicatedCardinality
  <2>4. OP!Disruptions \in Nat
    BY <1>1 DEF OP!IInv, OP!LoopInv, OP!LoopTypeOK, OP!Disruptions
  <2> HIDE DEF OP!Disruptions, rows
  <2> QED
    BY <1>2, <1>4, <2>1, <2>2, <2>3, <2>4
<1>6. ASSUME NEW p \in Partitions, NEW i \in 1..Len(synthesis[p]),
             NEW a \in DOMAIN synthesis[p][i].results
      PROVE  \E j \in A!About(results, synthesis[p][i].claim) :
               LET row == synthesis[p][i]
                   res == results[PartitionOf[row.claim]][j]
               IN  res.agent = a /\ A!Entry(res) = row.results[a]
  <2> DEFINE row == synthesis[p][i]
             q == PartitionOf[row.claim]
  <2>1. BP!TypeInv /\ BP!FindingsAreReported
    BY <1>1 DEF SwarmInv, BarrierInv
  <2>2. PICK j \in 1..read[q] : /\ results[q][j].claim = row.claim
                                 /\ results[q][j].agent = a
                                 /\ BP!Stored(results[q][j]) = row.results[a]
    BY <1>6, <2>1 DEF BP!FindingsAreReported, BP!Reported, BP!Consumed
  <2>3. q \in Partitions
    <3>1. synthesis[p][i] \in BP!SynthesisReady
      BY <1>6, <2>1 DEF BP!TypeInv, BP!TypeOK
    <3> QED
      BY <3>1, EventsAssumption DEF EventsAssumption, BP!SynthesisReady
  <2>4. j \in 1..Len(results[q])
    <3>1. read[q] \in Nat /\ read[q] <= Len(results[q]) /\ Len(results[q]) \in Nat
      BY <2>1, <2>3 DEF BP!TypeInv, BP!TypeOK, BP!ReadInBounds
    <3> QED
      BY <3>1
  <2>5. A!Entry(results[q][j]) = BP!Stored(results[q][j])
    BY DEF A!Entry, BP!Stored, A!FailureText, BP!FailureText
  <2>6. j \in A!About(results, row.claim)
    BY <2>2, <2>4 DEF A!About
  <2> HIDE DEF row
  <2>7. results[q][j].agent = a /\ A!Entry(results[q][j]) = row.results[a]
    BY <2>2, <2>5
  <2> QED
    BY <2>6, <2>7 DEF row
<1> QED
  BY <1>3, <1>4, <1>5, <1>6 DEF Paid

(* ... now and after the step.                                             *)
LEMMA PaidNext == (LedgerInv => Paid)'
  BY InvPaid, PTL

(* A dispatch is a fresh task of its claim.                                *)
LEMMA AdjudicatedDispatch ==
  ASSUME LedgerInv, NEW c \in Claims, Dispatch(c)
  PROVE  A!Dispatch(c)
<1> DEFINE p == PartitionOf[c]
           n == Len(tasks[p]) + 1
<1>1. /\ Len(tasks[p]) \in Nat /\ n \in A!Round
      /\ tasks' = A!Published(tasks, c, [claim |-> c, round |-> n])
  BY DispatchFacts DEF LedgerInv, A!Round, Round, A!Published, Published
<1>2. ASSUME NEW i \in A!About(tasks, c) PROVE tasks[p][i].round # n
  <2>1. p \in Partitions /\ i \in 1..Len(tasks[p]) /\ tasks[p] \in Seq(Task)
    BY EventsAssumption DEF EventsAssumption, A!About, LedgerInv
  <2>2. tasks[p][i] \in WP!Task
    BY <2>1, SameSets
  <2>3. tasks[p][i].round = i
    BY <2>1, <2>2 DEF LedgerInv, SwarmInv, WP!RelayInv, WP!Placed
  <2> QED
    BY <1>1, <2>1, <2>3
<1>3. UNCHANGED <<results, synthesis, decisions, W!Disruptions, O!Disruptions, starts>>
  BY DEF Dispatch, workerVars, orchestratorVars, W!Disruptions, O!Disruptions
<1> HIDE DEF n
<1> QED
  BY <1>1, <1>2, <1>3 DEF A!Dispatch

(* A result that a worker delivers is a report.                            *)
LEMMA AdjudicatedReport ==
  ASSUME LedgerInv, Paid', NEW w \in Workers, WP!Deliver(w),
         UNCHANGED <<synthesis, decisions, otrouble, starts>>
  PROVE  \E c \in Claims : A!Report(c)
<1> DEFINE res == Head(proc[w].out)
           c == res.claim
           p == PartitionOf[c]
           i == res.round
           task == [claim |-> c, round |-> i]
<1>1. /\ res \in WP!Result /\ WP!ResultOK(res, tasks) /\ res.agent = AgentOf[w]
      /\ UNCHANGED <<tasks, trouble>>
      /\ results' = WP!Published(results, c, res)
  BY WP!DeliverFacts, WorkerFacts DEF LedgerInv, SwarmInv
<1>2. res \in Result /\ c \in Claims /\ res.agent \in Agents
  <2>1. res \in Result
    BY <1>1, SameSets
  <2> QED
    BY <2>1 DEF Result
<1>3. i \in 1..Len(tasks[p]) /\ tasks[p][i] = task
  BY <1>1 DEF WP!ResultOK
<1>4. res \in A!ReportsOf(task, res.agent)
  <2>1. CASE res.status = "SUCCESS"
    <3>1. /\ res = [claim |-> c, agent |-> res.agent, status |-> "SUCCESS",
                   result |-> res.result, round |-> i]
          /\ res.result \in Texts
      BY <1>2, <2>1 DEF Result
    <3> QED
      BY <3>1 DEF A!ReportsOf, A!SuccessOf
  <2>2. CASE res.status # "SUCCESS"
    <3>1. res = [claim |-> c, agent |-> res.agent, status |-> "FAILURE",
                 result |-> "", round |-> i]
      BY <1>2, <2>2 DEF Result
    <3> QED
      BY <3>1 DEF A!ReportsOf, A!FailureOf
  <2> QED
    BY <2>1, <2>2
<1> HIDE DEF res
<1>5. i \in A!About(tasks, c)
  BY <1>3 DEF A!About
<1>6. results' = A!Published(results, c, res)
  BY <1>1 DEF WP!Published, A!Published
<1>7. A!Cardinality(A!About(results', c))
        <= A!Cardinality(Agents) * A!Cardinality(A!About(tasks, c)) + W!Disruptions
  <2>1. A!Cardinality(A!About(results', c))
          <= A!Cardinality(Agents) * A!Cardinality(A!About(tasks', c)) + W!Disruptions'
    BY <1>2 DEF Paid
  <2>2. tasks' = tasks /\ W!Disruptions' = W!Disruptions
    BY <1>1 DEF W!Disruptions
  <2> QED
    BY <2>1, <2>2
<1>8. UNCHANGED <<tasks, synthesis, decisions, W!Disruptions, O!Disruptions, starts>>
  BY <1>1 DEF W!Disruptions, O!Disruptions
<1>9. \E j \in A!About(tasks, c), a \in Agents :
        \E r \in A!ReportsOf(tasks[PartitionOf[c]][j], a) : results' = A!Published(results, c, r)
  BY <1>2, <1>3, <1>4, <1>5, <1>6
<1>10. A!Report(c)
  BY <1>7, <1>8, <1>9 DEF A!Report
<1> QED
  BY <1>2, <1>10

(* Any other step of a worker disrupts one, or is nothing.                 *)
LEMMA AdjudicatedWorker ==
  ASSUME LedgerInv, Paid', WorkerStep
  PROVE  A!Next \/ UNCHANGED A!vars
<1>1. PICK w \in Workers : WP!Progress(w) \/ WP!Deliver(w) \/ WP!Trouble(w)
  BY WorkerSteps DEF WP!Step
<1>2. UNCHANGED <<synthesis, decisions, otrouble, starts, O!Disruptions>>
  BY DEF WorkerStep, orchestratorVars, O!Disruptions
<1>3. W!Disruptions = WP!Disruptions /\ W!Disruptions' = WP!Disruptions'
  BY DEF W!Disruptions, WP!Disruptions
<1>4. CASE WP!Deliver(w)
  BY <1>2, <1>4, AdjudicatedReport DEF A!Next
<1>5. CASE (WP!Turn(w) \/ WP!Upset(w)) /\ UNCHANGED <<tasks, results>>
  <2>1. WP!LoopInv(WP!Record, WP!Result)
    BY DEF LedgerInv, SwarmInv, WP!IInv
  <2>2. WP!Disruptions' = WP!Disruptions \/ WP!Disruptions' = WP!Disruptions + 1
    BY <1>5, <2>1, WP!TurnTrouble, WorkerFacts
  <2>3. CASE WP!Disruptions' = WP!Disruptions
    BY <1>2, <1>3, <1>5, <2>3 DEF A!vars
  <2>4. CASE WP!Disruptions' = WP!Disruptions + 1
    <3>1. A!Disturb
      BY <1>2, <1>3, <1>5, <2>4 DEF A!Disturb
    <3> QED
      BY <3>1 DEF A!Next
  <2> QED
    BY <2>2, <2>3, <2>4
<1>6. CASE (\E p \in Partitions : WP!Receive(w, p)) \/ WP!Handle(w) \/ WP!Raises(w)
  <2>1. UNCHANGED <<tasks, results, trouble>>
    BY <1>6 DEF WP!Receive, WP!Poll, WP!Handle, WP!Produce, WP!Raises
  <2>2. UNCHANGED W!Disruptions
    BY <2>1 DEF W!Disruptions
  <2> QED
    BY <1>2, <2>1, <2>2 DEF A!vars
<1> QED
  BY <1>1, <1>4, <1>5, <1>6 DEF WP!Progress, WP!Trouble

(* A row that the barrier emits joins what was reported; the barrier does  *)
(* nothing else.                                                           *)
LEMMA AdjudicatedBarrier ==
  ASSUME LedgerInv, LedgerInv', Paid', BarrierStep
  PROVE  A!Next \/ UNCHANGED A!vars
<1>1. UNCHANGED <<tasks, results, decisions, W!Disruptions, O!Disruptions, starts>>
  <2>1. UNCHANGED <<tasks, decisions, trouble, otrouble, starts>>
    BY DEF BarrierStep, workerVars, orchestratorVars
  <2>2. results' = results
    BY BarrierSteps DEF BP!Eval, BP!Expire
  <2> QED
    BY <2>1, <2>2 DEF W!Disruptions, O!Disruptions
<1>2. CASE synthesis' = synthesis
  BY <1>1, <1>2 DEF A!vars
<1>3. ASSUME NEW p \in Partitions, BP!Eval(p), synthesis' # synthesis
      PROVE  \E c \in Claims : A!Join(c)
  <2> DEFINE res == results[p][read[p] + 1]
             c == res.claim
             f == BP!Put(responses[c], res.agent, BP!Stored(res))
             row == [claim |-> c, results |-> f]
             q == PartitionOf[c]
             last == Len(synthesis[q]) + 1
  <2>1. BP!TypeInv /\ BP!RowsAreComplete'
    BY DEF LedgerInv, SwarmInv, BarrierInv
  <2>2. c \in Claims /\ f \in BP!FindingMap /\ row \in BP!SynthesisReady
    BY <1>3, <2>1, BP!EvalLemma, BarrierFacts
  <2>3. synthesis' = BP!Published(synthesis, c, row)
    BY <1>3 DEF BP!Eval
  <2>4. q \in Partitions /\ synthesis \in [Partitions -> Seq(BP!SynthesisReady)]
    BY <2>1, <2>2, EventsAssumption DEF EventsAssumption, BP!TypeInv, BP!TypeOK
  <2> HIDE DEF row, c, q
  <2>5. synthesis' = [synthesis EXCEPT ![q] = Append(@, row)]
    BY <2>3 DEF BP!Published, q
  <2>6. last \in 1..Len(synthesis'[q]) /\ synthesis'[q][last] = row
    BY <2>2, <2>4, <2>5
  <2> HIDE DEF last
  <2>7. row.claim = c /\ row.results = f
    BY DEF row
  <2>8. A!Cardinality(DOMAIN f) = B!Expected
    <3>1. BP!Cardinality(DOMAIN synthesis'[q][last].results) = BP!Expected
      BY <2>1, <2>4, <2>6 DEF BP!RowsAreComplete
    <3>2. BP!Cardinality(DOMAIN f) = BP!Expected
      BY <2>6, <2>7, <3>1
    <3> HIDE DEF f
    <3> QED
      BY <3>2, CardinalityIs, AdjudicatedCardinality DEF B!Expected, BP!Expected
  <2>9. ASSUME NEW a \in DOMAIN f
        PROVE  \E j \in A!About(results, c) :
                 results[q][j].agent = a /\ A!Entry(results[q][j]) = f[a]
    <3>1. \A e \in DOMAIN synthesis'[q][last].results :
            \E j \in A!About(results', synthesis'[q][last].claim) :
              LET new == synthesis'[q][last]
                  seen == results'[PartitionOf[new.claim]][j]
              IN  seen.agent = e /\ A!Entry(seen) = new.results[e]
      BY <2>4, <2>6 DEF Paid
    <3>2. PICK j \in A!About(results', c) :
            results'[q][j].agent = a /\ A!Entry(results'[q][j]) = f[a]
      BY <2>6, <2>7, <2>9, <3>1 DEF q
    <3> QED
      BY <1>1, <3>2
  <2>10. f \in A!FindingMap
    BY <2>2 DEF A!FindingMap, A!Finding, A!Round, A!FailureText,
                BP!FindingMap, BP!Finding, BP!Round, BP!FailureText
  <2> HIDE DEF f
  <2>11. synthesis' = A!Published(synthesis, c, [claim |-> c, results |-> f])
    BY <2>5 DEF A!Published, q, row
  <2>12. B!Expected * A!Cardinality(A!About(synthesis', c)) <= A!Cardinality(A!About(results, c))
    <3>1. B!Expected * A!Cardinality(A!About(synthesis', c))
            <= A!Cardinality(A!About(results', c))
      BY <2>2 DEF Paid
    <3> QED
      BY <1>1, <3>1
  <2>13. \E g \in A!FindingMap :
           /\ A!Cardinality(DOMAIN g) = B!Expected
           /\ \A a \in DOMAIN g : \E j \in A!About(results, c) :
                 results[PartitionOf[c]][j].agent = a /\ A!Entry(results[PartitionOf[c]][j]) = g[a]
           /\ synthesis' = A!Published(synthesis, c, [claim |-> c, results |-> g])
    BY <2>8, <2>9, <2>10, <2>11 DEF q
  <2>14. A!Join(c)
    BY <1>1, <2>12, <2>13 DEF A!Join
  <2> QED
    BY <2>2, <2>14
<1>4. ASSUME NEW c \in Claims, BP!Expire(c) PROVE synthesis' = synthesis
  BY <1>4 DEF BP!Expire
<1> QED
  BY <1>2, <1>3, <1>4, BarrierSteps DEF A!Next

(* A decision that is delivered was taken from a row under its key.        *)
LEMMA AdjudicatedDecide ==
  ASSUME LedgerInv, Paid', NEW w \in Orchestrators, OP!Decide(w),
         UNCHANGED <<tasks, results, trouble>>
  PROVE  \E k \in Claims \cup {Unknown} : A!Decide(k)
<1> DEFINE head == Head(oproc[w].out)
           k == head.claim
           p == head.row.part
           i == head.row.off + 1
           row == synthesis[p][i]
           c == row.claim
<1>1. /\ head \in OP!DecisionFinal /\ p \in Partitions /\ head.row.off \in Nat
      /\ 1 \in 1..Len(oproc[w].out) /\ head = oproc[w].out[1]
      /\ UNCHANGED <<synthesis, otrouble, starts>>
  BY OP!DecideFacts, OrchestratorFacts DEF LedgerInv, SwarmInv
<1>2. decisions' = [decisions EXCEPT ![k] = Append(@, head)]
  BY DEF OP!Decide
<1>3. OP!DecisionOK(head, synthesis)
  BY <1>1 DEF LedgerInv, SwarmInv, OP!RowsInv, OP!OutOK
<1>4. head = [claim |-> k, row |-> [part |-> p, off |-> head.row.off]] /\ k \in Claims \cup {Unknown}
  BY <1>1 DEF OP!DecisionFinal, OP!Position
<1> HIDE DEF head
<1>5. /\ head.row.off < Len(synthesis[p])
      /\ row \in OP!SynthesisReady /\ OP!ClaimIdOf(row) = k
  BY <1>3 DEF OP!DecisionOK, OP!IsRowOf
<1>6. i \in 1..Len(synthesis[p]) /\ i - 1 = head.row.off
  <2>1. synthesis \in [Partitions -> Seq(OP!Record)]
    BY DEF LedgerInv, SwarmInv, OP!IInv, OP!LoopInv
  <2>2. \A q \in Partitions : Len(synthesis[q]) \in Nat
    BY <2>1
  <2> QED
    BY <1>1, <1>5, <2>2
<1> HIDE DEF p, i
<1>7. PartitionOf[c] = p /\ c \in Claims
  BY <1>1, <1>5, <1>6 DEF LedgerInv, SwarmInv, OP!RowsInv, OP!Placed, OP!SynthesisReady
<1>8. i \in A!About(synthesis, c) /\ A!KeyOf(synthesis[PartitionOf[c]][i]) = k
  BY <1>5, <1>6, <1>7 DEF A!About, A!KeyOf, OP!ClaimIdOf
<1>9. decisions' = [decisions EXCEPT ![k] =
        Append(@, [claim |-> k, row |-> [part |-> PartitionOf[c], off |-> i - 1]])]
  BY <1>2, <1>4, <1>6, <1>7
<1>10. UNCHANGED <<tasks, results, synthesis, W!Disruptions, O!Disruptions, starts>>
  BY <1>1 DEF W!Disruptions, O!Disruptions
<1>11. Len(decisions'[k]) <= starts
  BY <1>4, <1>10 DEF Paid
<1>12. k \in Claims =>
         Len(decisions'[k]) <= A!Cardinality(A!RowsUnder(k)) + O!Disruptions
  <2> SUFFICES ASSUME NEW d \in Claims, d = k
               PROVE  Len(decisions'[d]) <= A!Cardinality(A!RowsUnder(d)) + O!Disruptions
    OBVIOUS
  <2>1. Len(decisions'[d]) <= A!Cardinality(A!RowsUnder(d)') + O!Disruptions'
    BY DEF Paid
  <2>2. A!RowsUnder(d)' = A!RowsUnder(d)
    BY <1>10 DEF A!RowsUnder, A!About
  <2> QED
    BY <1>10, <2>1, <2>2
<1> HIDE DEF k, c
<1>13. \E d \in Claims : \E j \in A!About(synthesis, d) :
         /\ A!KeyOf(synthesis[PartitionOf[d]][j]) = k
         /\ decisions' = [decisions EXCEPT ![k] =
              Append(@, [claim |-> k, row |-> [part |-> PartitionOf[d], off |-> j - 1]])]
  BY <1>7, <1>8, <1>9
<1>14. A!Decide(k)
  BY <1>10, <1>11, <1>12, <1>13 DEF A!Decide
<1> QED
  BY <1>4, <1>14

(* Any other step of an orchestrator disrupts or starts one, or is nothing.*)
LEMMA AdjudicatedOrchestrator ==
  ASSUME LedgerInv, Paid', OrchestratorStep
  PROVE  A!Next \/ UNCHANGED A!vars
<1>1. PICK w \in Orchestrators : OP!Progress(w) \/ OP!Decide(w) \/ OP!Trouble(w)
  BY OrchestratorSteps DEF OP!Step
<1>2. UNCHANGED <<tasks, results, synthesis, trouble, W!Disruptions>>
  BY OrchestratorEmitsNoRow DEF OrchestratorStep, workerVars, W!Disruptions
<1>3. O!Disruptions = OP!Disruptions /\ O!Disruptions' = OP!Disruptions'
  BY DEF O!Disruptions, OP!Disruptions
<1>4. CASE OP!Decide(w)
  BY <1>2, <1>4, AdjudicatedDecide DEF A!Next
<1>5. CASE (OP!Turn(w) \/ OP!Upset(w)) /\ OP!Memory(w)
  <2>1. decisions' = decisions /\ synthesis' = synthesis
    BY <1>5 DEF OP!Memory
  <2>2. OP!LoopInv(OP!Record, OP!DecisionFinal)
    BY DEF LedgerInv, SwarmInv, OP!IInv
  <2>3. OP!Disruptions' = OP!Disruptions \/ OP!Disruptions' = OP!Disruptions + 1
    BY <1>5, <2>1, <2>2, OP!TurnTrouble, OrchestratorFacts
  <2>4. CASE oproc[w].pc # "down"
    <3>1. starts' = starts
      BY <1>5, <2>4 DEF OP!Memory
    <3>2. CASE OP!Disruptions' = OP!Disruptions
      BY <1>2, <1>3, <2>1, <3>1, <3>2 DEF A!vars
    <3>3. CASE OP!Disruptions' = OP!Disruptions + 1
      <4>1. A!Disturb
        BY <1>2, <1>3, <2>1, <3>1, <3>3 DEF A!Disturb
      <4> QED
        BY <4>1 DEF A!Next
    <3> QED
      BY <2>3, <3>2, <3>3
  <2>5. CASE oproc[w].pc = "down"
    <3>1. starts' = starts + 1
      BY <1>5, <2>5 DEF OP!Memory
    <3>2. oproc[w].out = <<>>
      BY <2>5 DEF LedgerInv, OP!OnceInv, OP!MemoryKept
    <3>3. UNCHANGED otrouble
      BY <1>5, <2>5, <3>2
      DEF OP!Turn, OP!Upset, OP!Start, OP!Assign, OP!AssignAt, OP!Revoke, OP!PollEmpty,
          OP!FlushDone, OP!Commit, OP!CommitRejected, OP!Close, OP!Evict, OP!Busy, OP!Crash,
          OP!RequestStop, OP!DeliveryFails, OP!Unqueue, OP!FlushTimeout
    <3>4. O!Disruptions' = O!Disruptions
      BY <3>3 DEF O!Disruptions
    <3>5. A!Disturb
      BY <1>2, <2>1, <3>1, <3>4 DEF A!Disturb
    <3> QED
      BY <3>5 DEF A!Next
  <2> QED
    BY <2>4, <2>5
<1>6. CASE (\E p \in Partitions : OP!Consume(w, p)) \/ OP!Synthesize(w) \/ OP!SynthesizeFails(w)
  <2>1. UNCHANGED <<decisions, starts, otrouble>>
    BY <1>6 DEF OP!Consume, OP!Poll, OP!Synthesize, OP!Produce, OP!SynthesizeFails
  <2>2. UNCHANGED O!Disruptions
    BY <2>1 DEF O!Disruptions
  <2> QED
    BY <1>2, <2>1, <2>2 DEF A!vars
<1> QED
  BY <1>1, <1>4, <1>5, <1>6 DEF OP!Progress, OP!Trouble

(* The swarm starts where Adjudication does.                               *)
LEMMA AdjudicatedInit == Init => A!Init
BY DEF Init, W!Init, W!LoopInit, B!Init, O!Init, O!LoopInit, O!ClaimId,
       W!Disruptions, O!Disruptions, A!Init

(* Every step of the swarm is one of Adjudication, or nothing to it.       *)
LEMMA AdjudicatedNext == LedgerInv /\ LedgerInv' /\ [Next]_vars => [A!Next]_A!vars
<1> SUFFICES ASSUME LedgerInv, LedgerInv', [Next]_vars PROVE A!Next \/ UNCHANGED A!vars
  OBVIOUS
<1>1. Paid'
  BY PaidNext
<1>2. ASSUME NEW c \in Claims, Dispatch(c) PROVE A!Next
  BY <1>2, AdjudicatedDispatch DEF A!Next
<1>3. CASE WorkerStep
  BY <1>1, <1>3, AdjudicatedWorker
<1>4. CASE BarrierStep
  BY <1>1, <1>4, AdjudicatedBarrier
<1>5. CASE OrchestratorStep
  BY <1>1, <1>5, AdjudicatedOrchestrator
<1>6. CASE UNCHANGED vars
  BY <1>6 DEF vars, workerVars, orchestratorVars, W!Disruptions, O!Disruptions, A!vars
<1> QED
  BY <1>2, <1>3, <1>4, <1>5, <1>6 DEF Next

(* The swarm implements Adjudication: whatever is interleaved, crashes, is *)
(* evicted, stopped, lost or forgotten, a record appears on a topic only   *)
(* when those before it call for it, and no more often than one dispatch,  *)
(* one agent, one row and one process each pay for -- or one disruption.   *)
THEOREM SwarmImplementsAdjudication == Spec => ImplementsAdjudication
  BY LedgerInit, LedgerNext, AdjudicatedInit, AdjudicatedNext, PTL
  DEF Spec, ImplementsAdjudication, A!Spec

===============================================================================
