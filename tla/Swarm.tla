--------------------------------- MODULE Swarm --------------------------------
(***************************************************************************)
(* The whole swarm: the dispatch command, the workers, the Flink barrier   *)
(* and the orchestrator, joined by the four topics.  They share nothing    *)
(* else: every step of the system is a step of one of them.                *)
(***************************************************************************)
EXTENDS Events, Integers

CONSTANTS
  Workers, AgentOf, NoProcess, NoMsg,                    \* see Loop and
  SchemaRegistry, BadKey,                                \* Worker
  MaxDisruptions, MaxStops, MaxFaults,
  ExpectedAgents, MaxExpiries,                           \* see AgentBarrier
  Orchestrators, MaxODisruptions, MaxOStops, MaxOFaults, \* see Loop and
  MaxFailures                                            \* Orchestrator

ASSUME SwarmAssumption ==
  /\ IsFiniteSet(Workers) /\ IsFiniteSet(Orchestrators)
  /\ AgentOf \in [Workers -> Agents]
  /\ NoProcess \notin Workers \cup Orchestrators
  /\ NoMsg \notin Position
  /\ BadPayload \notin Task \cup SynthesisReady
  /\ Tombstone \notin Task \cup SynthesisReady
  /\ BadKey \notin Task \cup {BadPayload, Tombstone}
  /\ SchemaRegistry \in BOOLEAN /\ ExpectedAgents \in Int
  /\ {MaxDisruptions, MaxStops, MaxFaults, MaxExpiries, MaxODisruptions,
      MaxOStops, MaxOFaults, MaxFailures} \subseteq Nat

VARIABLES
  tasks, results, synthesis, decisions,                  \* the topics
  owner, acked, proc, trouble,                           \* the workers' loops
  responses, read, expiries,                             \* the barrier
  oowner, oacked, oproc, otrouble,                       \* the orchestrator's
  decided, starts, failures,
  overlapped   \* was a claim ever dispatched before it was settled? (history)

Synthesizers == "flinkswarm-orchestrator"

W == INSTANCE Worker WITH
  input <- tasks, Processes <- Workers, Groups <- Agents, GroupOf <- AgentOf,
  Junk <- {}, MaxRecords <- 0,
  MaxTrouble <- MaxDisruptions + MaxStops + MaxFaults

B == INSTANCE AgentBarrier WITH MaxResults <- 0

O == INSTANCE Orchestrator WITH
  input <- synthesis, owner <- oowner, acked <- oacked, proc <- oproc,
  trouble <- otrouble, Processes <- Orchestrators, Groups <- {Synthesizers},
  GroupOf <- [o \in Orchestrators |-> Synthesizers],
  MaxDisruptions <- MaxODisruptions, MaxStops <- MaxOStops,
  MaxFaults <- MaxOFaults,
  MaxTrouble <- MaxODisruptions + MaxOStops + MaxOFaults, Junk <- {}, MaxRows <- 0

workerVars == <<owner, acked, proc, trouble>>
barrierVars == <<responses, read, expiries>>
orchestratorVars == <<oowner, oacked, oproc, otrouble, decided, starts, failures>>
vars == <<tasks, results, synthesis, decisions,
          workerVars, barrierVars, orchestratorVars, overlapped>>

Init == W!Init /\ B!Init /\ O!Init /\ overlapped = FALSE

-------------------------------------------------------------------------------

(* The dispatches of claim c, and the rows the barrier emitted for it.     *)
Dispatched(c) ==
  {i \in 1..Len(tasks[PartitionOf[c]]) : tasks[PartitionOf[c]][i].claim = c}

RowsOf(c) == B!RowsOf(c)

(* Nothing of claim c is on its way: its partition is settled on every leg.*)
Settled(c) ==
  LET p == PartitionOf[c]
  IN  /\ \A a \in Agents : acked[a][p] = Len(tasks[p])
      /\ \A w \in Workers : proc[w].out = <<>>
      /\ read[p] = Len(results[p])
      /\ O!Committed(p) = Len(synthesis[p])
      /\ \A o \in Orchestrators : oproc[o].out = <<>>

(* dispatch: one task on the topic.  (If its delivery fails or its flush   *)
(* times out nothing is published and nobody is told: a stuttering step.)  *)
Dispatch(c) ==
  /\ W!NextRound(PartitionOf[c]) <= MaxRounds
  /\ overlapped' = (overlapped \/ ~Settled(c))
  /\ tasks' = Published(tasks, c,
                [claim |-> c, round |-> W!NextRound(PartitionOf[c])])
  /\ UNCHANGED <<results, synthesis, decisions,
                 workerVars, barrierVars, orchestratorVars>>

WorkerStep ==
  W!Step /\ UNCHANGED <<synthesis, decisions, barrierVars, orchestratorVars,
                        overlapped>>

BarrierStep ==
  /\ \/ \E p \in Partitions : B!Eval(p)
     \/ \E c \in Claims : B!Expire(c)
  /\ UNCHANGED <<tasks, decisions, workerVars, orchestratorVars, overlapped>>

OrchestratorStep ==
  O!Step /\ UNCHANGED <<tasks, results, workerVars, barrierVars, overlapped>>

Next ==
  \/ \E c \in Claims : Dispatch(c)
  \/ WorkerStep \/ BarrierStep \/ OrchestratorStep

Spec == Init /\ [][Next]_vars

(* Every part keeps running; nobody has to dispatch.                       *)
FairSpec == Spec /\ W!Fairness /\ B!Fairness /\ O!Fairness

-------------------------------------------------------------------------------

(* Type correctness of every part.                                         *)
TypeOK == W!TypeOK /\ B!TypeOK /\ O!TypeOK /\ overlapped \in BOOLEAN

(* Provenance of a decision: it rests on a row of the barrier that joins   *)
(* the expected number of agents, each entry of which that agent reported  *)
(* for that claim, in answer to a task that was dispatched for it.         *)
DecisionsAreBacked ==
  \A k \in O!ClaimId : \A n \in 1..Len(decisions[k]) :
    LET p == decisions[k][n].row.part
        row == synthesis[p][decisions[k][n].row.off + 1]
    IN  /\ k \in {row.claim, Unknown}
        /\ PartitionOf[row.claim] = p
        /\ Cardinality(DOMAIN row.results) = B!Expected
        /\ \A a \in DOMAIN row.results :
             /\ B!Reported(row.claim, a, row.results[a])
             /\ \E i \in Dispatched(row.claim) :
                  tasks[p][i].round = row.results[a].round

(* The pipeline never multiplies work by itself: every row of a claim      *)
(* beyond one per dispatch is paid for by as many disrupted workers as it  *)
(* joins agents.                                                           *)
RowsAreAccountedFor ==
  \A c \in Claims :
    B!Expected * Cardinality(RowsOf(c))
      <= Cardinality(Agents) * Cardinality(Dispatched(c)) + W!Disruptions

(* The findings of a row all answer the same dispatch.                     *)
SameRound(row) ==
  \A a, b \in DOMAIN row.results : row.results[a].round = row.results[b].round

(* Re-dispatching a settled claim is adjudicated fresh, as long as no      *)
(* worker is disrupted, none of their deliveries is cut short and the TTL  *)
(* does not strike (each can leave one agent's old answer behind): no row  *)
(* joins an answer to the new dispatch with one to the old.                *)
FreshUnlessDisturbed ==
  ~overlapped /\ W!Disruptions = 0 /\ trouble.faults = 0 /\ expiries = 0 =>
    \A p \in Partitions : \A i \in 1..Len(synthesis[p]) : SameRound(synthesis[p][i])

(* The barrier's promise (AgentBarrier.java, class comment): a re-dispatch *)
(* of a settled claim is adjudicated fresh, and a duplicate or late result *)
(* for a decided claim is harmless.                                        *)
AlwaysFresh ==
  ~overlapped =>
    \A p \in Partitions : \A i \in 1..Len(synthesis[p]) : SameRound(synthesis[p][i])

(* README: re-dispatching the same claim_id is decided fresh -- every row  *)
(* of the claim the orchestrator has settled led to a decision of its own. *)
EveryRowDecided ==
  ~overlapped =>
    \A c \in Claims :
      Cardinality(O!RowsFor(c, PartitionOf[c], O!Committed(PartitionOf[c])))
        <= Len(decisions[c])

(* A dispatched claim is eventually decided, whatever crashes or is evicted*)
(* on the way, unless a delivery is lost, a synthesis raises or the TTL    *)
(* strikes.                                                                *)
EventuallyDecided ==
  \A c \in Claims :
    (Dispatched(c) # {})
      ~> (\/ decisions[c] # <<>>
          \/ trouble.faults + otrouble.faults + failures + expiries > 0)

(* The swarm implements Adjudication, which sees its topics and how often  *)
(* its processes were disrupted and started.                               *)
A == INSTANCE Adjudication WITH
  Expected <- B!Expected, disruptions <- W!Disruptions, repeats <- O!Disruptions

(* Adjudication's promise, of every step of the whole: a record appears on *)
(* a topic only when those before it call for it, and no more often than   *)
(* what went wrong pays for.                                               *)
ImplementsAdjudication == A!Spec

===============================================================================
