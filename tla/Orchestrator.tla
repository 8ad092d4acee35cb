----------------------------- MODULE Orchestrator -----------------------------
(***************************************************************************)
(* OrchestratorService (flinkswarm/orchestrator.py) consumes               *)
(* agent.synthesis.ready, asks its model for one decision per claim and    *)
(* produces it to agent.decisions.final.  Every process joins the one group*)
(* "flinkswarm-orchestrator": there is one (replicas: 1 in                 *)
(* k8s/deployment.yaml), and two during a rolling update.                  *)
(*                                                                         *)
(* input is agent.synthesis.ready.  The set _decided of claim ids is memory*)
(* of a process: it neither survives a restart, which resumes at the       *)
(* committed offsets, nor is it shared by two processes.                   *)
(***************************************************************************)
EXTENDS Loop

CONSTANTS
  Junk,          \* undecodable records others put on the synthesis topic
  MaxRows,       \* bound: rows published per partition by Env
  MaxFailures    \* bound: synthesis runs that raise

ASSUME OrchestratorAssumption ==
  /\ \E g \in Groups : Groups = {g}
  /\ Junk \subseteq {BadPayload, Tombstone}
  /\ BadPayload \notin SynthesisReady /\ Tombstone \notin SynthesisReady
  /\ MaxRows \in Nat /\ MaxFailures \in Nat

VARIABLES
  decisions,   \* agent.decisions.final: key -> sequence of decisions
  decided,     \* process -> the set _decided
  starts,      \* processes started so far (history)
  failures     \* synthesis runs that raised so far (history)

ownVars == <<decisions, loopVars, decided, starts, failures>>
vars == <<input, ownVars>>

(* What a decision is keyed by.                                            *)
ClaimId == Claims \cup {Unknown}

Init ==
  /\ LoopInit
  /\ decisions = [k \in ClaimId |-> <<>>]
  /\ decided = [w \in Processes |-> {}]
  /\ starts = 0 /\ failures = 0

-------------------------------------------------------------------------------

(* The row carries its claim id inside the payload.  A text that esc() left*)
(* with a raw control character makes the payload unparsable, and the      *)
(* claim id of an unparsable payload is "UNKNOWN".  (The row's value is    *)
(* taken to have no claim id of its own, as events.py says; a table whose  *)
(* value carries one, as setup_queries.sql says, never gets here.)         *)
ClaimIdOf(row) ==
  IF \E a \in DOMAIN row.results : row.results[a].text \in RawTexts
    THEN Unknown
    ELSE row.claim

(* Mutants: _decided is not looked at, or only whether it is empty.        *)
SkippedUndecodable(w, rec) == rec \in {BadPayload, Tombstone}

SkippedOnceDecided(w, rec) == rec \in {BadPayload, Tombstone} \/ decided[w] # {}

(* Null values, payloads that do not decode and claims that this process   *)
(* has decided before are only committed.                                  *)
Skipped(w, rec) ==
  \/ rec \in {BadPayload, Tombstone}
  \/ ClaimIdOf(rec) \in decided[w]

Consume(w, p) ==
  /\ Poll(w, p, IF Skipped(w, Peek(w, p)) THEN "commit" ELSE "work")
  /\ UNCHANGED <<input, decisions, decided, starts, failures>>

(* The decision of the row in hand.                                        *)
DecisionOf(w) == [claim |-> ClaimIdOf(InHand(w)), row |-> proc[w].msg]

(* Mutant: the event is remembered instead of its claim id.                *)
SynthesizeAddsEvent(w) ==
  /\ Produce(w, DecisionOf(w))
  /\ decided' = [decided EXCEPT ![w] = @ \cup {InHand(w)}]
  /\ UNCHANGED <<input, decisions, starts, failures>>

(* _synthesize returns: a decision is queued and the claim id remembered.  *)
Synthesize(w) ==
  /\ Produce(w, DecisionOf(w))
  /\ decided' = [decided EXCEPT ![w] = @ \cup {ClaimIdOf(InHand(w))}]
  /\ UNCHANGED <<input, decisions, starts, failures>>

(* _synthesize raises (the model, the codec or produce): only logged.      *)
SynthesizeFails(w) ==
  /\ proc[w].pc = "work"
  /\ failures < MaxFailures
  /\ failures' = failures + 1
  /\ Goto(w, "commit")
  /\ UNCHANGED <<input, decisions, owner, acked, trouble, decided, starts>>

(* The oldest decision of the producer's queue reaches the topic.          *)
Decide(w) ==
  /\ Sent(w)
  /\ decisions' = [decisions EXCEPT ![Head(proc[w].out).claim] =
                     Append(@, Head(proc[w].out))]
  /\ UNCHANGED <<input, decided, starts, failures>>

(* _decided is empty in a new process.                                     *)
Memory(w) ==
  /\ decided' = [decided EXCEPT ![w] = IF proc'[w].pc = "down" THEN {} ELSE @]
  /\ starts' = IF proc[w].pc = "down" THEN starts + 1 ELSE starts
  /\ UNCHANGED <<input, decisions, failures>>

Progress(w) ==
  \/ Turn(w) /\ Memory(w)
  \/ \E p \in Partitions : Consume(w, p)
  \/ Synthesize(w)

Trouble(w) == SynthesizeFails(w) \/ (Upset(w) /\ Memory(w))

Step == \E w \in Processes : Progress(w) \/ Decide(w) \/ Trouble(w)

(* The environment of the orchestrator on its own: rows of every agent's   *)
(* findings, re-emitted for the same claim too, and undecodable records.   *)
Env ==
  /\ \/ \E c \in Claims, f \in [Agents -> Finding] :
          /\ Len(input[PartitionOf[c]]) < MaxRows
          /\ input' = Published(input, c, [claim |-> c, results |-> f])
     \/ \E p \in Partitions, junk \in Junk :
          /\ Len(input[p]) < MaxRows
          /\ input' = [input EXCEPT ![p] = Append(@, junk)]
  /\ UNCHANGED ownVars

Next == Step \/ Env

Spec == Init /\ [][Next]_vars

(* A process is restarted and keeps polling, the model answers or raises,  *)
(* the broker is reachable.                                                *)
Fairness == \A w \in Processes : WF_vars(Progress(w)) /\ WF_vars(Decide(w))

FairSpec == Spec /\ Fairness

-------------------------------------------------------------------------------

(* Type correctness of the topics, the group and the processes.            *)
TypeOK ==
  /\ input \in [Partitions -> Seq(SynthesisReady \cup {BadPayload, Tombstone})]
  /\ decisions \in [ClaimId -> Seq(DecisionFinal)]
  /\ LoopTypeOK(DecisionFinal)
  /\ decided \in [Processes -> SUBSET ClaimId]
  /\ starts \in Nat /\ failures \in Nat

(* The committed offset of partition p.                                    *)
Committed(p) == acked[CHOOSE g \in Groups : TRUE][p]

(* The rows among the first n records of partition p that go by key k.     *)
RowsFor(k, p, n) ==
  {i \in 1..n : input[p][i] \in SynthesisReady /\ ClaimIdOf(input[p][i]) = k}

(* The decisions taken for key k: published, or queued.                    *)
Taken(k) ==
  Len(decisions[k]) +
  Cardinality(UNION {{<<w, i>> : i \in {n \in 1..Len(proc[w].out) :
                                          proc[w].out[n].claim = k}} :
                       w \in Processes})

(* _decided guards against a re-emit: one process decides a claim once, so *)
(* a claim has no more decisions than processes were started, one after the*)
(* other or, in a rolling update, side by side.                            *)
OneDecisionPerProcess == \A k \in ClaimId : Taken(k) <= starts

(* Only a crash or an eviction can make the orchestrator decide the same   *)
(* row again: a restart by SIGTERM commits the row in hand before it       *)
(* forgets _decided, and a rolling update hands partitions over in poll.   *)
OnlyCrashesRepeatRows ==
  \A c \in Claims :
    Taken(c) <= Cardinality(RowsFor(c, PartitionOf[c], Len(input[PartitionOf[c]])))
                  + Disruptions

(* At least once: unless a synthesis raised or a delivery was cut short, a *)
(* committed row leaves a decision under its claim id, whatever crashed.   *)
CommittedRowsDecided ==
  trouble.faults = 0 /\ failures = 0 =>
    \A k \in ClaimId, p \in Partitions :
      RowsFor(k, p, Committed(p)) # {} => decisions[k] # <<>>

(* What was forgotten is bounded: a key is left with committed rows and no *)
(* decision at the cost of a fault or of a failed synthesis each.          *)
ForgottenBounded ==
  Cardinality({k \in ClaimId :
                 /\ \E p \in Partitions : RowsFor(k, p, Committed(p)) # {}
                 /\ Taken(k) = 0}) <= trouble.faults + failures

(* Decisions of a claim follow the order of its rows, whatever crashes and *)
(* through a rolling update: unless a process was evicted or a delivery cut*)
(* short, no decision comes after one that was taken from a later row.     *)
DecisionsInRowOrder ==
  trouble.evictions = 0 /\ trouble.faults = 0 =>
    \A c \in Claims : \A i, j \in 1..Len(decisions[c]) :
      i < j => decisions[c][i].row.off <= decisions[c][j].row.off

(* Every row is eventually settled, undecodable ones and those whose       *)
(* synthesis raised included: none blocks its partition.                   *)
EveryRowSettled ==
  \A p \in Partitions : \A i \in 1..MaxRows :
    (Len(input[p]) >= i) ~> (Committed(p) >= i)

(* README: the orchestrator synthesizes a verdict once per claim -- every  *)
(* claim with a settled row has a decision that was taken from a row of it,*)
(* as long as nothing was lost and no synthesis raised.                    *)
EveryClaimDecided ==
  trouble.faults = 0 /\ failures = 0 =>
    \A c \in Claims, p \in Partitions :
      (\E i \in 1..Committed(p) :
         input[p][i] \in SynthesisReady /\ input[p][i].claim = c)
        => \E k \in ClaimId : \E n \in 1..Len(decisions[k]) :
             input[decisions[k][n].row.part][decisions[k][n].row.off + 1].claim = c

(* The orchestrator implements Relay: a lane is a partition, and a row is  *)
(* owed a decision when it is the first of its claim id.                   *)
FirstOfItsClaim(p, i) ==
  \E c \in Claims : i \in RowsFor(c, p, i) /\ RowsFor(c, p, i - 1) = {}

DecisionsOf(p, i) ==
  UNION {{<<k, n>> : n \in {m \in 1..Len(decisions[k]) :
                              decisions[k][m].row = [part |-> p, off |-> i - 1]}} :
           k \in ClaimId}

R == INSTANCE Relay WITH
  Lanes <- Partitions,
  owed <- [p \in Partitions |-> [i \in 1..Len(input[p]) |-> FirstOfItsClaim(p, i)]],
  settled <- [p \in Partitions |-> Committed(p)],
  answers <- [p \in Partitions |->
                [i \in 1..Len(input[p]) |-> Cardinality(DecisionsOf(p, i))]],
  losses <- trouble.faults + failures,
  disruptions <- Disruptions

(* Relay's promise: rows are committed in order, the first row of a claim  *)
(* is decided before it is committed or has cost a fault, and each crash or*)
(* eviction repeats one decision at most.                                  *)
ImplementsRelay == R!Spec

===============================================================================
