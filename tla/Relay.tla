--------------------------------- MODULE Relay --------------------------------
(***************************************************************************)
(* What a consume-work-produce-commit loop promises (abstract): lanes of   *)
(* records, settled in order, each answered before it is settled -- at     *)
(* least once, and more often only at the price of a disruption.           *)
(*                                                                         *)
(* Worker and Orchestrator implement it.                                   *)
(***************************************************************************)
EXTENDS Naturals, Sequences, FiniteSets

CONSTANT Lanes   \* a consumer group and a partition of its topic

VARIABLES
  owed,          \* lane -> for each record: does it call for an answer?
  settled,       \* lane -> how many of its records are committed
  answers,       \* lane -> for each record: how often it was answered
  losses,        \* failures so far that may cost an answer
  disruptions    \* crashes and evictions so far, that may repeat one

vars == <<owed, settled, answers, losses, disruptions>>

Init ==
  /\ owed = [l \in Lanes |-> <<>>]
  /\ settled = [l \in Lanes |-> 0]
  /\ answers = [l \in Lanes |-> <<>>]
  /\ losses = 0
  /\ disruptions = 0

(* The records settled without the answer they called for.                 *)
Unanswered ==
  UNION {{<<l, i>> : i \in {n \in 1..settled[l] : owed[l][n] /\ answers[l][n] = 0}} :
           l \in Lanes}

(* The answers beyond the first of each record.                            *)
Repeats ==
  UNION {UNION {{<<l, i, n>> : n \in 2..answers[l][i]} : i \in DOMAIN answers[l]} :
           l \in Lanes}

-------------------------------------------------------------------------------

(* A record arrives, in each lane of S: a topic is a lane of every group   *)
(* that consumes it.                                                       *)
Accept(S) ==
  /\ \E b \in BOOLEAN :
       owed' = [l \in Lanes |-> IF l \in S THEN Append(owed[l], b) ELSE owed[l]]
  /\ answers' = [l \in Lanes |-> IF l \in S THEN Append(answers[l], 0) ELSE answers[l]]
  /\ UNCHANGED <<settled, losses, disruptions>>

Answer(l) ==
  /\ \E i \in 1..Len(owed[l]) : answers' = [answers EXCEPT ![l][i] = @ + 1]
  /\ Cardinality(Repeats') <= disruptions
  /\ UNCHANGED <<owed, settled, losses, disruptions>>

Settle(l) ==
  /\ settled[l] < Len(owed[l])
  /\ settled' = [settled EXCEPT ![l] = @ + 1]
  /\ Cardinality(Unanswered') <= losses
  /\ UNCHANGED <<owed, answers, losses, disruptions>>

Lose == losses' = losses + 1 /\ UNCHANGED <<owed, settled, answers, disruptions>>

Disrupt ==
  disruptions' = disruptions + 1 /\ UNCHANGED <<owed, settled, answers, losses>>

Next ==
  \/ \E S \in SUBSET Lanes : Accept(S)
  \/ \E l \in Lanes : Answer(l) \/ Settle(l)
  \/ Lose \/ Disrupt

Spec == Init /\ [][Next]_vars

===============================================================================
