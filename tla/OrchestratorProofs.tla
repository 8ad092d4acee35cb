-------------------------- MODULE OrchestratorProofs --------------------------
(***************************************************************************)
(* Theorems about Orchestrator, for every number of processes, partitions, *)
(* claims and rows, and every bound on what goes wrong.                    *)
(***************************************************************************)
EXTENDS Orchestrator, LoopProofs

-------------------------------------------------------------------------------
(* The inductive invariant.                                                *)

(* What a synthesis topic holds.                                           *)
Record == SynthesisReady \cup {BadPayload, Tombstone}

(* Only rows are worked on.                                                *)
RowOK(r, topic) ==
  r.pc \in {"work", "flush"} => RecordOf(r, topic) \in SynthesisReady

(* A decision for key k is in a producer's queue.                          *)
Queued(k, out) == \E i \in 1..Len(out) : out[i].claim = k

(* What a process remembers to have decided is on the topic, unless it is  *)
(* just being flushed: this is why a row may be skipped and committed.     *)
MemoryOK(r, mem, log) ==
  \A k \in mem : log[k] # <<>> \/ (r.pc = "flush" /\ Queued(k, r.out))

(* A row that is ready to be committed has a decision for its claim id.    *)
DecidedOK(r, topic, log) ==
  RecordOf(r, topic) \in SynthesisReady =>
    LET k == ClaimIdOf(RecordOf(r, topic))
    IN  /\ r.pc = "commit" => log[k] # <<>>
        /\ r.pc = "flush" => log[k] # <<>> \/ Queued(k, r.out)

(* Every committed row has a decision for its claim id.                    *)
NothingForgotten(ack, topic, log) ==
  \A g \in Groups, p \in Partitions : \A i \in 1..ack[g][p] :
    topic[p][i] \in SynthesisReady => log[ClaimIdOf(topic[p][i])] # <<>>

(* Nothing was cut short and no synthesis raised.                          *)
Clean(t, f) == t.faults = 0 /\ f = 0

(* The inductive invariant.                                                *)
IInv ==
  /\ LoopInv(Record, DecisionFinal)
  /\ decisions \in [ClaimId -> Seq(DecisionFinal)]
  /\ decided \in [Processes -> SUBSET ClaimId]
  /\ starts \in Nat /\ failures \in Nat
  /\ \A w \in Processes : RowOK(proc[w], input)
  /\ Clean(trouble, failures) =>
       /\ \A w \in Processes : /\ MemoryOK(proc[w], decided[w], decisions)
                               /\ DecidedOK(proc[w], input, decisions)
       /\ NothingForgotten(acked, input, decisions)

(* The invariant says what the two properties do.                          *)
LEMMA InvImplies == IInv => TypeOK /\ CommittedRowsDecided
<1>1. IInv => TypeOK
  BY DEF IInv, LoopInv, TypeOK, Record
<1>2. IInv => CommittedRowsDecided
  <2> SUFFICES ASSUME IInv, trouble.faults = 0, failures = 0,
                      NEW k \in ClaimId, NEW p \in Partitions,
                      RowsFor(k, p, Committed(p)) # {}
               PROVE  decisions[k] # <<>>
    BY DEF CommittedRowsDecided
  <2>1. (CHOOSE g \in Groups : TRUE) \in Groups
    <3>1. Groups # {}
      BY OrchestratorAssumption DEF OrchestratorAssumption
    <3> QED
      BY <3>1
  <2>2. PICK i \in 1..Committed(p) :
          input[p][i] \in SynthesisReady /\ ClaimIdOf(input[p][i]) = k
    BY DEF RowsFor
  <2> DEFINE g == CHOOSE g \in Groups : TRUE
  <2>3. i \in 1..acked[g][p]
    BY <2>2 DEF Committed
  <2> HIDE DEF g
  <2>4. g \in Groups
    BY <2>1 DEF g
  <2>5. NothingForgotten(acked, input, decisions)
    BY DEF IInv, Clean
  <2> QED
    BY <2>2, <2>3, <2>4, <2>5 DEF NothingForgotten
<1> QED
  BY <1>1, <1>2

(* A row goes by its claim id or by "UNKNOWN".                             *)
LEMMA ClaimIdType ==
  ASSUME NEW row \in SynthesisReady
  PROVE  ClaimIdOf(row) \in ClaimId
<1>1. row.claim \in Claims
  BY DEF SynthesisReady
<1> QED
  BY <1>1 DEF ClaimIdOf, ClaimId

-------------------------------------------------------------------------------
(* The steps.                                                              *)

(* No decision is ever taken back.                                         *)
LogGrows(log, log2) == \A k \in ClaimId : log[k] # <<>> => log2[k] # <<>>

(* A step of w keeps what the others remember and have decided.            *)
LEMMA Frame ==
  ASSUME IInv, LoopInv(Record, DecisionFinal)', NEW w \in Processes, OthersRest(w),
         input' = input, decisions' \in [ClaimId -> Seq(DecisionFinal)],
         LogGrows(decisions, decisions'),
         decided' \in [Processes -> SUBSET ClaimId],
         \A v \in Processes \ {w} : decided'[v] = decided[v],
         starts' \in Nat, failures' \in Nat,
         RowOK(proc'[w], input),
         Clean(trouble', failures') =>
           /\ Clean(trouble, failures)
           /\ MemoryOK(proc'[w], decided'[w], decisions')
           /\ DecidedOK(proc'[w], input, decisions')
           /\ acked' = acked \/ NothingForgotten(acked', input, decisions')
  PROVE  IInv'
<1>1. /\ input \in [Partitions -> Seq(Record)]
      /\ acked \in [Groups -> [Partitions -> Nat]]
      /\ CommitsBounded(acked, input)
  BY DEF IInv, LoopInv, LoopTypeOK
<1>2. ASSUME NEW v \in Processes \ {w} PROVE RowOK(proc'[v], input)
  BY DEF IInv, OthersRest
<1>3. ASSUME Clean(trouble', failures'), NEW v \in Processes \ {w}
      PROVE  /\ MemoryOK(proc'[v], decided'[v], decisions')
             /\ DecidedOK(proc'[v], input, decisions')
  <2>1. /\ MemoryOK(proc[v], decided[v], decisions)
        /\ DecidedOK(proc[v], input, decisions)
        /\ proc'[v] = proc[v] /\ decided'[v] = decided[v]
        /\ decided[v] \subseteq ClaimId
    BY <1>3 DEF IInv, OthersRest
  <2>2. MemoryOK(proc[v], decided[v], decisions')
    BY <2>1 DEF MemoryOK, LogGrows
  <2>3. DecidedOK(proc[v], input, decisions')
    BY <2>1, ClaimIdType DEF DecidedOK, LogGrows
  <2> QED
    BY <2>1, <2>2, <2>3
<1>4. ASSUME Clean(trouble', failures') PROVE NothingForgotten(acked', input, decisions')
  <2> SUFFICES ASSUME acked' = acked, NothingForgotten(acked, input, decisions),
                      NEW g \in Groups, NEW p \in Partitions, NEW i \in 1..acked[g][p],
                      input[p][i] \in SynthesisReady
               PROVE  decisions'[ClaimIdOf(input[p][i])] # <<>>
    BY <1>4 DEF IInv, NothingForgotten
  <2>1. decisions[ClaimIdOf(input[p][i])] # <<>>
    BY DEF NothingForgotten
  <2> QED
    BY <2>1, ClaimIdType DEF LogGrows
<1> QED
  BY <1>2, <1>3, <1>4 DEF IInv

(* The loop's own steps commit only what is decided.                       *)
LEMMA TurnPreserves ==
  ASSUME IInv, NEW w \in Processes, Turn(w) \/ Upset(w), Memory(w)
  PROVE  IInv'
<1>1. LoopInv(Record, DecisionFinal)
  BY DEF IInv
<1>2. /\ UNCHANGED <<input, decisions, failures>>
      /\ decided' = [decided EXCEPT ![w] = IF proc'[w].pc = "down" THEN {} ELSE @]
      /\ starts' \in Nat
  BY DEF Memory, IInv
<1>3. /\ decisions \in [ClaimId -> Seq(DecisionFinal)] /\ failures \in Nat
      /\ decided \in [Processes -> SUBSET ClaimId]
      /\ RowOK(proc[w], input)
  BY DEF IInv
<1>4. /\ decided' \in [Processes -> SUBSET ClaimId]
      /\ \A v \in Processes \ {w} : decided'[v] = decided[v]
      /\ decided'[w] \subseteq decided[w]
      /\ proc'[w].pc = "down" => decided'[w] = {}
  BY <1>2, <1>3
<1>5. LoopInv(Record, DecisionFinal)' /\ Effect(w)
  BY <1>1, <1>2, TurnStep
<1>6. OthersRest(w) /\ (trouble'.faults = 0 => trouble.faults = 0)
  BY <1>5 DEF Effect
<1>7. LogGrows(decisions, decisions')
  BY <1>2 DEF LogGrows
<1>8. RowOK(proc'[w], input)
  <2>1. CASE Rests(w) \/ Flushes(w)
    BY <2>1 DEF Rests, Flushes, RowOK, Busy
  <2>2. CASE Keeps(w) \/ Loses(w)
    BY <1>3, <2>2 DEF Keeps, Loses, RowOK, RecordOf
  <2>3. CASE Commit(w)
    BY <1>1, <2>3, CommitLemma DEF RowOK, Busy
  <2> QED
    BY <1>5, <2>1, <2>2, <2>3 DEF Effect
<1>9. ASSUME Clean(trouble', failures')
      PROVE  /\ Clean(trouble, failures)
             /\ MemoryOK(proc'[w], decided'[w], decisions)
             /\ DecidedOK(proc'[w], input, decisions)
             /\ acked' = acked \/ NothingForgotten(acked', input, decisions)
  <2>1. Clean(trouble, failures)
    BY <1>2, <1>6, <1>9 DEF Clean
  <2>2. /\ MemoryOK(proc[w], decided[w], decisions)
        /\ DecidedOK(proc[w], input, decisions)
        /\ NothingForgotten(acked, input, decisions)
    BY <2>1 DEF IInv
  <2>3. CASE Rests(w)
    <3>1. MemoryOK(proc'[w], decided'[w], decisions)
      BY <1>4, <2>2, <2>3 DEF MemoryOK, Rests, Busy
    <3>2. DecidedOK(proc'[w], input, decisions)
      BY <2>3 DEF DecidedOK, Rests, Busy
    <3> QED
      BY <2>1, <2>3, <3>1, <3>2 DEF Rests
  <2>4. CASE Keeps(w)
    <3>1. MemoryOK(proc'[w], decided'[w], decisions)
      BY <1>4, <2>2, <2>4 DEF MemoryOK, Keeps
    <3>2. DecidedOK(proc'[w], input, decisions)
      BY <2>2, <2>4 DEF DecidedOK, Keeps, RecordOf
    <3> QED
      BY <2>1, <2>4, <3>1, <3>2 DEF Keeps
  <2>5. CASE Flushes(w)
    <3>1. \A k : ~Queued(k, proc[w].out)
      BY <1>9, <2>5 DEF Flushes, Queued, Clean
    <3>2. RecordOf(proc'[w], input) = RecordOf(proc[w], input)
      BY <2>5 DEF Flushes, RecordOf
    <3>3. MemoryOK(proc'[w], decided'[w], decisions)
      BY <1>4, <2>2, <3>1 DEF MemoryOK
    <3>4. DecidedOK(proc'[w], input, decisions)
      BY <2>2, <2>5, <3>1, <3>2 DEF DecidedOK, Flushes
    <3> QED
      BY <2>1, <2>5, <3>3, <3>4 DEF Flushes
  <2>6. CASE Loses(w)
    BY <1>9, <2>6 DEF Loses, Clean
  <2>7. CASE Commit(w)
    <3> DEFINE g == GroupOf[w]
               p == proc[w].msg.part
               off == proc[w].msg.off
    <3>1. /\ proc[w].pc = "commit" /\ proc'[w].pc \notin Busy
          /\ g \in Groups /\ p \in Partitions /\ off \in Nat /\ acked[g][p] = off
          /\ acked' \in [Groups -> [Partitions -> Nat]] /\ acked'[g][p] = off + 1
          /\ \A h \in Groups, q \in Partitions :
               h # g \/ q # p => acked'[h][q] = acked[h][q]
      BY <1>1, <2>7, CommitLemma
    <3>2. input[p][off + 1] \in SynthesisReady =>
            decisions[ClaimIdOf(input[p][off + 1])] # <<>>
      BY <2>2, <3>1 DEF DecidedOK, RecordOf
    <3>3. MemoryOK(proc'[w], decided'[w], decisions)
      BY <1>4, <2>2, <3>1 DEF MemoryOK
    <3>4. DecidedOK(proc'[w], input, decisions)
      BY <3>1 DEF DecidedOK, Busy
    <3> HIDE DEF g, p, off
    <3>5. ASSUME NEW h \in Groups, NEW q \in Partitions, NEW i \in 1..acked'[h][q],
                 input[q][i] \in SynthesisReady
          PROVE  decisions[ClaimIdOf(input[q][i])] # <<>>
      <4>1. CASE i \in 1..acked[h][q]
        BY <2>2, <3>5, <4>1 DEF NothingForgotten
      <4>2. CASE i \notin 1..acked[h][q]
        <5>1. h = g /\ q = p /\ i = off + 1
          BY <3>1, <4>2
        <5> QED
          BY <3>2, <3>5, <5>1
      <4> QED
        BY <4>1, <4>2
    <3> QED
      BY <2>1, <3>3, <3>4, <3>5 DEF NothingForgotten
  <2> QED
    BY <1>5, <2>3, <2>4, <2>5, <2>6, <2>7 DEF Effect
<1> QED
  BY <1>2, <1>3, <1>4, <1>5, <1>6, <1>7, <1>8, <1>9, Frame

(* A record that is skipped is no row, or its claim is decided.            *)
LEMMA ConsumePreserves ==
  ASSUME IInv, NEW w \in Processes, NEW p \in Partitions, Consume(w, p)
  PROVE  IInv'
<1>1. LoopInv(Record, DecisionFinal) /\ LoopTypeOK(DecisionFinal)
  BY DEF IInv, LoopInv
<1>2. PICK next \in {"work", "commit"} :
        Poll(w, p, next) /\ (next = "commit" <=> Skipped(w, Peek(w, p)))
  BY DEF Consume
<1>3. UNCHANGED <<input, decisions, decided, starts, failures>>
  BY DEF Consume
<1>4. LoopInv(Record, DecisionFinal)'
  BY <1>1, <1>2, <1>3, PollStep
<1>5. /\ OthersRest(w) /\ proc[w].pc = "poll" /\ proc'[w].pc = next
      /\ proc'[w].msg = [part |-> p, off |-> proc[w].cursor[p]]
      /\ proc[w].cursor[p] \in Nat /\ proc[w].cursor[p] < Len(input[p])
      /\ UNCHANGED <<acked, trouble>>
  BY <1>1, <1>2, PollLemma
<1> DEFINE rec == Peek(w, p)
<1>6. RecordOf(proc'[w], input) = rec /\ rec \in Record
  <2>1. input[p] \in Seq(Record)
    BY <1>1 DEF LoopInv
  <2>2. proc[w].cursor[p] + 1 \in 1..Len(input[p])
    BY <1>5, <2>1
  <2>3. input[p][proc[w].cursor[p] + 1] \in Record
    BY <2>1, <2>2
  <2> QED
    BY <1>5, <2>3 DEF RecordOf, Peek
<1>7. Skipped(w, rec) <=> rec \in {BadPayload, Tombstone} \/ ClaimIdOf(rec) \in decided[w]
  BY DEF Skipped
<1> HIDE DEF rec
<1>8. RowOK(proc'[w], input)
  BY <1>2, <1>5, <1>6, <1>7 DEF RowOK, Record, rec
<1>9. ASSUME Clean(trouble, failures)
      PROVE  /\ MemoryOK(proc'[w], decided[w], decisions)
             /\ DecidedOK(proc'[w], input, decisions)
  <2>1. \A k \in decided[w] : decisions[k] # <<>>
    BY <1>5, <1>9 DEF IInv, MemoryOK
  <2>2. rec \in SynthesisReady => rec \notin {BadPayload, Tombstone}
    BY OrchestratorAssumption DEF OrchestratorAssumption
  <2>3. DecidedOK(proc'[w], input, decisions)
    BY <1>2, <1>5, <1>6, <1>7, <2>1, <2>2 DEF DecidedOK, rec
  <2> QED
    BY <2>1, <2>3 DEF MemoryOK
<1>10. LogGrows(decisions, decisions')
  BY <1>3 DEF LogGrows
<1>11. /\ decisions \in [ClaimId -> Seq(DecisionFinal)]
       /\ decided \in [Processes -> SUBSET ClaimId]
       /\ starts \in Nat /\ failures \in Nat
  BY DEF IInv
<1> QED
  BY <1>3, <1>4, <1>5, <1>8, <1>9, <1>10, <1>11, Frame

(* The decision of the row in hand is queued before it is remembered.      *)
LEMMA SynthesizePreserves ==
  ASSUME IInv, NEW w \in Processes, Synthesize(w)
  PROVE  IInv'
<1> DEFINE row == InHand(w)
           k == ClaimIdOf(row)
           rec == DecisionOf(w)
<1>1. /\ LoopInv(Record, DecisionFinal) /\ LoopTypeOK(DecisionFinal)
      /\ RowOK(proc[w], input) /\ HandOK(proc[w], input)
      /\ decisions \in [ClaimId -> Seq(DecisionFinal)]
      /\ decided \in [Processes -> SUBSET ClaimId]
      /\ starts \in Nat /\ failures \in Nat
  BY DEF IInv, LoopInv
<1>2. /\ Produce(w, rec) /\ proc[w].pc = "work"
      /\ decided' = [decided EXCEPT ![w] = @ \cup {k}]
      /\ UNCHANGED <<input, decisions, starts, failures>>
  BY DEF Synthesize, Produce
<1>3. row \in SynthesisReady /\ proc[w].msg \in Position
  BY <1>1, <1>2 DEF RowOK, RecordOf, InHand, HandOK, Busy
<1>4. k \in ClaimId
  BY <1>3, ClaimIdType
<1>5. rec \in DecisionFinal /\ rec.claim = k
  BY <1>3, <1>4 DEF DecisionOf, DecisionFinal, ClaimId
<1> HIDE DEF rec
<1>6. LoopInv(Record, DecisionFinal)'
  BY <1>1, <1>2, <1>5, ProduceStep
<1>7. /\ OthersRest(w) /\ proc'[w].pc = "flush" /\ proc'[w].msg = proc[w].msg
      /\ Len(proc[w].out) + 1 \in 1..Len(proc'[w].out)
      /\ proc'[w].out[Len(proc[w].out) + 1] = rec
      /\ UNCHANGED <<acked, trouble>>
  BY <1>1, <1>2, <1>5, ProduceLemma
<1>8. Queued(k, proc'[w].out) /\ RecordOf(proc'[w], input) = row
  BY <1>5, <1>7 DEF Queued, RecordOf, InHand
<1> HIDE DEF k, row
<1>9. /\ decided' \in [Processes -> SUBSET ClaimId]
      /\ \A v \in Processes \ {w} : decided'[v] = decided[v]
      /\ decided'[w] = decided[w] \cup {k}
  BY <1>1, <1>2, <1>4
<1>10. RowOK(proc'[w], input)
  BY <1>3, <1>8 DEF RowOK
<1>11. ASSUME Clean(trouble, failures)
       PROVE  /\ MemoryOK(proc'[w], decided'[w], decisions)
              /\ DecidedOK(proc'[w], input, decisions)
  <2>1. \A c \in decided[w] : decisions[c] # <<>>
    BY <1>2, <1>11 DEF IInv, MemoryOK
  <2>2. DecidedOK(proc'[w], input, decisions)
    BY <1>7, <1>8 DEF DecidedOK, k
  <2> QED
    BY <1>7, <1>8, <1>9, <2>1, <2>2 DEF MemoryOK
<1>12. LogGrows(decisions, decisions')
  BY <1>2 DEF LogGrows
<1> QED
  BY <1>1, <1>2, <1>6, <1>7, <1>9, <1>10, <1>11, <1>12, Frame

(* A synthesis that raises is counted.                                     *)
LEMMA FailsPreserves ==
  ASSUME IInv, NEW w \in Processes, SynthesizeFails(w)
  PROVE  IInv'
<1>1. /\ LoopInv(Record, DecisionFinal) /\ LoopTypeOK(DecisionFinal)
      /\ decisions \in [ClaimId -> Seq(DecisionFinal)]
      /\ decided \in [Processes -> SUBSET ClaimId]
      /\ starts \in Nat /\ failures \in Nat
  BY DEF IInv, LoopInv
<1>2. /\ proc[w].pc = "work" /\ Goto(w, "commit") /\ failures' = failures + 1
      /\ UNCHANGED <<input, decisions, owner, acked, trouble, decided, starts>>
  BY DEF SynthesizeFails
<1>3. trouble' \in [Kinds -> Nat]
  BY <1>1, <1>2, ProcFacts
<1>4. /\ LoopInv(Record, DecisionFinal)' /\ OthersRest(w) /\ proc'[w].pc = "commit"
  BY <1>1, <1>2, <1>3, GiveUpStep DEF Busy
<1>5. RowOK(proc'[w], input)
  BY <1>4 DEF RowOK
<1>6. LogGrows(decisions, decisions')
  BY <1>2 DEF LogGrows
<1>7. failures' \in Nat /\ ~Clean(trouble', failures')
  BY <1>1, <1>2 DEF Clean
<1> QED
  BY <1>1, <1>2, <1>4, <1>5, <1>6, <1>7, Frame

(* A decision that is delivered is on the topic, and the rest stays queued.*)
LEMMA DecidePreserves ==
  ASSUME IInv, NEW w \in Processes, Decide(w)
  PROVE  IInv'
<1> DEFINE out == proc[w].out
           head == Head(out)
<1>1. /\ LoopInv(Record, DecisionFinal) /\ LoopTypeOK(DecisionFinal)
      /\ RowOK(proc[w], input)
      /\ decisions \in [ClaimId -> Seq(DecisionFinal)]
      /\ decided \in [Processes -> SUBSET ClaimId]
      /\ starts \in Nat /\ failures \in Nat
  BY DEF IInv, LoopInv
<1>2. /\ Unqueue(w) /\ UNCHANGED <<trouble, input, decided, starts, failures>>
      /\ decisions' = [decisions EXCEPT ![head.claim] = Append(@, head)]
  BY DEF Decide, Sent
<1>3. /\ OthersRest(w)
      /\ proc'[w].pc = proc[w].pc /\ proc'[w].msg = proc[w].msg
      /\ proc'[w].out = Tail(out) /\ out \in Seq(DecisionFinal) /\ out # <<>>
      /\ UNCHANGED <<owner, acked>>
  BY <1>1, <1>2, UnqueueLemma
<1>4. head \in DecisionFinal
  BY <1>3
<1>5. head.claim \in ClaimId
  BY <1>4 DEF DecisionFinal, ClaimId
<1> HIDE DEF head
<1>6. /\ decisions' \in [ClaimId -> Seq(DecisionFinal)]
      /\ LogGrows(decisions, decisions')
      /\ decisions'[head.claim] # <<>>
  <2> DEFINE log == decisions[head.claim]
             log2 == Append(log, head)
  <2>1. log \in Seq(DecisionFinal)
    BY <1>1, <1>5
  <2>2. decisions' = [decisions EXCEPT ![head.claim] = log2]
    BY <1>2
  <2> HIDE DEF log
  <2>3. log2 \in Seq(DecisionFinal) /\ Len(log2) = Len(log) + 1 /\ Len(log) \in Nat
    BY <1>4, <2>1
  <2>4. log2 # <<>>
    BY <2>3
  <2> HIDE DEF log2
  <2> QED
    BY <1>1, <1>5, <2>2, <2>3, <2>4 DEF LogGrows
<1>7. LoopInv(Record, DecisionFinal)'
  <2>1. trouble' \in [Kinds -> Nat]
    BY <1>1, <1>2, ProcFacts
  <2> QED
    BY <1>1, <1>2, <2>1, SentStep
<1>8. \A k : Queued(k, out) => k = head.claim \/ Queued(k, Tail(out))
  <2> SUFFICES ASSUME NEW k, NEW i \in 1..Len(out), out[i].claim = k
               PROVE  k = head.claim \/ Queued(k, Tail(out))
    BY DEF Queued
  <2>1. CASE i = 1
    BY <1>3, <2>1 DEF head
  <2>2. CASE i # 1
    <3>1. i - 1 \in 1..Len(Tail(out)) /\ Tail(out)[i - 1] = out[i]
      BY <1>3, <2>2
    <3> QED
      BY <3>1 DEF Queued
  <2> QED
    BY <2>1, <2>2
<1>9. RowOK(proc'[w], input) /\ RecordOf(proc'[w], input) = RecordOf(proc[w], input)
  BY <1>1, <1>3 DEF RowOK, RecordOf
<1> HIDE DEF out
<1>10. ASSUME Clean(trouble, failures)
       PROVE  /\ MemoryOK(proc'[w], decided[w], decisions')
              /\ DecidedOK(proc'[w], input, decisions')
  <2>1. /\ MemoryOK(proc[w], decided[w], decisions)
        /\ DecidedOK(proc[w], input, decisions)
        /\ decided[w] \subseteq ClaimId
    BY <1>1, <1>10 DEF IInv
  <2>2. MemoryOK(proc'[w], decided[w], decisions')
    BY <1>3, <1>6, <1>8, <2>1 DEF MemoryOK, LogGrows, out
  <2>3. ASSUME RecordOf(proc[w], input) \in SynthesisReady
        PROVE  DecidedOK(proc'[w], input, decisions')
    <3> DEFINE k == ClaimIdOf(RecordOf(proc[w], input))
    <3>1. k \in ClaimId
      BY <2>3, ClaimIdType
    <3>2. /\ proc[w].pc = "commit" => decisions[k] # <<>>
          /\ proc[w].pc = "flush" => decisions[k] # <<>> \/ Queued(k, out)
      BY <2>1, <2>3 DEF DecidedOK, out
    <3>3. decisions[k] # <<>> => decisions'[k] # <<>>
      BY <1>6, <3>1 DEF LogGrows
    <3> HIDE DEF k
    <3>4. /\ proc'[w].pc = "commit" => decisions'[k] # <<>>
          /\ proc'[w].pc = "flush" => decisions'[k] # <<>> \/ Queued(k, proc'[w].out)
      BY <1>3, <1>6, <1>8, <3>2, <3>3
    <3> QED
      BY <1>9, <3>4 DEF DecidedOK, k
  <2>4. DecidedOK(proc'[w], input, decisions')
    BY <1>9, <2>3 DEF DecidedOK
  <2> QED
    BY <2>2, <2>4
<1> QED
  BY <1>1, <1>2, <1>3, <1>6, <1>7, <1>9, <1>10, Frame

(* One record is put on the synthesis topic, by whomever: the              *)
(* orchestrator's own environment, or the barrier.                         *)
Fed ==
  /\ \E p \in Partitions, rec \in Record :
       /\ input' = [input EXCEPT ![p] = Append(@, rec)]
       /\ rec \in SynthesisReady => PartitionOf[rec.claim] = p
  /\ UNCHANGED ownVars

(* The environment appends one record; a row goes to the partition of its  *)
(* claim.                                                                  *)
LEMMA EnvFeeds ==
  ASSUME Env
  PROVE  Fed
<1>1. ASSUME NEW c \in Claims, NEW f \in [Agents -> Finding],
             input' = Published(input, c, [claim |-> c, results |-> f])
      PROVE  \E q \in Partitions, rec \in SynthesisReady :
               /\ input' = [input EXCEPT ![q] = Append(@, rec)]
               /\ PartitionOf[rec.claim] = q
  <2>1. PartitionOf[c] \in Partitions
    BY EventsAssumption DEF EventsAssumption
  <2>2. f \in FindingMap
    BY DEF FindingMap
  <2>3. [claim |-> c, results |-> f] \in SynthesisReady
    BY <2>2 DEF SynthesisReady
  <2> QED
    BY <1>1, <2>1, <2>3 DEF Published
<1>2. ASSUME NEW q \in Partitions, NEW junk \in Junk,
             input' = [input EXCEPT ![q] = Append(@, junk)]
      PROVE  \E rec \in {BadPayload, Tombstone} :
               input' = [input EXCEPT ![q] = Append(@, rec)] /\ rec \notin SynthesisReady
  BY <1>2, OrchestratorAssumption DEF OrchestratorAssumption
<1> QED
  BY <1>1, <1>2 DEF Env, Fed, Record

(* New rows are not committed yet.                                         *)
LEMMA FedPreserves ==
  ASSUME IInv, Fed
  PROVE  IInv'
<1>1. LoopInv(Record, DecisionFinal)
  BY DEF IInv
<1>2. UNCHANGED <<decisions, loopVars, decided, starts, failures>>
  BY DEF Fed, ownVars
<1>3. PICK p \in Partitions, rec \in Record :
        input' = [input EXCEPT ![p] = Append(@, rec)]
  BY DEF Fed
<1>4. /\ LoopInv(Record, DecisionFinal)'
      /\ \A q \in Partitions :
           /\ Len(input[q]) \in Nat
           /\ \A i \in 1..Len(input[q]) : input'[q][i] = input[q][i]
      /\ \A w \in Processes :
           proc[w].pc \in Busy => RecordOf(proc[w], input') = RecordOf(proc[w], input)
  BY <1>1, <1>2, <1>3, AppendStep
<1>5. UNCHANGED <<acked, proc, trouble>>
  BY <1>2 DEF loopVars
<1>6. ASSUME NEW w \in Processes
      PROVE  /\ RowOK(proc[w], input')
             /\ Clean(trouble, failures) => DecidedOK(proc[w], input', decisions)
  <2>1. /\ RowOK(proc[w], input)
        /\ Clean(trouble, failures) => DecidedOK(proc[w], input, decisions)
    BY DEF IInv
  <2> QED
    BY <1>4, <2>1 DEF RowOK, DecidedOK, Busy
<1>7. ASSUME Clean(trouble, failures) PROVE NothingForgotten(acked, input', decisions)
  <2> SUFFICES ASSUME NEW g \in Groups, NEW q \in Partitions,
                      NEW i \in 1..acked[g][q], input'[q][i] \in SynthesisReady
               PROVE  decisions[ClaimIdOf(input'[q][i])] # <<>>
    BY DEF NothingForgotten
  <2>1. acked[g][q] <= Len(input[q]) /\ acked[g][q] \in Nat /\ Len(input[q]) \in Nat
    BY <1>1, <1>4 DEF LoopInv, LoopTypeOK, CommitsBounded
  <2>2. i \in 1..Len(input[q])
    BY <2>1
  <2>3. input'[q][i] = input[q][i]
    BY <1>4, <2>2
  <2> QED
    BY <1>7, <2>3 DEF IInv, NothingForgotten
<1> QED
  BY <1>2, <1>4, <1>5, <1>6, <1>7 DEF IInv

-------------------------------------------------------------------------------
(* The theorems.                                                           *)

(* No row is committed at first.                                           *)
LEMMA InvInit == Init => IInv
<1> SUFFICES ASSUME Init PROVE IInv
  OBVIOUS
<1>1. /\ LoopInit
      /\ decisions = [k \in ClaimId |-> <<>>]
      /\ decided = [w \in Processes |-> {}]
      /\ starts = 0 /\ failures = 0
  BY DEF Init
<1>2. LoopInv(Record, DecisionFinal) /\ \A w \in Processes : proc[w].pc = "down"
  BY <1>1, LoopStart
<1>3. acked = [g \in Groups |-> [p \in Partitions |-> 0]]
  BY <1>1 DEF LoopInit
<1>4. NothingForgotten(acked, input, decisions)
  BY <1>3 DEF NothingForgotten
<1>5. \A w \in Processes : /\ RowOK(proc[w], input)
                           /\ MemoryOK(proc[w], decided[w], decisions)
                           /\ DecidedOK(proc[w], input, decisions)
  BY <1>1, <1>2 DEF RowOK, MemoryOK, DecidedOK
<1> QED
  BY <1>1, <1>2, <1>4, <1>5 DEF IInv

(* No step commits a row without a decision for its claim.                 *)
LEMMA InvNext == IInv /\ [Next]_vars => IInv'
<1> SUFFICES ASSUME IInv, [Next]_vars PROVE IInv'
  OBVIOUS
<1>1. ASSUME NEW w \in Processes, Progress(w) \/ Decide(w) \/ Trouble(w)
      PROVE  IInv'
  <2>1. CASE Progress(w)
    BY <2>1, TurnPreserves, ConsumePreserves, SynthesizePreserves DEF Progress
  <2>2. CASE Decide(w)
    BY <2>2, DecidePreserves
  <2>3. CASE Trouble(w)
    BY <2>3, TurnPreserves, FailsPreserves DEF Trouble
  <2> QED
    BY <1>1, <2>1, <2>2, <2>3
<1>2. CASE Env
  BY <1>2, EnvFeeds, FedPreserves
<1>3. CASE UNCHANGED vars
  <2>1. UNCHANGED <<input, decisions, owner, acked, proc, trouble, decided, starts, failures>>
    BY <1>3 DEF vars, ownVars, loopVars
  <2> QED
    BY <2>1 DEF IInv, LoopInv, LoopTypeOK
<1> QED
  BY <1>1, <1>2, <1>3 DEF Next, Step

(* The topics, the group and the processes always have their type.         *)
THEOREM OrchestratorTypeCorrect == Spec => []TypeOK
  BY InvInit, InvNext, InvImplies, PTL DEF Spec

(* No row is forgotten: unless a synthesis raised or a delivery was cut    *)
(* short, a committed row leaves a decision under its claim id, whatever   *)
(* crashed, was evicted or handed over -- the rows that _decided skips     *)
(* included.                                                               *)
THEOREM NoRowForgotten == Spec => []CommittedRowsDecided
  BY InvInit, InvNext, InvImplies, PTL DEF Spec

-------------------------------------------------------------------------------
(* What _decided is for: a claim has at most one decision per process of   *)
(* the orchestrator, whatever is re-emitted, crashes, is evicted or fails. *)
(* The inductive invariant.                                                *)

(* What a process has queued it remembers to have decided, each claim once,*)
(* and what it works on it has not decided yet.                            *)
MemoryKept(r, mem) ==
  /\ r.out \in Seq(DecisionFinal)
  /\ r.pc = "down" => r.out = <<>>
  /\ \A i \in 1..Len(r.out) : r.out[i].claim \in mem
  /\ \A i, j \in 1..Len(r.out) : r.out[i].claim = r.out[j].claim => i = j

(* A row at work is of a claim the process has not decided.                *)
FreshOK(r, mem, topic) == r.pc = "work" => ClaimIdOf(RecordOf(r, topic)) \notin mem

(* A process with state r may still add a decision for key k to the topic: *)
(* it has one in its queue, or it runs and has not decided k.              *)
MayAdd(k, r, mem) == Queued(k, r.out) \/ (r.pc # "down" /\ k \notin mem)

(* The processes that may yet decide claim k.                              *)
Adders(k) == {w \in Processes : MayAdd(k, proc[w], decided[w])}

(* Each process that was started accounts for one decision at most, the    *)
(* ones it may still take included.                                        *)
OnceInv ==
  /\ \A w \in Processes : MemoryKept(proc[w], decided[w]) /\ FreshOK(proc[w], decided[w], input)
  /\ \A k \in ClaimId : Len(decisions[k]) + Cardinality(Adders(k)) <= starts

-------------------------------------------------------------------------------
(* Counting.                                                               *)

(* The processes that may add a decision are finitely many.                *)
LEMMA AddersFinite ==
  ASSUME NEW k
  PROVE  IsFiniteSet(Adders(k)) /\ Cardinality(Adders(k)) \in Nat
<1>1. Adders(k) \in SUBSET Processes
  BY DEF Adders
<1>2. IsFiniteSet(Processes)
  BY LoopAssumption DEF LoopAssumption
<1>3. IsFiniteSet(Adders(k))
  BY <1>1, <1>2, FS_Subset
<1> QED
  BY <1>3, FS_CardinalityType

(* Two sets that differ in w at most.                                      *)
LEMMA DifferInOne ==
  ASSUME NEW S, NEW T, NEW w, IsFiniteSet(S), T \ {w} = S \ {w}
  PROVE  /\ (w \in T => w \in S) => Cardinality(T) <= Cardinality(S)
         /\ Cardinality(T) <= Cardinality(S) + 1
         /\ w \in S /\ w \notin T => Cardinality(T) + 1 = Cardinality(S)
<1>1. Cardinality(S) \in Nat
  BY FS_CardinalityType
<1>2. CASE w \in S /\ w \in T
  <2>1. T = S
    BY <1>2
  <2> QED
    BY <1>1, <1>2, <2>1
<1>3. CASE w \in S /\ w \notin T
  <2>1. T = S \ {w}
    BY <1>3
  <2>2. Cardinality(T) = Cardinality(S) - 1
    BY <1>3, <2>1, FS_RemoveElement
  <2> QED
    BY <1>1, <1>3, <2>2
<1>4. CASE w \notin S /\ w \in T
  <2>1. T = S \cup {w}
    BY <1>4
  <2>2. Cardinality(T) = Cardinality(S) + 1
    BY <1>4, <2>1, FS_AddElement
  <2> QED
    BY <1>1, <1>4, <2>2
<1>5. CASE w \notin S /\ w \notin T
  <2>1. T = S
    BY <1>5
  <2> QED
    BY <1>1, <1>5, <2>1
<1> QED
  BY <1>2, <1>3, <1>4, <1>5

(* The decisions for k in the queues.                                      *)
QueuedFor(k) ==
  UNION {{<<w, i>> : i \in {n \in 1..Len(proc[w].out) : proc[w].out[n].claim = k}} :
           w \in Processes}

(* Decisions in the queues are as many as the processes that hold them, for*)
(* one process queues a claim once.                                        *)
LEMMA QueuedOnce ==
  ASSUME OnceInv, NEW k
  PROVE  /\ IsFiniteSet(QueuedFor(k)) /\ Cardinality(QueuedFor(k)) \in Nat
         /\ Cardinality(QueuedFor(k)) <= Cardinality(Adders(k))
<1> DEFINE In(w) == {n \in 1..Len(proc[w].out) : proc[w].out[n].claim = k}
           S == QueuedFor(k)
           f == [x \in S |-> x[1]]
<1>1. \A x \in S : \E w \in Processes : \E i \in In(w) : x = <<w, i>>
  BY DEF QueuedFor
<1>2. \A w \in Processes : In(w) # {} => w \in Adders(k)
  BY DEF Adders, MayAdd, Queued
<1>3. \A w \in Processes : \A i, j \in In(w) : i = j
  BY DEF OnceInv, MemoryKept
<1> HIDE DEF In, S
<1>4. \A x \in S : x[1] \in Adders(k)
  BY <1>1, <1>2
<1>5. \A x, y \in S : x[1] = y[1] => x = y
  <2> SUFFICES ASSUME NEW x \in S, NEW y \in S, x[1] = y[1] PROVE x = y
    OBVIOUS
  <2>1. PICK w \in Processes : \E i \in In(w) : x = <<w, i>>
    BY <1>1
  <2>2. PICK v \in Processes : \E j \in In(v) : y = <<v, j>>
    BY <1>1
  <2>3. w = v
    BY <2>1, <2>2
  <2> QED
    BY <1>3, <2>1, <2>2, <2>3
<1>6. f \in Injection(S, Adders(k))
  BY <1>4, <1>5 DEF Injection, IsInjective
<1>7. Cardinality(S) <= Cardinality(Adders(k)) /\ IsFiniteSet(S)
  BY <1>6, AddersFinite, FS_Injection
<1> QED
  BY <1>7, FS_CardinalityType DEF S

(* So a process that was started accounts for one decision at most.        *)
LEMMA OnceImplies == OnceInv /\ IInv => OneDecisionPerProcess
<1> SUFFICES ASSUME OnceInv, IInv, NEW k \in ClaimId PROVE Taken(k) <= starts
  BY DEF OneDecisionPerProcess
<1>1. /\ Cardinality(QueuedFor(k)) \in Nat /\ Cardinality(Adders(k)) \in Nat
      /\ Cardinality(QueuedFor(k)) <= Cardinality(Adders(k))
  BY QueuedOnce, AddersFinite
<1>2. Len(decisions[k]) + Cardinality(Adders(k)) <= starts /\ starts \in Nat
  BY DEF OnceInv, IInv
<1>3. decisions[k] \in Seq(DecisionFinal)
  BY DEF IInv
<1>4. Taken(k) = Len(decisions[k]) + Cardinality(QueuedFor(k))
  BY DEF Taken, QueuedFor
<1> QED
  BY <1>1, <1>2, <1>3, <1>4

(* A step of w keeps the count if w itself does.                           *)
LEMMA OnceFrame ==
  ASSUME OnceInv, IInv, NEW w \in Processes, OthersRest(w), input' = input,
         \A v \in Processes \ {w} : decided'[v] = decided[v],
         MemoryKept(proc'[w], decided'[w]), FreshOK(proc'[w], decided'[w], input),
         starts' \in Nat,
         \A k \in ClaimId :
           LET before == MayAdd(k, proc[w], decided[w])
               after == MayAdd(k, proc'[w], decided'[w])
           IN  \/ /\ decisions'[k] = decisions[k] /\ starts' = starts
                  /\ after => before
               \/ decisions'[k] = decisions[k] /\ starts' = starts + 1
               \/ /\ Len(decisions'[k]) = Len(decisions[k]) + 1 /\ starts' = starts
                  /\ before /\ ~after
  PROVE  OnceInv'
<1>1. \A v \in Processes :
        MemoryKept(proc'[v], decided'[v]) /\ FreshOK(proc'[v], decided'[v], input')
  BY DEF OnceInv, OthersRest
<1>2. ASSUME NEW k \in ClaimId
      PROVE  Len(decisions'[k]) + Cardinality(Adders(k)') <= starts'
  <2> DEFINE S == Adders(k)
             T == Adders(k)'
  <2>1. T \ {w} = S \ {w}
    BY DEF Adders, OthersRest
  <2>2. /\ w \in S <=> MayAdd(k, proc[w], decided[w])
        /\ w \in T <=> MayAdd(k, proc'[w], decided'[w])
    BY DEF Adders
  <2>3. IsFiniteSet(S) /\ Cardinality(S) \in Nat
    BY AddersFinite
  <2>4. T \in SUBSET Processes /\ IsFiniteSet(Processes)
    BY LoopAssumption DEF LoopAssumption, Adders
  <2>5. Cardinality(T) \in Nat
    BY <2>4, FS_Subset, FS_CardinalityType
  <2>6. Len(decisions[k]) + Cardinality(S) <= starts
    BY DEF OnceInv
  <2>7. decisions[k] \in Seq(DecisionFinal) /\ starts \in Nat
    BY DEF IInv
  <2>8. Len(decisions[k]) \in Nat
    BY <2>7
  <2> HIDE DEF S, T
  <2>9. /\ (w \in T => w \in S) => Cardinality(T) <= Cardinality(S)
        /\ Cardinality(T) <= Cardinality(S) + 1
        /\ w \in S /\ w \notin T => Cardinality(T) + 1 = Cardinality(S)
    BY <2>1, <2>3, DifferInOne
  <2>10. Len(decisions'[k]) + Cardinality(T) <= starts'
    <3>1. \/ decisions'[k] = decisions[k] /\ starts' = starts /\ (w \in T => w \in S)
          \/ decisions'[k] = decisions[k] /\ starts' = starts + 1
          \/ Len(decisions'[k]) = Len(decisions[k]) + 1 /\ starts' = starts
             /\ w \in S /\ w \notin T
      BY <2>2
    <3> QED
      BY <2>3, <2>5, <2>6, <2>7, <2>8, <2>9, <3>1
  <2> QED
    BY <2>10 DEF T
<1> QED
  BY <1>1, <1>2 DEF OnceInv

-------------------------------------------------------------------------------
(* The steps.                                                              *)

(* A process that ends queues nothing and remembers nothing.               *)
LEMMA DiePreserves ==
  ASSUME OnceInv, IInv, NEW w \in Processes, Die(w), Memory(w), proc[w].pc # "down"
  PROVE  OnceInv'
<1>1. LoopTypeOK(DecisionFinal) /\ decided \in [Processes -> SUBSET ClaimId] /\ starts \in Nat
  BY DEF IInv, LoopInv
<1>2. OthersRest(w) /\ proc'[w] = Idle
  BY <1>1, DieLemma, ProcFacts DEF Die
<1>3. Idle.pc = "down" /\ Idle.out = <<>>
  BY DEF Idle
<1>4. /\ UNCHANGED <<input, decisions, starts>> /\ decided'[w] = {}
      /\ \A v \in Processes \ {w} : decided'[v] = decided[v]
  BY <1>1, <1>2, <1>3 DEF Memory
<1>5. MemoryKept(proc'[w], decided'[w]) /\ FreshOK(proc'[w], decided'[w], input)
  BY <1>2, <1>3 DEF MemoryKept, FreshOK
<1>6. \A k \in ClaimId : ~MayAdd(k, proc'[w], decided'[w])
  BY <1>2, <1>3 DEF MayAdd, Queued
<1> QED
  BY <1>1, <1>2, <1>4, <1>5, <1>6, OnceFrame

(* A process that goes on keeps its queue, its memory and its work.        *)
LEMMA MovePreserves ==
  ASSUME OnceInv, IInv, NEW w \in Processes, OthersRest(w),
         proc'[w].pc # "down", proc'[w].out = proc[w].out,
         proc'[w].pc = "work" => proc[w].pc = "work" /\ proc'[w].msg = proc[w].msg,
         UNCHANGED <<input, decisions, decided>>,
         starts' = IF proc[w].pc = "down" THEN starts + 1 ELSE starts
  PROVE  OnceInv'
<1>1. MemoryKept(proc[w], decided[w]) /\ FreshOK(proc[w], decided[w], input) /\ starts \in Nat
  BY DEF OnceInv, IInv
<1>2. MemoryKept(proc'[w], decided'[w]) /\ FreshOK(proc'[w], decided'[w], input)
  BY <1>1 DEF MemoryKept, FreshOK, RecordOf
<1>3. proc[w].pc # "down" =>
        \A k : MayAdd(k, proc'[w], decided'[w]) => MayAdd(k, proc[w], decided[w])
  BY DEF MayAdd
<1> QED
  BY <1>1, <1>2, <1>3, OnceFrame

(* The head of a queue without repetitions: what is left of it.            *)
LEMMA TailOK ==
  ASSUME NEW r, NEW s, NEW mem, MemoryKept(r, mem), r.out # <<>>,
         s.pc = r.pc, s.out = Tail(r.out)
  PROVE  /\ MemoryKept(s, mem)
         /\ Head(r.out) \in DecisionFinal /\ Head(r.out).claim \in mem
         /\ Queued(Head(r.out).claim, r.out) /\ ~Queued(Head(r.out).claim, s.out)
         /\ \A k : Queued(k, s.out) => Queued(k, r.out)
<1> DEFINE out == r.out
           rest == Tail(out)
<1>1. /\ out \in Seq(DecisionFinal) /\ out # <<>>
      /\ r.pc = "down" => out = <<>>
      /\ \A i \in 1..Len(out) : out[i].claim \in mem
      /\ \A i, j \in 1..Len(out) : out[i].claim = out[j].claim => i = j
  BY DEF MemoryKept
<1> HIDE DEF out
<1>2. /\ rest \in Seq(DecisionFinal) /\ Head(out) \in DecisionFinal
      /\ 1 \in 1..Len(out) /\ Head(out) = out[1]
      /\ \A i \in 1..Len(rest) : i + 1 \in 1..Len(out) /\ rest[i] = out[i + 1]
      /\ Len(rest) \in Nat
  BY <1>1
<1> HIDE DEF rest
<1>3. \A i \in 1..Len(rest) : rest[i].claim # Head(out).claim
  BY <1>1, <1>2
<1>4. \A i, j \in 1..Len(rest) : rest[i].claim = rest[j].claim => i = j
  <2> SUFFICES ASSUME NEW i \in 1..Len(rest), NEW j \in 1..Len(rest),
                      rest[i].claim = rest[j].claim
               PROVE  i = j
    OBVIOUS
  <2>1. i + 1 = j + 1
    BY <1>1, <1>2
  <2> QED
    BY <1>2, <2>1
<1>5. MemoryKept(s, mem)
  BY <1>1, <1>2, <1>4 DEF MemoryKept, out, rest
<1> QED
  BY <1>1, <1>2, <1>3, <1>5 DEF Queued, out, rest

(* A decision that is not delivered is one less that may be added.         *)
LEMMA FailedDeliveryPreserves ==
  ASSUME OnceInv, IInv, NEW w \in Processes, DeliveryFails(w), Memory(w)
  PROVE  OnceInv'
<1>1. LoopTypeOK(DecisionFinal) /\ starts \in Nat
      /\ decided \in [Processes -> SUBSET ClaimId]
      /\ MemoryKept(proc[w], decided[w]) /\ FreshOK(proc[w], decided[w], input)
  BY DEF IInv, LoopInv, OnceInv
<1>2. /\ OthersRest(w) /\ proc'[w].pc = proc[w].pc /\ proc'[w].msg = proc[w].msg
      /\ proc'[w].out = Tail(proc[w].out) /\ proc[w].out # <<>>
  BY <1>1, UnqueueLemma DEF DeliveryFails
<1>3. proc[w].pc # "down"
  BY <1>1, <1>2 DEF MemoryKept
<1>4. UNCHANGED <<input, decisions, decided, starts>>
  BY <1>1, <1>2, <1>3 DEF Memory
<1>5. MemoryKept(proc'[w], decided'[w]) /\ \A k : Queued(k, proc'[w].out) => Queued(k, proc[w].out)
  BY <1>1, <1>2, <1>4, TailOK
<1>6. FreshOK(proc'[w], decided'[w], input)
  BY <1>1, <1>2, <1>4 DEF FreshOK, RecordOf
<1>7. \A k : MayAdd(k, proc'[w], decided'[w]) => MayAdd(k, proc[w], decided[w])
  BY <1>2, <1>4, <1>5 DEF MayAdd
<1> QED
  BY <1>1, <1>2, <1>4, <1>5, <1>6, <1>7, OnceFrame

(* The loop's own steps decide nothing, and a start is counted.            *)
LEMMA LoopStepPreserves ==
  ASSUME OnceInv, IInv, NEW w \in Processes, Turn(w) \/ Upset(w), Memory(w)
  PROVE  OnceInv'
<1>1. /\ LoopInv(Record, DecisionFinal) /\ LoopTypeOK(DecisionFinal)
      /\ decided \in [Processes -> SUBSET ClaimId]
      /\ proc \in [Processes -> Process(DecisionFinal)] /\ proc[w] \in Process(DecisionFinal)
  BY ProcFacts DEF IInv, LoopInv
<1>2. ASSUME proc'[w].pc # "down", OthersRest(w), proc'[w].out = proc[w].out,
             proc'[w].pc = "work" => proc[w].pc = "work" /\ proc'[w].msg = proc[w].msg
      PROVE  OnceInv'
  <2>1. UNCHANGED <<input, decisions, decided>>
    BY <1>1, <1>2 DEF Memory
  <2>2. starts' = IF proc[w].pc = "down" THEN starts + 1 ELSE starts
    BY DEF Memory
  <2> QED
    BY <1>2, <2>1, <2>2, MovePreserves
<1>3. CASE Start(w) \/ PollEmpty(w) \/ FlushDone(w) \/ FlushTimeout(w)
  <2>1. PICK pc \in {"poll", "drain", "commit"} : Goto(w, pc)
    BY <1>3 DEF Start, PollEmpty, FlushDone, FlushTimeout
  <2>2. OthersRest(w) /\ proc'[w].pc = pc /\ proc'[w].out = proc[w].out
    BY <1>1, <2>1, GotoLemma DEF States, Busy
  <2> QED
    BY <1>2, <2>2
<1>4. CASE \E p \in Partitions : Assign(w, p)
  <2>1. PICK p \in Partitions : Assign(w, p)
    BY <1>4
  <2>2. proc[w].pc = "poll" /\ OthersRest(w) /\ Keeps(w)
    BY <1>1, <2>1, AssignStep DEF Memory, Assign, AssignAt
  <2> QED
    BY <1>2, <2>2 DEF Keeps
<1>5. CASE (\E p \in Partitions : Revoke(w, p)) \/ Evict(w)
  <2>1. proc' = proc /\ proc[w].pc # "down"
    BY <1>5 DEF Revoke, Evict, Busy
  <2> QED
    BY <1>2, <2>1 DEF OthersRest
<1>6. CASE Commit(w)
  <2>1. OthersRest(w) /\ proc'[w].pc \notin Busy /\ proc'[w].pc # "down"
        /\ proc'[w].out = proc[w].out
    BY <1>1, <1>6, CommitLemma
  <2> QED
    BY <1>2, <2>1 DEF Busy
<1>7. CASE CommitRejected(w) \/ Close(w) \/ Crash(w)
  <2>1. Die(w) /\ proc[w].pc # "down"
    BY <1>7 DEF CommitRejected, Close, Crash
  <2> QED
    BY <2>1, DiePreserves
<1>8. CASE RequestStop(w)
  <2> DEFINE r == [proc[w] EXCEPT !.stop = TRUE]
  <2>1. proc' = [proc EXCEPT ![w] = r] /\ proc[w].pc # "down"
    BY <1>8 DEF RequestStop
  <2>2. r.pc = proc[w].pc /\ r.msg = proc[w].msg /\ r.out = proc[w].out
    BY <1>1 DEF Process
  <2> HIDE DEF r
  <2>3. OthersRest(w) /\ proc'[w] = r
    BY <1>1, <2>1 DEF OthersRest
  <2> QED
    BY <1>2, <2>1, <2>2, <2>3
<1>9. CASE DeliveryFails(w)
  BY <1>9, FailedDeliveryPreserves
<1> QED
  BY <1>3, <1>4, <1>5, <1>6, <1>7, <1>8, <1>9 DEF Turn, Upset

(* A record is worked on only if its claim is not among the decided ones.  *)
LEMMA ConsumeOnce ==
  ASSUME OnceInv, IInv, NEW w \in Processes, NEW p \in Partitions, Consume(w, p)
  PROVE  OnceInv'
<1>1. LoopTypeOK(DecisionFinal) /\ starts \in Nat
      /\ MemoryKept(proc[w], decided[w])
  BY DEF IInv, LoopInv, OnceInv
<1>2. PICK next \in {"work", "commit"} :
        Poll(w, p, next) /\ (next = "commit" <=> Skipped(w, Peek(w, p)))
  BY DEF Consume
<1>3. UNCHANGED <<input, decisions, decided, starts>>
  BY DEF Consume
<1>4. /\ OthersRest(w) /\ proc[w].pc = "poll" /\ proc'[w].pc = next
      /\ proc'[w].msg = [part |-> p, off |-> proc[w].cursor[p]]
      /\ proc'[w].out = proc[w].out
  BY <1>1, <1>2, PollLemma
<1>5. RecordOf(proc'[w], input) = Peek(w, p)
  BY <1>4 DEF RecordOf, Peek
<1>6. FreshOK(proc'[w], decided'[w], input)
  BY <1>2, <1>3, <1>4, <1>5 DEF FreshOK, Skipped
<1>7. MemoryKept(proc'[w], decided'[w])
  BY <1>1, <1>2, <1>3, <1>4 DEF MemoryKept
<1>8. \A k : MayAdd(k, proc'[w], decided'[w]) => MayAdd(k, proc[w], decided[w])
  BY <1>3, <1>4 DEF MayAdd
<1> QED
  BY <1>1, <1>3, <1>4, <1>6, <1>7, <1>8, OnceFrame

(* The claim of the row in hand is decided now: the process may add one    *)
(* decision for it, as before.                                             *)
LEMMA SynthesizeOnce ==
  ASSUME OnceInv, IInv, NEW w \in Processes, Synthesize(w)
  PROVE  OnceInv'
<1> DEFINE row == InHand(w)
           c == ClaimIdOf(row)
           rec == DecisionOf(w)
           out == proc[w].out
           out2 == proc'[w].out
<1>1. /\ LoopInv(Record, DecisionFinal) /\ LoopTypeOK(DecisionFinal)
      /\ RowOK(proc[w], input) /\ HandOK(proc[w], input)
      /\ MemoryKept(proc[w], decided[w]) /\ FreshOK(proc[w], decided[w], input)
      /\ decided \in [Processes -> SUBSET ClaimId] /\ starts \in Nat
  BY DEF IInv, LoopInv, OnceInv
<1>2. /\ Produce(w, rec) /\ proc[w].pc = "work"
      /\ decided' = [decided EXCEPT ![w] = @ \cup {c}]
      /\ UNCHANGED <<input, decisions, starts>>
  BY DEF Synthesize, Produce
<1>3. row \in SynthesisReady /\ proc[w].msg \in Position
  BY <1>1, <1>2 DEF RowOK, RecordOf, InHand, HandOK, Busy
<1>4. c \in ClaimId /\ c \notin decided[w]
  BY <1>1, <1>2, <1>3, ClaimIdType DEF FreshOK, RecordOf, InHand
<1>5. rec \in DecisionFinal /\ rec.claim = c
  BY <1>3, <1>4 DEF DecisionOf, DecisionFinal, ClaimId
<1> HIDE DEF rec, c
<1>6. OthersRest(w) /\ proc'[w].pc = "flush"
  BY <1>1, <1>2, <1>5, ProduceLemma
<1>7. out2 = Append(out, rec) /\ out \in Seq(DecisionFinal)
  <2>1. proc[w] \in Process(DecisionFinal) /\ proc \in [Processes -> Process(DecisionFinal)]
    BY <1>1, ProcFacts
  <2>2. proc' = [proc EXCEPT ![w] = [proc[w] EXCEPT !.out = Append(out, rec), !.pc = "flush"]]
    BY <1>2 DEF Produce
  <2> QED
    BY <1>1, <2>1, <2>2 DEF Process, MemoryKept
<1>8. /\ decided' \in [Processes -> SUBSET ClaimId]
      /\ \A v \in Processes \ {w} : decided'[v] = decided[v]
      /\ decided'[w] = decided[w] \cup {c}
  BY <1>1, <1>2, <1>4
<1>9. /\ \A i \in 1..Len(out) : out[i].claim \in decided[w]
      /\ \A i, j \in 1..Len(out) : out[i].claim = out[j].claim => i = j
  BY <1>1 DEF MemoryKept
<1>10. /\ out2 \in Seq(DecisionFinal) /\ Len(out2) = Len(out) + 1 /\ Len(out) \in Nat
       /\ out2[Len(out2)] = rec
       /\ \A i \in 1..Len(out) : out2[i] = out[i]
  BY <1>5, <1>7
<1> HIDE DEF out, out2
<1>11. \A i \in 1..Len(out2) : i \in 1..Len(out) \/ i = Len(out2)
  BY <1>10
<1>12. \A i \in 1..Len(out2) : out2[i].claim \in decided'[w]
  BY <1>5, <1>8, <1>9, <1>10, <1>11
<1>13. \A i, j \in 1..Len(out2) : out2[i].claim = out2[j].claim => i = j
  <2> SUFFICES ASSUME NEW i \in 1..Len(out2), NEW j \in 1..Len(out2),
                      out2[i].claim = out2[j].claim
               PROVE  i = j
    OBVIOUS
  <2>1. \A n \in 1..Len(out) : out2[n].claim # c
    BY <1>4, <1>9, <1>10
  <2>2. CASE i = Len(out2) \/ j = Len(out2)
    BY <1>5, <1>10, <1>11, <2>1, <2>2
  <2>3. CASE i \in 1..Len(out) /\ j \in 1..Len(out)
    BY <1>9, <1>10, <2>3
  <2> QED
    BY <1>11, <2>2, <2>3
<1>14. MemoryKept(proc'[w], decided'[w]) /\ FreshOK(proc'[w], decided'[w], input)
  BY <1>6, <1>10, <1>12, <1>13 DEF MemoryKept, FreshOK, out2
<1>15. ASSUME NEW k, MayAdd(k, proc'[w], decided'[w])
       PROVE  MayAdd(k, proc[w], decided[w])
  <2>1. CASE Queued(k, out2)
    <3>1. PICK i \in 1..Len(out2) : out2[i].claim = k
      BY <2>1 DEF Queued
    <3>2. Queued(k, out) \/ k = c
      BY <1>5, <1>10, <1>11, <3>1 DEF Queued
    <3> QED
      BY <1>2, <1>4, <3>2 DEF MayAdd, out
  <2>2. CASE k \notin decided'[w]
    BY <1>2, <1>8, <2>2 DEF MayAdd
  <2> QED
    BY <1>15, <2>1, <2>2 DEF MayAdd, out2
<1> QED
  BY <1>1, <1>2, <1>6, <1>8, <1>14, <1>15, OnceFrame

(* A synthesis that raises leaves the claim undecided.                     *)
LEMMA FailsOnce ==
  ASSUME OnceInv, IInv, NEW w \in Processes, SynthesizeFails(w)
  PROVE  OnceInv'
<1>1. LoopTypeOK(DecisionFinal)
  BY DEF IInv, LoopInv
<1>2. /\ proc[w].pc = "work" /\ Goto(w, "commit")
      /\ UNCHANGED <<input, decisions, decided, starts>>
  BY DEF SynthesizeFails
<1>3. OthersRest(w) /\ proc'[w].pc = "commit" /\ proc'[w].out = proc[w].out
  BY <1>1, <1>2, GotoLemma DEF States, Busy
<1> QED
  BY <1>2, <1>3, MovePreserves

(* A decision that is delivered is one more on the topic and one less that *)
(* may be added.                                                           *)
LEMMA DecideOnce ==
  ASSUME OnceInv, IInv, NEW w \in Processes, Decide(w)
  PROVE  OnceInv'
<1> DEFINE head == Head(proc[w].out)
<1>1. /\ LoopTypeOK(DecisionFinal) /\ starts \in Nat
      /\ decided \in [Processes -> SUBSET ClaimId]
      /\ decisions \in [ClaimId -> Seq(DecisionFinal)]
      /\ MemoryKept(proc[w], decided[w]) /\ FreshOK(proc[w], decided[w], input)
  BY DEF IInv, LoopInv, OnceInv
<1>2. /\ Unqueue(w) /\ UNCHANGED <<input, decided, starts>>
      /\ decisions' = [decisions EXCEPT ![head.claim] = Append(@, head)]
  BY DEF Decide, Sent
<1>3. /\ OthersRest(w) /\ proc'[w].pc = proc[w].pc /\ proc'[w].msg = proc[w].msg
      /\ proc'[w].out = Tail(proc[w].out) /\ proc[w].out # <<>>
  BY <1>1, <1>2, UnqueueLemma
<1>4. /\ MemoryKept(proc'[w], decided[w])
      /\ head \in DecisionFinal /\ head.claim \in decided[w]
      /\ Queued(head.claim, proc[w].out) /\ ~Queued(head.claim, proc'[w].out)
      /\ \A k : Queued(k, proc'[w].out) => Queued(k, proc[w].out)
  BY <1>1, <1>3, TailOK
<1>5. head.claim \in ClaimId
  BY <1>1, <1>4
<1> HIDE DEF head
<1>6. /\ Len(decisions'[head.claim]) = Len(decisions[head.claim]) + 1
      /\ \A k \in ClaimId \ {head.claim} : decisions'[k] = decisions[k]
  <2>1. decisions[head.claim] \in Seq(DecisionFinal)
    BY <1>1, <1>5
  <2>2. Len(Append(decisions[head.claim], head)) = Len(decisions[head.claim]) + 1
    BY <1>4, <2>1
  <2> QED
    BY <1>1, <1>2, <1>5, <2>2
<1>7. FreshOK(proc'[w], decided[w], input)
  BY <1>1, <1>3 DEF FreshOK, RecordOf
<1>8. /\ MayAdd(head.claim, proc[w], decided[w])
      /\ ~MayAdd(head.claim, proc'[w], decided[w])
      /\ \A k : MayAdd(k, proc'[w], decided[w]) => MayAdd(k, proc[w], decided[w])
  BY <1>3, <1>4 DEF MayAdd
<1> QED
  BY <1>1, <1>2, <1>3, <1>4, <1>6, <1>7, <1>8, OnceFrame

(* New rows change nothing a process has in hand.                          *)
LEMMA FedOnce ==
  ASSUME OnceInv, IInv, IInv', Fed
  PROVE  OnceInv'
<1>1. UNCHANGED <<decisions, proc, decided, starts>>
  BY DEF Fed, ownVars, loopVars
<1>2. ASSUME NEW w \in Processes, proc[w].pc = "work"
      PROVE  RecordOf(proc[w], input') = RecordOf(proc[w], input)
  <2>1. /\ proc[w].msg.part \in Partitions /\ proc[w].msg.off \in Nat
        /\ proc[w].msg.off < Len(input[proc[w].msg.part])
        /\ input \in [Partitions -> Seq(Record)]
    BY <1>2 DEF IInv, LoopInv, HandOK, Busy, Position
  <2>2. PICK p \in Partitions : \E rec : input' = [input EXCEPT ![p] = Append(@, rec)]
    BY DEF Fed
  <2>3. proc[w].msg.off + 1 \in 1..Len(input[proc[w].msg.part])
    BY <2>1
  <2>4. input'[proc[w].msg.part][proc[w].msg.off + 1] =
          input[proc[w].msg.part][proc[w].msg.off + 1]
    BY <2>1, <2>2, <2>3
  <2> QED
    BY <2>4 DEF RecordOf
<1>3. \A k : Adders(k)' = Adders(k)
  BY <1>1 DEF Adders
<1>4. ASSUME NEW w \in Processes
      PROVE  MemoryKept(proc[w], decided[w]) /\ FreshOK(proc[w], decided[w], input')
  BY <1>2 DEF OnceInv, FreshOK
<1> QED
  BY <1>1, <1>3, <1>4 DEF OnceInv


(* At first nothing is decided and no process runs.                        *)
LEMMA OnceInit == Init => OnceInv
<1> SUFFICES ASSUME Init PROVE OnceInv
  OBVIOUS
<1>1. \A w \in Processes : proc[w] = Idle /\ decided[w] = {}
  BY DEF Init, LoopInit
<1>2. Idle.pc = "down" /\ Idle.out = <<>>
  BY DEF Idle
<1>3. ASSUME NEW w \in Processes
      PROVE  MemoryKept(proc[w], decided[w]) /\ FreshOK(proc[w], decided[w], input)
  <2>1. proc[w].pc = "down" /\ proc[w].out = <<>>
    BY <1>1, <1>2
  <2>2. <<>> \in Seq(DecisionFinal) /\ Len(<<>>) = 0
    OBVIOUS
  <2> QED
    BY <2>1, <2>2 DEF MemoryKept, FreshOK
<1>4. ASSUME NEW k \in ClaimId PROVE Len(decisions[k]) + Cardinality(Adders(k)) <= starts
  <2>1. Adders(k) = {}
    BY <1>1, <1>2 DEF Adders, MayAdd, Queued
  <2>2. decisions[k] = <<>> /\ starts = 0
    BY DEF Init
  <2> QED
    BY <2>1, <2>2, FS_EmptySet
<1> QED
  BY <1>3, <1>4 DEF OnceInv

(* Every step keeps the count.                                             *)
LEMMA OnceNext == OnceInv /\ IInv /\ [Next]_vars => OnceInv'
<1> SUFFICES ASSUME OnceInv, IInv, [Next]_vars PROVE OnceInv'
  OBVIOUS
<1>1. ASSUME NEW w \in Processes, Progress(w) \/ Decide(w) \/ Trouble(w)
      PROVE  OnceInv'
  <2>1. CASE Progress(w)
    BY <2>1, LoopStepPreserves, ConsumeOnce, SynthesizeOnce DEF Progress
  <2>2. CASE Decide(w)
    BY <2>2, DecideOnce
  <2>3. CASE Trouble(w)
    BY <2>3, LoopStepPreserves, FailsOnce DEF Trouble
  <2> QED
    BY <1>1, <2>1, <2>2, <2>3
<1>2. CASE Env
  BY <1>2, EnvFeeds, InvNext, FedOnce DEF Next
<1>3. CASE UNCHANGED vars
  <2>1. UNCHANGED <<input, decisions, proc, decided, starts>>
    BY <1>3 DEF vars, ownVars, loopVars
  <2>2. \A k : Adders(k)' = Adders(k)
    BY <2>1 DEF Adders
  <2> QED
    BY <2>1, <2>2 DEF OnceInv
<1> QED
  BY <1>1, <1>2, <1>3 DEF Next, Step

(* One process decides a claim once, re-emitted rows, failed syntheses,    *)
(* lost deliveries and evictions notwithstanding: a claim has no more      *)
(* decisions, published or queued, than processes were started.            *)
THEOREM DecidedOnce == Spec => []OneDecisionPerProcess
<1>1. Spec => []IInv
  BY InvInit, InvNext, PTL DEF Spec
<1>2. Spec => []OnceInv
  BY <1>1, OnceInit, OnceNext, PTL DEF Spec
<1> QED
  BY <1>1, <1>2, OnceImplies, PTL

-------------------------------------------------------------------------------
(* What is forgotten is bounded.  The inductive invariant.                 *)

(* The record is a synthesis row that goes by key k.                       *)
IsRowOf(k, rec) == rec \in SynthesisReady /\ ClaimIdOf(rec) = k

(* A process with state r treats key k as decided -- it remembers it, or   *)
(* commits its row next -- and the decision is not being flushed.          *)
Slips(k, r, mem, topic) ==
  /\ k \in mem \/ (r.pc \in {"flush", "commit"} /\ IsRowOf(k, RecordOf(r, topic)))
  /\ ~(r.pc = "flush" /\ IsRowOf(k, RecordOf(r, topic)) /\ Queued(k, r.out))

(* A row that goes by key k is committed.                                  *)
CommittedRow(k, ack, topic) ==
  \E g \in Groups, p \in Partitions : \E i \in 1..ack[g][p] : IsRowOf(k, topic[p][i])

(* The keys without a decision that are committed, or will be skipped.     *)
Forgotten ==
  {k \in ClaimId :
     /\ decisions[k] = <<>>
     /\ \/ CommittedRow(k, acked, input)
        \/ \E w \in Processes : Slips(k, proc[w], decided[w], input)}

(* Each of them has cost a fault or a failed synthesis.                    *)
ForgottenInv ==
  IsFiniteSet(Forgotten) /\ Cardinality(Forgotten) <= trouble.faults + failures

(* What is forgotten now and was not before slipped through w or its       *)
(* commit.                                                                 *)
LEMMA SlipStep ==
  ASSUME NEW w \in Processes, OthersRest(w), input' = input,
         LogGrows(decisions, decisions'),
         \A v \in Processes \ {w} : decided'[v] = decided[v],
         NEW k \in Forgotten', k \notin Forgotten
  PROVE  /\ k \in ClaimId /\ decisions'[k] = <<>> /\ decisions[k] = <<>>
         /\ \/ CommittedRow(k, acked', input) /\ ~CommittedRow(k, acked, input)
            \/ /\ Slips(k, proc'[w], decided'[w], input)
               /\ ~Slips(k, proc[w], decided[w], input)
<1>1. k \in ClaimId /\ decisions'[k] = <<>> /\ decisions[k] = <<>>
  BY DEF Forgotten, LogGrows
<1>2. /\ ~CommittedRow(k, acked, input)
      /\ \A v \in Processes : ~Slips(k, proc[v], decided[v], input)
  BY <1>1 DEF Forgotten
<1>3. \/ CommittedRow(k, acked', input)
      \/ \E v \in Processes : Slips(k, proc'[v], decided'[v], input)
  BY DEF Forgotten
<1>4. ASSUME NEW v \in Processes, Slips(k, proc'[v], decided'[v], input)
      PROVE  v = w
  <2> SUFFICES ASSUME v # w PROVE FALSE
    OBVIOUS
  <2>1. proc'[v] = proc[v] /\ decided'[v] = decided[v]
    BY DEF OthersRest
  <2> QED
    BY <1>2, <1>4, <2>1
<1> QED
  BY <1>1, <1>2, <1>3, <1>4

(* A step that forgets nothing.                                            *)
LEMMA ForgetsNothing ==
  ASSUME ForgottenInv, IInv, IInv', \A k \in Forgotten' : k \in Forgotten,
         trouble.faults + failures <= trouble'.faults + failures'
  PROVE  ForgottenInv'
<1>1. /\ trouble.faults \in Nat /\ trouble'.faults \in Nat
      /\ failures \in Nat /\ failures' \in Nat
  BY DEF IInv, LoopInv, LoopTypeOK
<1>2. Forgotten' \subseteq Forgotten
  OBVIOUS
<1> QED
  BY <1>1, <1>2, NoMore DEF ForgottenInv

(* A step that forgets one key at the price of a fault or a failure.       *)
LEMMA ForgetsOne ==
  ASSUME ForgottenInv, IInv, IInv', NEW x, \A k \in Forgotten' : k \in Forgotten \/ k = x,
         trouble'.faults + failures' = trouble.faults + failures + 1
  PROVE  ForgottenInv'
<1>1. /\ trouble.faults \in Nat /\ trouble'.faults \in Nat
      /\ failures \in Nat /\ failures' \in Nat
  BY DEF IInv, LoopInv, LoopTypeOK
<1>2. Forgotten' \subseteq Forgotten \cup {x}
  OBVIOUS
<1>3. IsFiniteSet(Forgotten) /\ Cardinality(Forgotten) <= trouble.faults + failures
  BY DEF ForgottenInv
<1>4. /\ IsFiniteSet(Forgotten') /\ Cardinality(Forgotten') \in Nat
      /\ Cardinality(Forgotten) \in Nat
      /\ Cardinality(Forgotten') <= Cardinality(Forgotten) + 1
  BY <1>2, <1>3, OneMore
<1>5. Cardinality(Forgotten') <= trouble'.faults + failures'
  BY <1>1, <1>3, <1>4
<1> QED
  BY <1>4, <1>5 DEF ForgottenInv

(* The loop's own steps forget the row in hand at most, by a fault.        *)
LEMMA TurnForgets ==
  ASSUME ForgottenInv, IInv, IInv', NEW w \in Processes, Turn(w) \/ Upset(w), Memory(w)
  PROVE  ForgottenInv'
<1>1. /\ LoopInv(Record, DecisionFinal) /\ decided \in [Processes -> SUBSET ClaimId]
      /\ trouble.faults \in Nat /\ failures \in Nat
  BY DEF IInv, LoopInv, LoopTypeOK
<1>2. /\ UNCHANGED <<input, decisions, failures>>
      /\ decided' = [decided EXCEPT ![w] = IF proc'[w].pc = "down" THEN {} ELSE @]
  BY DEF Memory
<1>3. /\ \A v \in Processes \ {w} : decided'[v] = decided[v]
      /\ decided'[w] \subseteq decided[w]
      /\ proc'[w].pc = "down" => decided'[w] = {}
  BY <1>1, <1>2
<1>4. Effect(w) /\ OthersRest(w) /\ trouble.faults <= trouble'.faults
      /\ trouble'.faults \in Nat
  BY <1>1, <1>2, TurnStep DEF Effect, LoopInv, LoopTypeOK, IInv
<1>5. LogGrows(decisions, decisions')
  BY <1>2 DEF LogGrows
<1>6. trouble.faults + failures <= trouble'.faults + failures'
  BY <1>1, <1>2, <1>4
<1> DEFINE x == ClaimIdOf(RecordOf(proc[w], input))
<1>7. ASSUME Rests(w) \/ Keeps(w) \/ (Flushes(w) /\ proc[w].out = <<>>),
             NEW k \in Forgotten'
      PROVE  k \in Forgotten
  <2>1. acked' = acked
    BY <1>7 DEF Rests, Keeps, Flushes
  <2>2. Slips(k, proc'[w], decided'[w], input) => Slips(k, proc[w], decided[w], input)
    <3>1. CASE Rests(w)
      BY <1>3, <3>1 DEF Rests, Slips, Busy
    <3>2. CASE Keeps(w)
      BY <1>3, <3>2 DEF Keeps, Slips, RecordOf
    <3>3. CASE Flushes(w) /\ proc[w].out = <<>>
      BY <1>3, <3>3 DEF Flushes, Slips, RecordOf, Queued
    <3> QED
      BY <1>7, <3>1, <3>2, <3>3
  <2> QED
    BY <1>2, <1>3, <1>4, <1>5, <2>1, <2>2, SlipStep
<1>8. ASSUME Loses(w) \/ Flushes(w), NEW k \in Forgotten'
      PROVE  k \in Forgotten \/ k = x
  <2>1. /\ acked' = acked /\ RecordOf(proc'[w], input) = RecordOf(proc[w], input)
        /\ proc'[w].pc \in {"flush", "commit"} => proc[w].pc \in {"flush", "commit"}
    BY <1>8 DEF Loses, Flushes, RecordOf
  <2>2. IsRowOf(k, RecordOf(proc[w], input)) => k = x
    BY DEF IsRowOf
  <2> HIDE DEF x
  <2>3. Slips(k, proc'[w], decided'[w], input) =>
          Slips(k, proc[w], decided[w], input) \/ k = x
    BY <1>3, <2>1, <2>2 DEF Slips
  <2> QED
    BY <1>2, <1>3, <1>4, <1>5, <2>1, <2>3, SlipStep
<1>9. CASE Rests(w) \/ Keeps(w) \/ (Flushes(w) /\ proc[w].out = <<>>)
  BY <1>6, <1>7, <1>9, ForgetsNothing
<1>10. CASE Loses(w) \/ (Flushes(w) /\ proc[w].out # <<>>)
  <2>1. trouble'.faults + failures' = trouble.faults + failures + 1
    BY <1>1, <1>2, <1>10 DEF Loses, Flushes
  <2> QED
    BY <1>8, <1>10, <2>1, ForgetsOne
<1>11. CASE Commit(w)
  <2> DEFINE g == GroupOf[w]
             p == proc[w].msg.part
             off == proc[w].msg.off
  <2>1. /\ proc[w].pc = "commit" /\ proc'[w].pc \notin Busy
        /\ g \in Groups /\ p \in Partitions /\ off \in Nat /\ acked[g][p] = off
        /\ acked' \in [Groups -> [Partitions -> Nat]] /\ acked'[g][p] = off + 1
        /\ \A h \in Groups, q \in Partitions :
             h # g \/ q # p => acked'[h][q] = acked[h][q]
    BY <1>1, <1>11, CommitLemma
  <2> HIDE DEF g
  <2>2. ASSUME NEW k, CommittedRow(k, acked', input), ~CommittedRow(k, acked, input)
        PROVE  IsRowOf(k, RecordOf(proc[w], input))
    <3>1. PICK h \in Groups, q \in Partitions :
            \E i \in 1..acked'[h][q] : IsRowOf(k, input[q][i])
      BY <2>2 DEF CommittedRow
    <3>2. PICK i \in 1..acked'[h][q] : IsRowOf(k, input[q][i])
      BY <3>1
    <3>3. i \notin 1..acked[h][q]
      BY <2>2, <3>2 DEF CommittedRow
    <3>4. h = g /\ q = p
      BY <2>1, <3>3
    <3> HIDE DEF p, off
    <3>5. i = off + 1
      BY <2>1, <3>3, <3>4
    <3> QED
      BY <3>2, <3>4, <3>5 DEF RecordOf, p, off
  <2>3. ASSUME NEW k \in Forgotten', k \notin Forgotten PROVE FALSE
    <3>1. /\ k \in ClaimId /\ decisions[k] = <<>>
          /\ \/ CommittedRow(k, acked', input) /\ ~CommittedRow(k, acked, input)
             \/ /\ Slips(k, proc'[w], decided'[w], input)
                /\ ~Slips(k, proc[w], decided[w], input)
      BY <1>2, <1>3, <1>4, <1>5, <2>3, SlipStep
    <3>2. Slips(k, proc[w], decided[w], input)
      BY <1>3, <2>1, <2>2, <3>1 DEF Slips, Busy
    <3> QED
      BY <2>3, <3>1, <3>2 DEF Forgotten
  <2> QED
    BY <1>6, <2>3, ForgetsNothing
<1> QED
  BY <1>4, <1>9, <1>10, <1>11 DEF Effect

(* A row that is skipped was forgotten before, if it is.                   *)
LEMMA ConsumeForgets ==
  ASSUME ForgottenInv, IInv, IInv', NEW w \in Processes, NEW p \in Partitions, Consume(w, p)
  PROVE  ForgottenInv'
<1>1. LoopInv(Record, DecisionFinal) /\ LoopTypeOK(DecisionFinal)
      /\ trouble.faults \in Nat /\ failures \in Nat
  BY DEF IInv, LoopInv, LoopTypeOK
<1>2. PICK next \in {"work", "commit"} :
        Poll(w, p, next) /\ (next = "commit" <=> Skipped(w, Peek(w, p)))
  BY DEF Consume
<1>3. UNCHANGED <<input, decisions, decided, starts, failures>>
  BY DEF Consume
<1>4. /\ OthersRest(w) /\ proc[w].pc = "poll" /\ proc'[w].pc = next
      /\ proc'[w].msg = [part |-> p, off |-> proc[w].cursor[p]]
      /\ UNCHANGED <<acked, trouble>>
  BY <1>1, <1>2, PollLemma
<1>5. RecordOf(proc'[w], input) = Peek(w, p)
  BY <1>4 DEF RecordOf, Peek
<1>6. LogGrows(decisions, decisions')
  BY <1>3 DEF LogGrows
<1>7. ASSUME NEW k \in Forgotten' PROVE k \in Forgotten
  <2>1. Slips(k, proc'[w], decided[w], input) => k \in decided[w]
    <3>1. next = "commit" /\ IsRowOf(k, Peek(w, p)) => k \in decided[w]
      BY <1>2, OrchestratorAssumption DEF Skipped, IsRowOf, OrchestratorAssumption
    <3> QED
      BY <1>2, <1>4, <1>5, <3>1 DEF Slips
  <2>2. k \in decided[w] => Slips(k, proc[w], decided[w], input)
    BY <1>4 DEF Slips
  <2> QED
    BY <1>3, <1>4, <1>6, <2>1, <2>2, SlipStep
<1>8. trouble.faults + failures <= trouble'.faults + failures'
  BY <1>1, <1>3, <1>4
<1> QED
  BY <1>7, <1>8, ForgetsNothing

(* A claim that is remembered has its decision queued.                     *)
LEMMA SynthesizeForgets ==
  ASSUME ForgottenInv, IInv, IInv', NEW w \in Processes, Synthesize(w)
  PROVE  ForgottenInv'
<1> DEFINE row == InHand(w)
           x == ClaimIdOf(row)
           rec == DecisionOf(w)
<1>1. /\ LoopInv(Record, DecisionFinal) /\ LoopTypeOK(DecisionFinal)
      /\ RowOK(proc[w], input) /\ HandOK(proc[w], input)
      /\ decided \in [Processes -> SUBSET ClaimId]
      /\ trouble.faults \in Nat /\ failures \in Nat
  BY DEF IInv, LoopInv, LoopTypeOK
<1>2. /\ Produce(w, rec) /\ proc[w].pc = "work"
      /\ decided' = [decided EXCEPT ![w] = @ \cup {x}]
      /\ UNCHANGED <<input, decisions, starts, failures>>
  BY DEF Synthesize, Produce
<1>3. row \in SynthesisReady /\ proc[w].msg \in Position
  BY <1>1, <1>2 DEF RowOK, RecordOf, InHand, HandOK, Busy
<1>4. rec \in DecisionFinal /\ rec.claim = x
  BY <1>3, ClaimIdType DEF DecisionOf, DecisionFinal, ClaimId
<1> HIDE DEF rec
<1>5. /\ OthersRest(w) /\ proc'[w].pc = "flush" /\ proc'[w].msg = proc[w].msg
      /\ Len(proc[w].out) + 1 \in 1..Len(proc'[w].out)
      /\ proc'[w].out[Len(proc[w].out) + 1] = rec
      /\ UNCHANGED <<acked, trouble>>
  BY <1>1, <1>2, <1>4, ProduceLemma
<1>6. Queued(x, proc'[w].out) /\ RecordOf(proc'[w], input) = row
  BY <1>4, <1>5 DEF Queued, RecordOf, InHand
<1>7. LogGrows(decisions, decisions')
  BY <1>2 DEF LogGrows
<1>8. /\ \A v \in Processes \ {w} : decided'[v] = decided[v]
      /\ decided'[w] = decided[w] \cup {x}
  BY <1>1, <1>2
<1>9. ASSUME NEW k \in Forgotten' PROVE k \in Forgotten
  <2>1. Slips(k, proc'[w], decided'[w], input) => k # x
    BY <1>3, <1>5, <1>6 DEF Slips, IsRowOf
  <2>2. Slips(k, proc'[w], decided'[w], input) => k \in decided[w]
    BY <1>6, <1>8, <2>1 DEF Slips, IsRowOf
  <2>3. Slips(k, proc'[w], decided'[w], input) => Slips(k, proc[w], decided[w], input)
    BY <1>2, <2>2 DEF Slips
  <2> QED
    BY <1>2, <1>5, <1>7, <1>8, <2>3, SlipStep
<1>10. trouble.faults + failures <= trouble'.faults + failures'
  BY <1>1, <1>2, <1>5
<1> QED
  BY <1>9, <1>10, ForgetsNothing

(* A synthesis that raises forgets the row in hand.                        *)
LEMMA FailsForgets ==
  ASSUME ForgottenInv, IInv, IInv', NEW w \in Processes, SynthesizeFails(w)
  PROVE  ForgottenInv'
<1>1. LoopTypeOK(DecisionFinal) /\ trouble.faults \in Nat /\ failures \in Nat
  BY DEF IInv, LoopInv, LoopTypeOK
<1>2. /\ proc[w].pc = "work" /\ Goto(w, "commit") /\ failures' = failures + 1
      /\ UNCHANGED <<input, decisions, owner, acked, trouble, decided, starts>>
  BY DEF SynthesizeFails
<1>3. /\ OthersRest(w) /\ proc'[w].pc = "commit" /\ proc'[w].msg = proc[w].msg
      /\ proc'[w].out = proc[w].out
  BY <1>1, <1>2, GotoLemma DEF States, Busy
<1>4. LogGrows(decisions, decisions')
  BY <1>2 DEF LogGrows
<1> DEFINE x == ClaimIdOf(RecordOf(proc[w], input))
<1>5. ASSUME NEW k \in Forgotten' PROVE k \in Forgotten \/ k = x
  <2>1. Slips(k, proc'[w], decided'[w], input) =>
          Slips(k, proc[w], decided[w], input) \/ k = x
    BY <1>2, <1>3 DEF Slips, RecordOf, IsRowOf
  <2> QED
    BY <1>2, <1>3, <1>4, <2>1, SlipStep
<1>6. trouble'.faults + failures' = trouble.faults + failures + 1
  BY <1>1, <1>2
<1> QED
  BY <1>5, <1>6, ForgetsOne

(* A decision that is delivered is not forgotten any more.                 *)
LEMMA DecideForgets ==
  ASSUME ForgottenInv, IInv, IInv', NEW w \in Processes, Decide(w)
  PROVE  ForgottenInv'
<1> DEFINE out == proc[w].out
           head == Head(out)
<1>1. /\ LoopInv(Record, DecisionFinal) /\ LoopTypeOK(DecisionFinal)
      /\ decisions \in [ClaimId -> Seq(DecisionFinal)]
      /\ trouble.faults \in Nat /\ failures \in Nat
  BY DEF IInv, LoopInv, LoopTypeOK
<1>2. /\ Unqueue(w) /\ UNCHANGED <<trouble, input, decided, starts, failures>>
      /\ decisions' = [decisions EXCEPT ![head.claim] = Append(@, head)]
  BY DEF Decide, Sent
<1>3. /\ OthersRest(w)
      /\ proc'[w].pc = proc[w].pc /\ proc'[w].msg = proc[w].msg
      /\ proc'[w].out = Tail(out) /\ out \in Seq(DecisionFinal) /\ out # <<>>
      /\ UNCHANGED <<owner, acked>>
  BY <1>1, <1>2, UnqueueLemma
<1>4. head \in DecisionFinal /\ head = out[1]
  BY <1>3
<1>5. head.claim \in ClaimId
  BY <1>4 DEF DecisionFinal, ClaimId
<1> HIDE DEF head
<1>6. decisions'[head.claim] # <<>> /\ LogGrows(decisions, decisions')
  <2> DEFINE log == decisions[head.claim]
             log2 == Append(log, head)
  <2>1. log \in Seq(DecisionFinal)
    BY <1>1, <1>5
  <2>2. decisions' = [decisions EXCEPT ![head.claim] = log2]
    BY <1>2
  <2> HIDE DEF log
  <2>3. Len(log2) = Len(log) + 1 /\ Len(log) \in Nat
    BY <1>4, <2>1
  <2>4. log2 # <<>>
    BY <2>3
  <2> HIDE DEF log2
  <2> QED
    BY <1>1, <1>5, <2>2, <2>4 DEF LogGrows
<1>7. ASSUME NEW k, k # head.claim, Queued(k, out) PROVE Queued(k, Tail(out))
  <2>1. PICK i \in 1..Len(out) : out[i].claim = k
    BY <1>7 DEF Queued
  <2>2. i # 1
    BY <1>4, <1>7, <2>1
  <2>3. i - 1 \in 1..Len(Tail(out)) /\ Tail(out)[i - 1] = out[i]
    BY <1>3, <2>2
  <2> QED
    BY <2>1, <2>3 DEF Queued
<1> HIDE DEF out
<1>8. ASSUME NEW k \in Forgotten' PROVE k \in Forgotten
  <2>1. k # head.claim
    BY <1>6 DEF Forgotten
  <2>2. Slips(k, proc'[w], decided'[w], input) => Slips(k, proc[w], decided[w], input)
    BY <1>2, <1>3, <1>7, <2>1 DEF Slips, RecordOf, out
  <2> QED
    BY <1>2, <1>3, <1>6, <2>2, SlipStep
<1>9. trouble.faults + failures <= trouble'.faults + failures'
  BY <1>1, <1>2
<1> QED
  BY <1>8, <1>9, ForgetsNothing

(* A new row is not committed.                                             *)
LEMMA FedForgets ==
  ASSUME ForgottenInv, IInv, IInv', Fed
  PROVE  ForgottenInv'
<1>1. LoopInv(Record, DecisionFinal) /\ UNCHANGED <<decisions, loopVars, decided, failures>>
      /\ trouble.faults \in Nat /\ failures \in Nat
  BY DEF Fed, ownVars, IInv, LoopInv, LoopTypeOK
<1>2. UNCHANGED <<acked, proc, trouble>>
  BY <1>1 DEF loopVars
<1>3. PICK p \in Partitions, rec \in Record : input' = [input EXCEPT ![p] = Append(@, rec)]
  BY DEF Fed
<1>4. /\ \A q \in Partitions :
           Len(input[q]) \in Nat /\ \A i \in 1..Len(input[q]) : input'[q][i] = input[q][i]
      /\ \A w \in Processes :
           proc[w].pc \in Busy => RecordOf(proc[w], input') = RecordOf(proc[w], input)
  BY <1>1, <1>3, AppendStep
<1>5. ASSUME NEW k, CommittedRow(k, acked, input') PROVE CommittedRow(k, acked, input)
  <2>1. PICK g \in Groups, q \in Partitions :
          \E i \in 1..acked[g][q] : IsRowOf(k, input'[q][i])
    BY <1>5 DEF CommittedRow
  <2>2. PICK i \in 1..acked[g][q] : IsRowOf(k, input'[q][i])
    BY <2>1
  <2>3. acked[g][q] <= Len(input[q]) /\ acked[g][q] \in Nat /\ Len(input[q]) \in Nat
    BY <1>1, <1>4 DEF LoopInv, LoopTypeOK, CommitsBounded
  <2>4. i \in 1..Len(input[q])
    BY <2>3
  <2> QED
    BY <1>4, <2>2, <2>4 DEF CommittedRow
<1>6. ASSUME NEW k, NEW w \in Processes, Slips(k, proc[w], decided[w], input')
      PROVE  Slips(k, proc[w], decided[w], input)
  BY <1>4, <1>6 DEF Slips, Busy
<1>7. ASSUME NEW k \in Forgotten' PROVE k \in Forgotten
  BY <1>1, <1>2, <1>5, <1>6 DEF Forgotten
<1>8. trouble.faults + failures <= trouble'.faults + failures'
  BY <1>1, <1>2
<1> QED
  BY <1>7, <1>8, ForgetsNothing

(* At first nothing is committed or remembered.                            *)
LEMMA ForgottenInit == Init => ForgottenInv
<1> SUFFICES ASSUME Init PROVE ForgottenInv
  OBVIOUS
<1>1. /\ proc = [w \in Processes |-> Idle] /\ decided = [w \in Processes |-> {}]
      /\ acked = [g \in Groups |-> [p \in Partitions |-> 0]]
      /\ trouble.faults = 0 /\ failures = 0
  BY DEF Init, LoopInit
<1>2. ASSUME NEW k \in Forgotten PROVE FALSE
  <2>1. ~CommittedRow(k, acked, input)
    BY <1>1 DEF CommittedRow
  <2>2. \A w \in Processes : ~Slips(k, proc[w], decided[w], input)
    BY <1>1 DEF Slips, Idle
  <2> QED
    BY <2>1, <2>2 DEF Forgotten
<1>3. Forgotten = {}
  BY <1>2
<1>4. IsFiniteSet(Forgotten) /\ Cardinality(Forgotten) <= 0
  BY <1>3, FS_EmptySet
<1> QED
  BY <1>1, <1>4 DEF ForgottenInv

(* Every step keeps what is forgotten within the faults and failures.      *)
LEMMA ForgottenNext == ForgottenInv /\ IInv /\ IInv' /\ [Next]_vars => ForgottenInv'
<1> SUFFICES ASSUME ForgottenInv, IInv, IInv', [Next]_vars PROVE ForgottenInv'
  OBVIOUS
<1>1. ASSUME NEW w \in Processes, Progress(w) \/ Decide(w) \/ Trouble(w)
      PROVE  ForgottenInv'
  <2>1. CASE Progress(w)
    BY <2>1, TurnForgets, ConsumeForgets, SynthesizeForgets DEF Progress
  <2>2. CASE Decide(w)
    BY <2>2, DecideForgets
  <2>3. CASE Trouble(w)
    BY <2>3, TurnForgets, FailsForgets DEF Trouble
  <2> QED
    BY <1>1, <2>1, <2>2, <2>3
<1>2. CASE Env
  BY <1>2, EnvFeeds, FedForgets
<1>3. CASE UNCHANGED vars
  <2>1. UNCHANGED <<input, decisions, owner, acked, proc, trouble, decided, failures>>
    BY <1>3 DEF vars, ownVars, loopVars
  <2> QED
    BY <2>1 DEF ForgottenInv, Forgotten
<1> QED
  BY <1>1, <1>2, <1>3 DEF Next, Step

(* A key without decisions taken is without decisions on the topic.        *)
LEMMA ForgottenImplies == IInv /\ OnceInv /\ ForgottenInv => ForgottenBounded
<1> SUFFICES ASSUME IInv, OnceInv, ForgottenInv PROVE ForgottenBounded
  OBVIOUS
<1> DEFINE F == {k \in ClaimId : /\ \E p \in Partitions : RowsFor(k, p, Committed(p)) # {}
                                 /\ Taken(k) = 0}
<1>1. PICK h \in Groups : h = CHOOSE g \in Groups : TRUE
  <2>1. Groups # {}
    BY OrchestratorAssumption DEF OrchestratorAssumption
  <2> QED
    BY <2>1
<1>2. ASSUME NEW k \in F PROVE k \in Forgotten
  <2>1. PICK p \in Partitions : RowsFor(k, p, Committed(p)) # {}
    OBVIOUS
  <2>2. CommittedRow(k, acked, input)
    <3>1. PICK i \in 1..acked[h][p] : IsRowOf(k, input[p][i])
      BY <1>1, <2>1 DEF RowsFor, Committed, IsRowOf
    <3> QED
      BY <3>1 DEF CommittedRow
  <2>3. decisions[k] = <<>>
    <3>1. Cardinality(QueuedFor(k)) \in Nat
      BY QueuedOnce
    <3>2. decisions[k] \in Seq(DecisionFinal)
      BY DEF IInv
    <3>3. Len(decisions[k]) + Cardinality(QueuedFor(k)) = 0
      BY DEF Taken, QueuedFor
    <3>4. Len(decisions[k]) = 0
      BY <3>1, <3>2, <3>3
    <3> QED
      BY <3>2, <3>4
  <2> QED
    BY <2>2, <2>3 DEF Forgotten
<1>3. Cardinality(F) <= Cardinality(Forgotten) /\ Cardinality(F) \in Nat
      /\ Cardinality(Forgotten) \in Nat
  <2>1. F \subseteq Forgotten
    BY <1>2
  <2> HIDE DEF F
  <2> QED
    BY <2>1, NoMore DEF ForgottenInv
<1>4. trouble.faults \in Nat /\ failures \in Nat
  BY DEF IInv, LoopInv, LoopTypeOK
<1> HIDE DEF F
<1>5. Cardinality(F) <= trouble.faults + failures
  BY <1>3, <1>4 DEF ForgottenInv
<1> QED
  BY <1>5 DEF ForgottenBounded, F

(* What was forgotten is bounded: a key is left with committed rows and no *)
(* decision at the cost of a fault or of a failed synthesis each.          *)
THEOREM FewRowsForgotten == Spec => []ForgottenBounded
<1>1. Init => IInv /\ OnceInv /\ ForgottenInv
  BY InvInit, OnceInit, ForgottenInit
<1>2. IInv /\ OnceInv /\ ForgottenInv /\ [Next]_vars => IInv' /\ OnceInv' /\ ForgottenInv'
  BY InvNext, OnceNext, ForgottenNext
<1> QED
  BY <1>1, <1>2, ForgottenImplies, PTL DEF Spec

-------------------------------------------------------------------------------
(* Which row a decision is of, and in which order.                         *)

(* Rows lie in the partition of their claim.                               *)
Placed(topic) ==
  \A p \in Partitions : \A i \in 1..Len(topic[p]) :
    topic[p][i] \in SynthesisReady => PartitionOf[topic[p][i].claim] = p

(* A decision was taken from a row of its claim id that is on the topic.   *)
DecisionOK(d, topic) ==
  /\ d.row.off < Len(topic[d.row.part])
  /\ IsRowOf(d.claim, topic[d.row.part][d.row.off + 1])

(* What is published stands under its claim id.                            *)
LogOK(log, topic) ==
  \A k \in ClaimId : \A n \in 1..Len(log[k]) :
    log[k][n].claim = k /\ DecisionOK(log[k][n], topic)

(* So will what is queued.                                                 *)
OutOK(r, topic) == \A n \in 1..Len(r.out) : DecisionOK(r.out[n], topic)

(* The topic holds finitely many decisions.                                *)
FiniteLog(log) == IsFiniteSet({x \in ClaimId \X Nat : x[2] \in 1..Len(log[x[1]])})

(* Rows and decisions are where they belong.  The inductive invariant.     *)
RowsInv ==
  /\ Placed(input) /\ LogOK(decisions, input) /\ FiniteLog(decisions)
  /\ \A w \in Processes : OutOK(proc[w], input)

(* What delivering a decision does, to the queue and to the topic.         *)
LEMMA DecideFacts ==
  ASSUME IInv, NEW w \in Processes, Decide(w)
  PROVE  LET head == Head(proc[w].out)
             log == decisions[head.claim]
         IN  /\ head \in DecisionFinal /\ head.claim \in ClaimId
             /\ head.row.part \in Partitions /\ head.row.off \in Nat
             /\ 1 \in 1..Len(proc[w].out) /\ head = proc[w].out[1]
             /\ OthersRest(w) /\ proc[w].out \in Seq(DecisionFinal) /\ proc[w].out # <<>>
             /\ proc'[w].out = Tail(proc[w].out)
             /\ proc'[w].pc = proc[w].pc /\ proc'[w].msg = proc[w].msg
             /\ UNCHANGED <<input, owner, acked, trouble, decided, starts, failures>>
             /\ Len(log) \in Nat /\ Len(decisions'[head.claim]) = Len(log) + 1
             /\ decisions'[head.claim][Len(log) + 1] = head
             /\ \A n \in 1..Len(log) : decisions'[head.claim][n] = log[n]
             /\ \A k \in ClaimId : k # head.claim => decisions'[k] = decisions[k]
<1> DEFINE out == proc[w].out
           head == Head(out)
<1>1. /\ LoopTypeOK(DecisionFinal) /\ decisions \in [ClaimId -> Seq(DecisionFinal)]
  BY DEF IInv, LoopInv
<1>2. /\ Unqueue(w) /\ UNCHANGED <<trouble, input, decided, starts, failures>>
      /\ decisions' = [decisions EXCEPT ![head.claim] = Append(@, head)]
  BY DEF Decide, Sent
<1>3. /\ OthersRest(w)
      /\ proc'[w].pc = proc[w].pc /\ proc'[w].msg = proc[w].msg
      /\ proc'[w].out = Tail(out) /\ out \in Seq(DecisionFinal) /\ out # <<>>
      /\ UNCHANGED <<owner, acked>>
  BY <1>1, <1>2, UnqueueLemma
<1>4. head \in DecisionFinal /\ 1 \in 1..Len(out) /\ head = out[1]
  BY <1>3
<1>5. head.claim \in ClaimId /\ head.row.part \in Partitions /\ head.row.off \in Nat
  BY <1>4 DEF DecisionFinal, ClaimId, Position
<1> HIDE DEF head
<1> DEFINE log == decisions[head.claim]
           log2 == Append(log, head)
<1>6. log \in Seq(DecisionFinal)
  BY <1>1, <1>5
<1>7. decisions' = [decisions EXCEPT ![head.claim] = log2]
  BY <1>2
<1> HIDE DEF log
<1>8. /\ Len(log) \in Nat /\ Len(log2) = Len(log) + 1 /\ log2[Len(log) + 1] = head
      /\ \A n \in 1..Len(log) : log2[n] = log[n]
  BY <1>4, <1>6
<1> HIDE DEF log2
<1>9. /\ decisions'[head.claim] = log2
      /\ \A k \in ClaimId : k # head.claim => decisions'[k] = decisions[k]
  BY <1>1, <1>5, <1>7
<1> QED
  BY <1>2, <1>3, <1>4, <1>5, <1>8, <1>9 DEF head, log

(* A queue that gains nothing.                                             *)
LEMMA OutShrinks ==
  ASSUME IInv, NEW w \in Processes, OutOK(proc[w], input), input' = input,
         \/ proc'[w].out = <<>> \/ proc'[w].out = proc[w].out
         \/ proc[w].out # <<>> /\ proc'[w].out = Tail(proc[w].out)
  PROVE  OutOK(proc'[w], input)
<1>1. proc[w].out \in Seq(DecisionFinal)
  BY ProcFacts DEF IInv, LoopInv
<1>2. CASE proc[w].out # <<>> /\ proc'[w].out = Tail(proc[w].out)
  <2>1. ASSUME NEW n \in 1..Len(proc'[w].out)
        PROVE  n + 1 \in 1..Len(proc[w].out) /\ proc'[w].out[n] = proc[w].out[n + 1]
    BY <1>1, <1>2
  <2> QED
    BY <2>1 DEF OutOK
<1>3. CASE proc'[w].out = <<>> \/ proc'[w].out = proc[w].out
  BY <1>3 DEF OutOK
<1> QED
  BY <1>2, <1>3

(* A step of w that leaves the topics alone.                               *)
LEMMA RowsFrame ==
  ASSUME RowsInv, NEW w \in Processes, OthersRest(w), UNCHANGED <<input, decisions>>,
         OutOK(proc'[w], input)
  PROVE  RowsInv'
<1>1. ASSUME NEW v \in Processes PROVE OutOK(proc'[v], input)
  BY DEF RowsInv, OthersRest
<1> QED
  BY <1>1 DEF RowsInv

(* The loop's own steps decide nothing.                                    *)
LEMMA TurnRows ==
  ASSUME IInv, RowsInv, NEW w \in Processes, Turn(w) \/ Upset(w),
         UNCHANGED <<input, decisions>>
  PROVE  RowsInv'
<1>1. LoopInv(Record, DecisionFinal) /\ OutOK(proc[w], input)
  BY DEF IInv, RowsInv
<1>2. Effect(w) /\ OthersRest(w)
  BY <1>1, TurnStep DEF Effect
<1>3. \/ proc'[w].out = <<>> \/ proc'[w].out = proc[w].out
      \/ proc[w].out # <<>> /\ proc'[w].out = Tail(proc[w].out)
  <2>1. Commit(w) => proc'[w].out = proc[w].out
    BY <1>1, CommitLemma
  <2> QED
    BY <1>2, <2>1 DEF Effect, Rests, Keeps, Flushes, Loses
<1>4. OutOK(proc'[w], input)
  BY <1>1, <1>3, OutShrinks
<1> QED
  BY <1>2, <1>4, RowsFrame

(* What a synthesis queues is the decision of the row in hand.             *)
LEMMA SynthesizeFacts ==
  ASSUME IInv, RowsInv, NEW w \in Processes, Synthesize(w)
  PROVE  LET d == DecisionOf(w)
         IN  /\ d \in DecisionFinal /\ d.row = proc[w].msg /\ DecisionOK(d, input)
             /\ d.claim = ClaimIdOf(InHand(w)) /\ d.claim \in ClaimId
             /\ OthersRest(w) /\ Produce(w, d) /\ proc[w].out \in Seq(DecisionFinal)
             /\ proc'[w].out = Append(proc[w].out, d)
             /\ proc[w].pc = "work" /\ proc'[w].pc = "flush" /\ proc'[w].msg = proc[w].msg
             /\ UNCHANGED <<input, owner, acked, trouble, decisions, starts, failures>>
<1> DEFINE d == DecisionOf(w)
           row == InHand(w)
<1>1. /\ LoopInv(Record, DecisionFinal) /\ LoopTypeOK(DecisionFinal)
      /\ RowOK(proc[w], input) /\ HandOK(proc[w], input)
  BY DEF IInv, LoopInv
<1>2. /\ Produce(w, d) /\ proc[w].pc = "work"
      /\ UNCHANGED <<input, decisions, starts, failures>>
  BY DEF Synthesize, Produce
<1>3. /\ row \in SynthesisReady /\ proc[w].msg \in Position
      /\ proc[w].msg.off < Len(input[proc[w].msg.part])
  BY <1>1, <1>2 DEF RowOK, RecordOf, InHand, HandOK, Busy
<1>4. ClaimIdOf(row) \in ClaimId
  BY <1>3, ClaimIdType
<1>5. /\ d \in DecisionFinal /\ d.claim = ClaimIdOf(row) /\ d.row = proc[w].msg
  BY <1>3, <1>4 DEF DecisionOf, DecisionFinal, ClaimId
<1> HIDE DEF d
<1>6. DecisionOK(d, input)
  BY <1>3, <1>5 DEF DecisionOK, IsRowOf, InHand
<1>7. /\ OthersRest(w) /\ proc'[w].pc = "flush" /\ proc'[w].msg = proc[w].msg
      /\ UNCHANGED <<owner, acked, trouble>>
  BY <1>1, <1>2, <1>5, ProduceLemma
<1>8. proc'[w].out = Append(proc[w].out, d) /\ proc[w].out \in Seq(DecisionFinal)
  <2>1. proc[w].out \in Seq(DecisionFinal) /\ proc \in [Processes -> Process(DecisionFinal)]
    BY <1>1, ProcFacts
  <2> QED
    BY <1>2, <2>1 DEF Produce, Process
<1> QED
  BY <1>2, <1>4, <1>5, <1>6, <1>7, <1>8 DEF d

(* Synthesize queues a decision of the row in hand.                        *)
LEMMA SynthesizeRows ==
  ASSUME IInv, RowsInv, NEW w \in Processes, Synthesize(w)
  PROVE  RowsInv'
<1> DEFINE d == DecisionOf(w)
<1>1. /\ d \in DecisionFinal /\ DecisionOK(d, input) /\ OthersRest(w)
      /\ proc[w].out \in Seq(DecisionFinal) /\ proc'[w].out = Append(proc[w].out, d)
      /\ UNCHANGED <<input, decisions>>
  BY SynthesizeFacts
<1> HIDE DEF d
<1>2. OutOK(proc'[w], input)
  <2>1. ASSUME NEW n \in 1..Len(proc'[w].out)
        PROVE  \/ n \in 1..Len(proc[w].out) /\ proc'[w].out[n] = proc[w].out[n]
               \/ proc'[w].out[n] = d
    BY <1>1
  <2> QED
    BY <1>1, <2>1 DEF OutOK, RowsInv
<1> QED
  BY <1>1, <1>2, RowsFrame

(* A decision that is delivered is under its key.                          *)
LEMMA DecideRows ==
  ASSUME IInv, RowsInv, NEW w \in Processes, Decide(w)
  PROVE  RowsInv'
<1> DEFINE head == Head(proc[w].out)
           log == decisions[head.claim]
<1>1. /\ head \in DecisionFinal /\ head.claim \in ClaimId
      /\ 1 \in 1..Len(proc[w].out) /\ head = proc[w].out[1]
      /\ OthersRest(w) /\ proc[w].out # <<>>
      /\ proc'[w].out = Tail(proc[w].out) /\ input' = input
      /\ Len(log) \in Nat /\ Len(decisions'[head.claim]) = Len(log) + 1
      /\ decisions'[head.claim][Len(log) + 1] = head
      /\ \A n \in 1..Len(log) : decisions'[head.claim][n] = log[n]
      /\ \A k \in ClaimId : k # head.claim => decisions'[k] = decisions[k]
  BY DecideFacts
<1>2. LogOK(decisions, input) /\ FiniteLog(decisions) /\ OutOK(proc[w], input)
  BY DEF RowsInv
<1>3. DecisionOK(head, input)
  BY <1>1, <1>2 DEF OutOK
<1> HIDE DEF head
<1>4. ASSUME NEW k \in ClaimId, NEW n \in 1..Len(decisions'[k])
      PROVE  \/ n \in 1..Len(decisions[k]) /\ decisions'[k][n] = decisions[k][n]
             \/ k = head.claim /\ n = Len(log) + 1 /\ decisions'[k][n] = head
  <2>1. CASE k = head.claim
    <3>1. n \in 1..Len(log) \/ n = Len(log) + 1
      BY <1>1, <2>1
    <3> QED
      BY <1>1, <2>1, <3>1
  <2>2. CASE k # head.claim
    <3>1. decisions'[k] = decisions[k]
      BY <1>1, <2>2
    <3> QED
      BY <3>1
  <2> QED
    BY <2>1, <2>2
<1>5. LogOK(decisions', input)
  BY <1>1, <1>2, <1>3, <1>4 DEF LogOK
<1>6. FiniteLog(decisions')
  <2>1. {x \in ClaimId \X Nat : x[2] \in 1..Len(decisions'[x[1]])} \subseteq
          {x \in ClaimId \X Nat : x[2] \in 1..Len(decisions[x[1]])}
            \cup {<<head.claim, Len(log) + 1>>}
    BY <1>4
  <2> QED
    BY <1>2, <2>1, OneMore DEF FiniteLog
<1>7. ASSUME NEW v \in Processes PROVE OutOK(proc'[v], input)
  <2>1. CASE v = w
    BY <1>1, <1>2, <2>1, OutShrinks
  <2>2. CASE v # w
    BY <1>1, <2>2 DEF OthersRest, RowsInv
  <2> QED
    BY <2>1, <2>2
<1> QED
  BY <1>1, <1>5, <1>6, <1>7 DEF RowsInv

(* A row that arrives leaves the others where they are.                    *)
LEMMA FedRows ==
  ASSUME IInv, RowsInv, Fed
  PROVE  RowsInv'
<1>1. LoopInv(Record, DecisionFinal) /\ UNCHANGED <<decisions, loopVars>>
      /\ decisions \in [ClaimId -> Seq(DecisionFinal)]
  BY DEF Fed, ownVars, IInv
<1>2. PICK p \in Partitions, rec \in Record :
        /\ input' = [input EXCEPT ![p] = Append(@, rec)]
        /\ rec \in SynthesisReady => PartitionOf[rec.claim] = p
  BY DEF Fed
<1>3. \A q \in Partitions :
        Len(input[q]) \in Nat /\ \A i \in 1..Len(input[q]) : input'[q][i] = input[q][i]
  BY <1>1, <1>2, AppendStep
<1>4. \A q \in Partitions :
        /\ q # p => input'[q] = input[q]
        /\ q = p => /\ Len(input'[q]) = Len(input[q]) + 1
                    /\ input'[q][Len(input[q]) + 1] = rec
  BY <1>1, <1>2 DEF LoopInv
<1>5. Placed(input')
  <2> SUFFICES ASSUME NEW q \in Partitions, NEW i \in 1..Len(input'[q]),
                      input'[q][i] \in SynthesisReady
               PROVE  PartitionOf[input'[q][i].claim] = q
    BY DEF Placed
  <2>1. CASE i \in 1..Len(input[q])
    <3>1. input'[q][i] = input[q][i]
      BY <1>3, <2>1
    <3> QED
      BY <2>1, <3>1 DEF RowsInv, Placed
  <2>2. CASE i \notin 1..Len(input[q])
    <3>1. q = p /\ i = Len(input[q]) + 1
      BY <1>3, <1>4, <2>2
    <3> QED
      BY <1>2, <1>4, <3>1
  <2> QED
    BY <2>1, <2>2
<1>6. ASSUME NEW d \in DecisionFinal, DecisionOK(d, input) PROVE DecisionOK(d, input')
  <2> DEFINE q == d.row.part
             i == d.row.off + 1
  <2>1. q \in Partitions /\ d.row.off \in Nat /\ d.row.off < Len(input[q])
    BY <1>6 DEF DecisionFinal, Position, DecisionOK
  <2>2. i \in 1..Len(input[q]) /\ Len(input[q]) <= Len(input'[q])
    BY <1>3, <1>4, <2>1
  <2>3. input'[q][i] = input[q][i] /\ d.row.off < Len(input'[q])
    <3>1. Len(input'[q]) \in Nat
      BY <1>3, <1>4, <2>1
    <3> QED
      BY <1>3, <2>1, <2>2, <3>1
  <2> QED
    BY <1>6, <2>3 DEF DecisionOK
<1>7. LogOK(decisions, input')
  BY <1>1, <1>6 DEF RowsInv, LogOK
<1>8. \A w \in Processes : OutOK(proc[w], input')
  <2>1. \A w \in Processes : \A n \in 1..Len(proc[w].out) : proc[w].out[n] \in DecisionFinal
    <3>1. \A w \in Processes : proc[w].out \in Seq(DecisionFinal)
      BY <1>1, ProcFacts DEF LoopInv
    <3> QED
      BY <3>1
  <2> QED
    BY <1>6, <2>1 DEF RowsInv, OutOK
<1> QED
  BY <1>1, <1>5, <1>7, <1>8 DEF RowsInv, loopVars

(* Nothing is published or queued at first.                                *)
LEMMA RowsInit == Init => RowsInv
<1> SUFFICES ASSUME Init PROVE RowsInv
  OBVIOUS
<1>1. /\ input = [p \in Partitions |-> <<>>] /\ proc = [w \in Processes |-> Idle]
      /\ decisions = [k \in ClaimId |-> <<>>]
  BY DEF Init, LoopInit
<1>2. Placed(input) /\ LogOK(decisions, input)
  BY <1>1 DEF Placed, LogOK
<1>3. FiniteLog(decisions)
  <2>1. {x \in ClaimId \X Nat : x[2] \in 1..Len(decisions[x[1]])} = {}
    BY <1>1
  <2> QED
    BY <2>1, FS_EmptySet DEF FiniteLog
<1>4. \A w \in Processes : OutOK(proc[w], input)
  <2>1. \A w \in Processes : proc[w].out = <<>>
    BY <1>1 DEF Idle
  <2> QED
    BY <2>1 DEF OutOK
<1> QED
  BY <1>2, <1>3, <1>4 DEF RowsInv

(* Every step leaves rows and decisions where they belong.                 *)
LEMMA RowsNext == IInv /\ RowsInv /\ [Next]_vars => RowsInv'
<1> SUFFICES ASSUME IInv, RowsInv, [Next]_vars PROVE RowsInv'
  OBVIOUS
<1>1. ASSUME NEW w \in Processes, (Turn(w) \/ Upset(w)) /\ Memory(w) PROVE RowsInv'
  BY <1>1, TurnRows DEF Memory
<1>2. LoopTypeOK(DecisionFinal)
  BY DEF IInv, LoopInv
<1>3. ASSUME NEW w \in Processes, NEW p \in Partitions, Consume(w, p) PROVE RowsInv'
  <2>1. PICK next \in {"work", "commit"} : Poll(w, p, next)
    BY <1>3 DEF Consume
  <2>2. OthersRest(w) /\ proc'[w].out = proc[w].out /\ UNCHANGED <<input, decisions>>
    BY <1>2, <1>3, <2>1, PollLemma DEF Consume
  <2> QED
    BY <2>2, OutShrinks, RowsFrame DEF RowsInv
<1>4. ASSUME NEW w \in Processes, SynthesizeFails(w) PROVE RowsInv'
  <2>1. OthersRest(w) /\ proc'[w].out = proc[w].out /\ UNCHANGED <<input, decisions>>
    BY <1>2, <1>4, GotoLemma DEF SynthesizeFails, States, Busy
  <2> QED
    BY <2>1, OutShrinks, RowsFrame DEF RowsInv
<1>5. ASSUME NEW w \in Processes, Progress(w) \/ Decide(w) \/ Trouble(w) PROVE RowsInv'
  BY <1>1, <1>3, <1>4, <1>5, SynthesizeRows, DecideRows DEF Progress, Trouble
<1>6. CASE Env
  BY <1>6, EnvFeeds, FedRows
<1>7. CASE UNCHANGED vars
  <2>1. UNCHANGED <<input, decisions, proc>>
    BY <1>7 DEF vars, ownVars, loopVars
  <2> QED
    BY <2>1 DEF RowsInv
<1> QED
  BY <1>5, <1>6, <1>7 DEF Next, Step

-------------------------------------------------------------------------------

(* What is queued is the decision of the row in hand, being flushed.       *)
OnlyFlushed(r) ==
  r.out = <<>> \/ (r.pc = "flush" /\ Len(r.out) = 1 /\ r.out[1].row = r.msg)

(* The decisions of a claim, in the order of the topic, are of rows in the *)
(* order of the topic, none of them past the next one to commit.           *)
InOrder(log, ack) ==
  \A c \in Claims : \A n \in 1..Len(log[c]) :
    /\ \A g \in Groups : log[c][n].row.off <= ack[g][PartitionOf[c]]
    /\ \A m \in 1..Len(log[c]) : m < n => log[c][m].row.off <= log[c][n].row.off

(* The inductive invariant of DecisionsInRowOrder.                         *)
OrderInv ==
  /\ trouble.evictions = 0 => HandsOwned(proc, owner)
  /\ trouble.evictions = 0 /\ trouble.faults = 0 =>
       /\ \A w \in Processes : OnlyFlushed(proc[w])
       /\ InOrder(decisions, acked)

(* All processes are in the one group.                                     *)
LEMMA OneGroup ==
  /\ \A g, h \in Groups : g = h
  /\ (CHOOSE g \in Groups : TRUE) \in Groups
BY OrchestratorAssumption DEF OrchestratorAssumption

(* A queue of one is emptied by its first delivery.                        *)
LEMMA EmptyTail ==
  ASSUME NEW S, NEW q \in Seq(S), Len(q) = 1
  PROVE  Tail(q) = <<>>
<1>1. Tail(q) \in Seq(S) /\ Len(Tail(q)) = 0
  OBVIOUS
<1>2. \A s \in Seq(S) : Len(s) = 0 => s = <<>>
  OBVIOUS
<1> QED
  BY <1>1, <1>2

(* A decision of a claim was taken from a row in the claim's partition.    *)
LEMMA DecisionPlaced ==
  ASSUME IInv, RowsInv, NEW d \in DecisionFinal, DecisionOK(d, input), d.claim \in Claims
  PROVE  /\ d.row.part = PartitionOf[d.claim]
         /\ d.row.off + 1 \in RowsFor(d.claim, d.row.part, Len(input[d.row.part]))
<1> DEFINE p == d.row.part
           i == d.row.off + 1
<1>1. p \in Partitions /\ d.row.off \in Nat
  BY DEF DecisionFinal, Position
<1>2. Len(input[p]) \in Nat
  BY <1>1 DEF IInv, LoopInv
<1>3. i \in 1..Len(input[p]) /\ IsRowOf(d.claim, input[p][i])
  BY <1>1, <1>2 DEF DecisionOK
<1>4. input[p][i].claim = d.claim
  <2>1. Unknown \notin Claims
    BY EventsAssumption DEF EventsAssumption
  <2> QED
    BY <1>3, <2>1 DEF IsRowOf, ClaimIdOf
<1>5. PartitionOf[input[p][i].claim] = p
  BY <1>1, <1>3 DEF RowsInv, Placed, IsRowOf
<1> QED
  BY <1>3, <1>4, <1>5 DEF RowsFor, IsRowOf

(* What is in order stays in order as the group moves on.                  *)
LEMMA OrderStays ==
  ASSUME NEW log, NEW ack \in [Groups -> [Partitions -> Nat]],
         NEW ack2 \in [Groups -> [Partitions -> Nat]],
         log \in [ClaimId -> Seq(DecisionFinal)], InOrder(log, ack),
         \A g \in Groups, p \in Partitions : ack[g][p] <= ack2[g][p]
  PROVE  InOrder(log, ack2)
<1> SUFFICES ASSUME NEW c \in Claims, NEW n \in 1..Len(log[c]), NEW g \in Groups
             PROVE  log[c][n].row.off <= ack2[g][PartitionOf[c]]
  BY DEF InOrder
<1>1. PartitionOf[c] \in Partitions /\ c \in ClaimId
  BY EventsAssumption DEF EventsAssumption, ClaimId
<1>2. log[c][n] \in DecisionFinal
  BY <1>1
<1>3. log[c][n].row.off \in Nat
  BY <1>2 DEF DecisionFinal, Position
<1>4. log[c][n].row.off <= ack[g][PartitionOf[c]]
  BY DEF InOrder
<1>5. ack[g][PartitionOf[c]] \in Nat /\ ack2[g][PartitionOf[c]] \in Nat
      /\ ack[g][PartitionOf[c]] <= ack2[g][PartitionOf[c]]
  BY <1>1
<1> QED
  BY <1>3, <1>4, <1>5

(* The loop's own steps, without evictions and faults, publish nothing and *)
(* leave no decision in a queue that is not being flushed.                 *)
LEMMA TurnOrder ==
  ASSUME IInv, OrderInv, NEW w \in Processes, Turn(w) \/ Upset(w),
         UNCHANGED <<input, decisions>>
  PROVE  OrderInv'
<1>1. /\ LoopInv(Record, DecisionFinal) /\ decisions \in [ClaimId -> Seq(DecisionFinal)]
      /\ acked \in [Groups -> [Partitions -> Nat]]
      /\ trouble.evictions \in Nat
  BY DEF IInv, LoopInv, LoopTypeOK
<1>2. Effect(w) /\ OthersRest(w) /\ (trouble'.faults = 0 => trouble.faults = 0)
      /\ acked' \in [Groups -> [Partitions -> Nat]]
  BY <1>1, TurnStep DEF Effect, LoopInv, LoopTypeOK
<1>3. trouble.evictions = 0 /\ HandsOwned(proc, owner) =>
        (trouble'.evictions = 0 => HandsOwned(proc', owner'))
  BY <1>1, TurnOwns
<1>4. trouble'.evictions = 0 => trouble.evictions = 0
  <2>1. trouble' = trouble \/ \E kind \in Kinds : trouble' = [trouble EXCEPT ![kind] = @ + 1]
    BY DEF Turn, Upset, Start, Assign, AssignAt, Revoke, PollEmpty, FlushDone, Commit,
           CommitRejected, Close, Evict, Crash, RequestStop, DeliveryFails, FlushTimeout,
           Disrupted, Fault, Kinds, Count
  <2>2. trouble \in [Kinds -> Nat]
    BY <1>1 DEF LoopInv, LoopTypeOK, Kinds
  <2>3. ASSUME NEW kind \in Kinds, trouble' = [trouble EXCEPT ![kind] = @ + 1]
        PROVE  trouble'.evictions \in {trouble.evictions, trouble.evictions + 1}
    BY <2>2, <2>3 DEF Kinds
  <2> QED
    BY <1>1, <2>1, <2>3
<1>5. CommitsGrow
  BY <1>1, TurnSecures
<1>6. ASSUME trouble'.evictions = 0, trouble'.faults = 0
      PROVE  (\A v \in Processes : OnlyFlushed(proc'[v])) /\ InOrder(decisions, acked')
  <2>1. (\A v \in Processes : OnlyFlushed(proc[v])) /\ InOrder(decisions, acked)
    BY <1>2, <1>4, <1>6 DEF OrderInv
  <2>2. InOrder(decisions, acked')
    BY <1>1, <1>2, <1>5, <2>1, OrderStays DEF CommitsGrow
  <2>3. OnlyFlushed(proc[w])
    BY <2>1
  <2>4. OnlyFlushed(proc'[w])
    <3>1. CASE Rests(w)
      BY <2>3, <3>1 DEF Rests, OnlyFlushed, Busy
    <3>2. CASE Keeps(w)
      BY <2>3, <3>2 DEF Keeps, OnlyFlushed
    <3>3. CASE Flushes(w)
      BY <1>6, <3>3 DEF Flushes, OnlyFlushed
    <3>4. CASE Loses(w)
      BY <1>6, <3>4 DEF Loses
    <3>5. CASE Commit(w)
      <4>1. proc[w].pc = "commit" /\ proc'[w].out = proc[w].out
        BY <1>1, <3>5, CommitLemma
      <4> QED
        BY <2>3, <4>1 DEF OnlyFlushed
    <3> QED
      BY <1>2, <3>1, <3>2, <3>3, <3>4, <3>5 DEF Effect
  <2> QED
    BY <1>2, <2>1, <2>2, <2>4 DEF OthersRest
<1> QED
  BY <1>3, <1>4, <1>6 DEF OrderInv

(* A step that publishes nothing, commits nothing and takes no partition.  *)
LEMMA OrderFrame ==
  ASSUME OrderInv, NEW w \in Processes, OthersRest(w),
         UNCHANGED <<input, decisions, owner, acked, trouble>>,
         proc'[w].pc \in Busy /\ trouble.evictions = 0 =>
           owner[GroupOf[w]][proc'[w].msg.part] = w,
         trouble.evictions = 0 /\ trouble.faults = 0 => OnlyFlushed(proc'[w])
  PROVE  OrderInv'
<1>1. trouble.evictions = 0 => HandsOwned(proc', owner)
  BY DEF OrderInv, HandsOwned, OthersRest
<1>2. ASSUME trouble.evictions = 0, trouble.faults = 0, NEW v \in Processes
      PROVE  OnlyFlushed(proc'[v])
  BY <1>2 DEF OrderInv, OthersRest
<1> QED
  BY <1>1, <1>2 DEF OrderInv

(* The decision published is of the row in hand, the next to commit.       *)
LEMMA DecideOrder ==
  ASSUME IInv, RowsInv, OrderInv, NEW w \in Processes, Decide(w)
  PROVE  OrderInv'
<1> DEFINE head == Head(proc[w].out)
           log == decisions[head.claim]
<1>1. /\ head \in DecisionFinal /\ head.claim \in ClaimId
      /\ head.row.part \in Partitions /\ head.row.off \in Nat
      /\ 1 \in 1..Len(proc[w].out) /\ head = proc[w].out[1]
      /\ OthersRest(w) /\ proc[w].out \in Seq(DecisionFinal) /\ proc[w].out # <<>>
      /\ proc'[w].out = Tail(proc[w].out)
      /\ proc'[w].pc = proc[w].pc /\ proc'[w].msg = proc[w].msg
      /\ UNCHANGED <<input, owner, acked, trouble>>
      /\ Len(log) \in Nat /\ Len(decisions'[head.claim]) = Len(log) + 1
      /\ decisions'[head.claim][Len(log) + 1] = head
      /\ \A n \in 1..Len(log) : decisions'[head.claim][n] = log[n]
      /\ \A k \in ClaimId : k # head.claim => decisions'[k] = decisions[k]
  BY DecideFacts
<1>2. LoopInv(Record, DecisionFinal) /\ GroupOf[w] \in Groups
  BY ProcFacts DEF IInv, LoopInv
<1>3. DecisionOK(head, input)
  BY <1>1 DEF RowsInv, OutOK
<1> HIDE DEF head
<1>4. trouble.evictions = 0 => HandsOwned(proc', owner)
  BY <1>1 DEF OrderInv, HandsOwned, OthersRest
<1>5. ASSUME trouble.evictions = 0, trouble.faults = 0
      PROVE  (\A v \in Processes : OnlyFlushed(proc'[v])) /\ InOrder(decisions', acked)
  <2>1. /\ \A v \in Processes : OnlyFlushed(proc[v])
        /\ InOrder(decisions, acked) /\ HandsOwned(proc, owner)
    BY <1>5 DEF OrderInv
  <2>2. proc[w].pc = "flush" /\ Len(proc[w].out) = 1 /\ head.row = proc[w].msg
    BY <1>1, <2>1 DEF OnlyFlushed
  <2>3. proc'[w].out = <<>>
    BY <1>1, <2>2, EmptyTail
  <2>4. \A v \in Processes : OnlyFlushed(proc'[v])
    BY <1>1, <2>1, <2>3 DEF OnlyFlushed, OthersRest
  <2>5. \A g \in Groups : acked[g][head.row.part] = head.row.off
    <3>1. /\ owner[GroupOf[w]][proc[w].msg.part] = w /\ CursorOK(w, proc[w], owner, acked)
          /\ proc[w].msg.part \in Partitions
      BY <1>1, <1>2, <2>1, <2>2 DEF HandsOwned, Busy, LoopInv
    <3>2. proc[w].msg.off = acked[GroupOf[w]][proc[w].msg.part]
      BY <2>2, <3>1 DEF CursorOK, Busy
    <3>3. \A g \in Groups : g = GroupOf[w]
      BY <1>2, OneGroup
    <3> QED
      BY <2>2, <3>2, <3>3
  <2>6. ASSUME NEW c \in Claims, NEW n \in 1..Len(decisions'[c])
        PROVE  /\ \A g \in Groups : decisions'[c][n].row.off <= acked[g][PartitionOf[c]]
               /\ \A m \in 1..Len(decisions'[c]) :
                    m < n => decisions'[c][m].row.off <= decisions'[c][n].row.off
    <3>1. c \in ClaimId
      BY DEF ClaimId
    <3>2. CASE c # head.claim
      <4>1. decisions'[c] = decisions[c]
        BY <1>1, <3>1, <3>2
      <4> QED
        BY <2>1, <4>1 DEF InOrder
    <3>3. CASE c = head.claim
      <4>1. PartitionOf[c] = head.row.part
        BY <1>1, <1>3, <3>3, DecisionPlaced
      <4>2. \A m \in 1..Len(log) :
              /\ \A g \in Groups : log[m].row.off <= acked[g][PartitionOf[c]]
              /\ \A j \in 1..Len(log) : j < m => log[j].row.off <= log[m].row.off
        BY <2>1, <3>3 DEF InOrder
      <4>3. \A m \in 1..Len(log) : log[m].row.off <= head.row.off
        BY <1>2, <2>5, <4>1, <4>2
      <4>4. CASE n \in 1..Len(log)
        <5>1. \A m \in 1..Len(decisions'[c]) : m < n => m \in 1..Len(log)
          BY <1>1, <3>3, <4>4
        <5>2. decisions'[c][n] = log[n]
          BY <1>1, <3>3, <4>4
        <5>3. \A m \in 1..Len(log) : decisions'[c][m] = log[m]
          BY <1>1, <3>3
        <5>4. \A g \in Groups : decisions'[c][n].row.off <= acked[g][PartitionOf[c]]
          BY <4>2, <4>4, <5>2
        <5>5. ASSUME NEW m \in 1..Len(decisions'[c]), m < n
              PROVE  decisions'[c][m].row.off <= decisions'[c][n].row.off
          <6>1. m \in 1..Len(log)
            BY <5>1, <5>5
          <6> QED
            BY <4>2, <4>4, <5>2, <5>3, <5>5, <6>1
        <5> QED
          BY <5>4, <5>5
      <4>5. CASE n = Len(log) + 1
        <5>1. \A m \in 1..Len(decisions'[c]) : m < n => m \in 1..Len(log)
          BY <1>1, <3>3, <4>5
        <5>2. decisions'[c][n] = head
          BY <1>1, <3>3, <4>5
        <5>3. \A m \in 1..Len(log) : decisions'[c][m] = log[m]
          BY <1>1, <3>3
        <5>4. \A g \in Groups : head.row.off <= acked[g][PartitionOf[c]]
          BY <1>1, <2>5, <4>1
        <5>5. \A g \in Groups : decisions'[c][n].row.off <= acked[g][PartitionOf[c]]
          BY <5>2, <5>4
        <5>6. ASSUME NEW m \in 1..Len(decisions'[c]), m < n
              PROVE  decisions'[c][m].row.off <= decisions'[c][n].row.off
          <6>1. m \in 1..Len(log) /\ decisions'[c][m] = log[m]
            BY <5>1, <5>3, <5>6
          <6>2. log[m].row.off <= head.row.off
            BY <4>3, <6>1
          <6> QED
            BY <5>2, <6>1, <6>2
        <5> QED
          BY <5>5, <5>6
      <4>6. n \in 1..Len(log) \/ n = Len(log) + 1
        BY <1>1, <3>3
      <4> QED
        BY <4>4, <4>5, <4>6
    <3> QED
      BY <3>2, <3>3
  <2> QED
    BY <2>4, <2>6 DEF InOrder
<1> QED
  BY <1>1, <1>4, <1>5 DEF OrderInv

(* No decision is queued at first.                                         *)
LEMMA OrderInit == Init => OrderInv
<1> SUFFICES ASSUME Init PROVE OrderInv
  OBVIOUS
<1>1. proc = [w \in Processes |-> Idle] /\ decisions = [k \in ClaimId |-> <<>>]
  BY DEF Init, LoopInit
<1>2. \A w \in Processes : proc[w].pc = "down" /\ proc[w].out = <<>>
  BY <1>1 DEF Idle
<1>3. InOrder(decisions, acked)
  BY <1>1 DEF InOrder, ClaimId
<1> QED
  BY <1>2, <1>3 DEF OrderInv, HandsOwned, OnlyFlushed, Busy

(* Every step keeps the decisions in order.                                *)
LEMMA OrderNext == IInv /\ RowsInv /\ OrderInv /\ [Next]_vars => OrderInv'
<1> SUFFICES ASSUME IInv, RowsInv, OrderInv, [Next]_vars PROVE OrderInv'
  OBVIOUS
<1>1. ASSUME NEW w \in Processes, (Turn(w) \/ Upset(w)) /\ Memory(w) PROVE OrderInv'
  BY <1>1, TurnOrder DEF Memory
<1>2. LoopTypeOK(DecisionFinal)
  BY DEF IInv, LoopInv
<1>3. ASSUME NEW w \in Processes, NEW p \in Partitions, Consume(w, p) PROVE OrderInv'
  <2>1. PICK next \in {"work", "commit"} : Poll(w, p, next)
    BY <1>3 DEF Consume
  <2>2. /\ OthersRest(w) /\ proc'[w].out = proc[w].out /\ proc[w].pc = "poll"
        /\ proc'[w].msg = [part |-> p, off |-> proc[w].cursor[p]]
        /\ owner[GroupOf[w]][p] = w
        /\ UNCHANGED <<input, decisions, owner, acked, trouble>>
    BY <1>2, <1>3, <2>1, PollLemma DEF Consume
  <2>3. trouble.evictions = 0 /\ trouble.faults = 0 => OnlyFlushed(proc'[w])
    BY <2>2 DEF OrderInv, OnlyFlushed
  <2> QED
    BY <2>2, <2>3, OrderFrame
<1>4. ASSUME NEW w \in Processes, Synthesize(w) PROVE OrderInv'
  <2> DEFINE d == DecisionOf(w)
  <2>1. /\ d \in DecisionFinal /\ d.row = proc[w].msg
        /\ OthersRest(w) /\ proc[w].out \in Seq(DecisionFinal)
        /\ proc'[w].out = Append(proc[w].out, d)
        /\ proc[w].pc = "work" /\ proc'[w].pc = "flush" /\ proc'[w].msg = proc[w].msg
        /\ UNCHANGED <<input, owner, acked, trouble, decisions>>
    BY <1>4, SynthesizeFacts
  <2> HIDE DEF d
  <2>2. ASSUME trouble.evictions = 0, trouble.faults = 0 PROVE OnlyFlushed(proc'[w])
    <3>1. proc[w].out = <<>>
      BY <2>1, <2>2 DEF OrderInv, OnlyFlushed
    <3> QED
      BY <2>1, <3>1 DEF OnlyFlushed
  <2>3. trouble.evictions = 0 => owner[GroupOf[w]][proc'[w].msg.part] = w
    BY <2>1 DEF OrderInv, HandsOwned, Busy
  <2> QED
    BY <2>1, <2>2, <2>3, OrderFrame
<1>5. ASSUME NEW w \in Processes, SynthesizeFails(w) PROVE OrderInv'
  <2>1. /\ OthersRest(w) /\ proc'[w].out = proc[w].out /\ proc[w].pc = "work"
        /\ proc'[w].msg = proc[w].msg
        /\ UNCHANGED <<input, decisions, owner, acked, trouble>>
    BY <1>2, <1>5, GotoLemma DEF SynthesizeFails, States, Busy
  <2>2. trouble.evictions = 0 /\ trouble.faults = 0 => OnlyFlushed(proc'[w])
    BY <2>1 DEF OrderInv, OnlyFlushed
  <2>3. trouble.evictions = 0 => owner[GroupOf[w]][proc'[w].msg.part] = w
    BY <2>1 DEF OrderInv, HandsOwned, Busy
  <2> QED
    BY <2>1, <2>2, <2>3, OrderFrame
<1>6. ASSUME NEW w \in Processes, Progress(w) \/ Decide(w) \/ Trouble(w) PROVE OrderInv'
  BY <1>1, <1>3, <1>4, <1>5, <1>6, DecideOrder DEF Progress, Trouble
<1>7. CASE Env
  <2>1. UNCHANGED <<decisions, owner, acked, proc, trouble>>
    BY <1>7 DEF Env, ownVars, loopVars
  <2> QED
    BY <2>1 DEF OrderInv
<1>8. CASE UNCHANGED vars
  <2>1. UNCHANGED <<decisions, owner, acked, proc, trouble>>
    BY <1>8 DEF vars, ownVars, loopVars
  <2> QED
    BY <2>1 DEF OrderInv
<1> QED
  BY <1>6, <1>7, <1>8 DEF Next, Step

(* The invariant gives the order that DecisionsInRowOrder states.          *)
LEMMA OrderImplies == OrderInv => DecisionsInRowOrder
BY DEF OrderInv, InOrder, DecisionsInRowOrder

(* Decisions of a claim follow the order of its rows, whatever crashes and *)
(* through a rolling update: unless a process was evicted or a delivery cut*)
(* short, no decision comes after one that was taken from a later row.     *)
THEOREM DecisionsOrdered == Spec => []DecisionsInRowOrder
<1>1. Init => IInv /\ RowsInv /\ OrderInv
  BY InvInit, RowsInit, OrderInit
<1>2. IInv /\ RowsInv /\ OrderInv /\ [Next]_vars => IInv' /\ RowsInv' /\ OrderInv'
  BY InvNext, RowsNext, OrderNext
<1> QED
  BY <1>1, <1>2, OrderImplies, PTL DEF Spec

-------------------------------------------------------------------------------
(* How often a row is decided.                                             *)

(* The row a decision was taken from, as a partition and a number.         *)
RowNo == [d \in DecisionFinal |-> <<d.row.part, d.row.off + 1>>]

(* The decisions on the topic that were taken from row i of partition p.   *)
Verdicts(log, p, i) ==
  {x \in ClaimId \X Nat : /\ x[2] \in 1..Len(log[x[1]])
                          /\ RowNo[log[x[1]][x[2]]] = <<p, i>>}

(* How often each row has been decided.                                    *)
Told(log) == [x \in Lane \X Nat |-> Cardinality(Verdicts(log, x[1][2], x[2]))]

(* Who may still decide a row has it in hand, in the queue or ahead, and   *)
(* decisions beyond the first cost a disruption each.                      *)
SurplusInv ==
  QueuesOK(RowNo) /\ SurplusBounded(RowNo, Told(decisions), proc, owner, acked, Disruptions)

(* The row of a decision is a partition and a number.                      *)
LEMMA RowNoType ==
  /\ RowNo \in [DecisionFinal -> Partitions \X Nat]
  /\ \A d \in DecisionFinal : /\ RowNo[d] = <<d.row.part, d.row.off + 1>>
                              /\ d.row.part \in Partitions /\ d.row.off \in Nat
<1>1. ASSUME NEW d \in DecisionFinal
      PROVE  d.row.part \in Partitions /\ d.row.off \in Nat
  BY DEF DecisionFinal, Position
<1>2. \A d \in DecisionFinal : <<d.row.part, d.row.off + 1>> \in Partitions \X Nat
  BY <1>1
<1> QED
  BY <1>1, <1>2 DEF RowNo

(* There are finitely many decisions of a row.                             *)
LEMMA VerdictsFinite ==
  ASSUME NEW log, FiniteLog(log), NEW p, NEW i
  PROVE  IsFiniteSet(Verdicts(log, p, i)) /\ Cardinality(Verdicts(log, p, i)) \in Nat
<1>1. Verdicts(log, p, i) \subseteq {x \in ClaimId \X Nat : x[2] \in 1..Len(log[x[1]])}
  BY DEF Verdicts
<1> QED
  BY <1>1, NoMore DEF FiniteLog

(* Told counts the decisions of a row.                                     *)
LEMMA ToldType ==
  ASSUME NEW log, FiniteLog(log)
  PROVE  /\ Told(log) \in [Lane \X Nat -> Nat]
         /\ \A g \in Groups, p \in Partitions, i \in Nat :
              Told(log)[<<<<g, p>>, i>>] = Cardinality(Verdicts(log, p, i))
<1>1. \A x \in Lane \X Nat : Cardinality(Verdicts(log, x[1][2], x[2])) \in Nat
  BY VerdictsFinite
<1> QED
  BY <1>1 DEF Told, Lane

(* A decision that is delivered is one more of the row it was taken from.  *)
LEMMA DecideVerdicts ==
  ASSUME IInv, NEW w \in Processes, Decide(w)
  PROVE  LET head == Head(proc[w].out)
             new == <<head.claim, Len(decisions[head.claim]) + 1>>
         IN  \A p \in Partitions, i \in Nat :
               /\ <<p, i>> = RowNo[head] =>
                    Verdicts(decisions', p, i) = Verdicts(decisions, p, i) \cup {new}
               /\ <<p, i>> # RowNo[head] =>
                    Verdicts(decisions', p, i) = Verdicts(decisions, p, i)
               /\ new \notin Verdicts(decisions, p, i)
<1> SUFFICES ASSUME NEW p \in Partitions, NEW i \in Nat
             PROVE  LET head == Head(proc[w].out)
                        new == <<head.claim, Len(decisions[head.claim]) + 1>>
                    IN  /\ <<p, i>> = RowNo[head] =>
                             Verdicts(decisions', p, i) = Verdicts(decisions, p, i) \cup {new}
                        /\ <<p, i>> # RowNo[head] =>
                             Verdicts(decisions', p, i) = Verdicts(decisions, p, i)
                        /\ new \notin Verdicts(decisions, p, i)
  OBVIOUS
<1> DEFINE head == Head(proc[w].out)
           c == head.claim
           n == Len(decisions[head.claim])
           new == <<c, n + 1>>
<1>1. /\ head \in DecisionFinal /\ c \in ClaimId /\ n \in Nat
      /\ Len(decisions'[c]) = n + 1 /\ decisions'[c][n + 1] = head
      /\ \A m \in 1..n : decisions'[c][m] = decisions[c][m]
      /\ \A k \in ClaimId : k # c => decisions'[k] = decisions[k]
  BY DecideFacts
<1> HIDE DEF head, c
<1>2. new \notin Verdicts(decisions, p, i)
  BY <1>1 DEF Verdicts, c
<1>3. n = Len(decisions[c])
  BY DEF c
<1> HIDE DEF n
<1>4. ASSUME NEW x \in ClaimId \X Nat
      PROVE  x \in Verdicts(decisions', p, i) <=>
               \/ x \in Verdicts(decisions, p, i)
               \/ x = new /\ RowNo[head] = <<p, i>>
  <2>1. CASE x[1] # c
    <3>1. decisions'[x[1]] = decisions[x[1]] /\ x # new
      BY <1>1, <2>1
    <3> QED
      BY <3>1 DEF Verdicts
  <2>2. CASE x[1] = c
    <3>1. x = new <=> x[2] = n + 1
      BY <2>2
    <3>2. x[2] \in 1..(n + 1) <=> x[2] \in 1..n \/ x[2] = n + 1
      BY <1>1
    <3>3. CASE x[2] = n + 1
      <4>1. x \in Verdicts(decisions', p, i) <=> RowNo[head] = <<p, i>>
        BY <1>1, <2>2, <3>2, <3>3 DEF Verdicts
      <4>2. x = new
        BY <3>1, <3>3
      <4> QED
        BY <1>2, <4>1, <4>2
    <3>4. CASE x[2] # n + 1
      <4>1. x[2] \in 1..n => decisions'[x[1]][x[2]] = decisions[x[1]][x[2]]
        BY <1>1, <2>2
      <4> QED
        BY <1>1, <1>3, <2>2, <3>1, <3>2, <3>4, <4>1 DEF Verdicts
    <3> QED
      BY <3>3, <3>4
  <2> QED
    BY <2>1, <2>2
<1>5. new \in ClaimId \X Nat
  BY <1>1
<1> HIDE DEF new
<1>6. <<p, i>> = RowNo[head] =>
        Verdicts(decisions', p, i) = Verdicts(decisions, p, i) \cup {new}
  <2> SUFFICES ASSUME <<p, i>> = RowNo[head]
               PROVE  Verdicts(decisions', p, i) = Verdicts(decisions, p, i) \cup {new}
    OBVIOUS
  <2>1. \A x : x \in Verdicts(decisions', p, i) \/ x \in Verdicts(decisions, p, i) =>
                 x \in ClaimId \X Nat
    BY DEF Verdicts
  <2> QED
    BY <1>4, <1>5, <2>1
<1>7. <<p, i>> # RowNo[head] =>
        Verdicts(decisions', p, i) = Verdicts(decisions, p, i)
  <2> SUFFICES ASSUME <<p, i>> # RowNo[head]
               PROVE  Verdicts(decisions', p, i) = Verdicts(decisions, p, i)
    OBVIOUS
  <2>1. \A x : x \in Verdicts(decisions', p, i) \/ x \in Verdicts(decisions, p, i) =>
                 x \in ClaimId \X Nat
    BY DEF Verdicts
  <2> QED
    BY <1>4, <2>1
<1> QED
  BY <1>2, <1>6, <1>7 DEF new, n, c, head

(* A step that decides nothing and gives no row a new chance.              *)
LEMMA SurplusRests ==
  ASSUME IInv, RowsInv, SurplusInv, NoNewChance(RowNo), QueuesOK(RowNo)',
         UNCHANGED <<trouble, decisions>>
  PROVE  SurplusInv'
<1>1. LoopTypeOK(DecisionFinal) /\ FiniteLog(decisions)
  BY DEF IInv, LoopInv, RowsInv
<1>2. SurplusBounded(RowNo, Told(decisions), proc', owner', acked', Disruptions')
  BY <1>1, ToldType, RestSurplus DEF SurplusInv
<1> QED
  BY <1>2 DEF SurplusInv

(* The loop's own steps decide a row again by a disruption only.           *)
LEMMA TurnDecidesOnce ==
  ASSUME IInv, RowsInv, SurplusInv, NEW w \in Processes, Turn(w) \/ Upset(w),
         UNCHANGED <<input, decisions>>
  PROVE  SurplusInv'
<1>1. LoopInv(Record, DecisionFinal) /\ FiniteLog(decisions)
  BY DEF IInv, RowsInv
<1>2. QueuesOK(RowNo)'
  BY <1>1, RowNoType, TurnQueues DEF SurplusInv
<1>3. SurplusBounded(RowNo, Told(decisions), proc', owner', acked', Disruptions')
  BY <1>1, ToldType, TurnSurplus DEF SurplusInv
<1> QED
  BY <1>2, <1>3 DEF SurplusInv

(* A row that is polled was ahead and is in hand.                          *)
LEMMA ConsumeDecidesOnce ==
  ASSUME IInv, RowsInv, SurplusInv, NEW w \in Processes, NEW p \in Partitions,
         Consume(w, p)
  PROVE  SurplusInv'
<1>1. LoopInv(Record, DecisionFinal) /\ LoopTypeOK(DecisionFinal)
  BY DEF IInv, LoopInv
<1>2. PICK next \in {"work", "commit"} : Poll(w, p, next)
  BY DEF Consume
<1>3. UNCHANGED <<input, decisions, trouble>>
  BY <1>2 DEF Consume, Poll
<1>4. NoNewChance(RowNo) /\ QueuesOK(RowNo)'
  BY <1>1, <1>2, <1>3, RowNoType, PollAnswers DEF SurplusInv
<1> QED
  BY <1>3, <1>4, SurplusRests

(* The decision that is queued is of the row in hand.                      *)
LEMMA SynthesizeDecidesOnce ==
  ASSUME IInv, RowsInv, SurplusInv, NEW w \in Processes, Synthesize(w)
  PROVE  SurplusInv'
<1> DEFINE d == DecisionOf(w)
<1>1. /\ d \in DecisionFinal /\ d.row = proc[w].msg /\ Produce(w, d)
      /\ UNCHANGED <<input, decisions, trouble>>
  BY SynthesizeFacts
<1>2. LoopInv(Record, DecisionFinal)
  BY DEF IInv
<1> HIDE DEF d
<1>3. RowNo[d] = Hand(proc[w])
  BY <1>1, RowNoType DEF Hand
<1>4. NoNewChance(RowNo) /\ QueuesOK(RowNo)'
  BY <1>1, <1>2, <1>3, RowNoType, ProduceAnswers DEF SurplusInv
<1> QED
  BY <1>1, <1>4, SurplusRests

(* A synthesis that raises gives the row up.                               *)
LEMMA FailsDecidesOnce ==
  ASSUME IInv, RowsInv, SurplusInv, NEW w \in Processes, SynthesizeFails(w)
  PROVE  SurplusInv'
<1>1. /\ Goto(w, "commit") /\ proc[w].pc = "work"
      /\ UNCHANGED <<input, decisions, owner, acked, trouble>>
  BY DEF SynthesizeFails
<1>2. LoopInv(Record, DecisionFinal) /\ trouble' \in [Kinds -> Nat]
  BY <1>1, ProcFacts DEF IInv, LoopInv
<1>3. NoNewChance(RowNo) /\ QueuesOK(RowNo)'
  BY <1>1, <1>2, RowNoType, GiveUpAnswers DEF SurplusInv
<1> QED
  BY <1>1, <1>3, SurplusRests

(* A decision that is published costs its row the chance it was.           *)
LEMMA DecideDecidesOnce ==
  ASSUME IInv, RowsInv, RowsInv', SurplusInv, NEW w \in Processes, Decide(w)
  PROVE  SurplusInv'
<1> DEFINE head == Head(proc[w].out)
           new == <<head.claim, Len(decisions[head.claim]) + 1>>
           told == Told(decisions)
           told2 == Told(decisions')
<1>1. /\ LoopInv(Record, DecisionFinal) /\ GroupOf[w] \in Groups /\ Sent(w)
      /\ input' = input /\ FiniteLog(decisions) /\ FiniteLog(decisions')
  BY ProcFacts DEF IInv, LoopInv, RowsInv, Decide
<1>2. /\ told \in [Lane \X Nat -> Nat] /\ told2 \in [Lane \X Nat -> Nat]
      /\ \A g \in Groups, p \in Partitions, i \in Nat :
           /\ told[<<<<g, p>>, i>>] = Cardinality(Verdicts(decisions, p, i))
           /\ told2[<<<<g, p>>, i>>] = Cardinality(Verdicts(decisions', p, i))
  BY <1>1, ToldType
<1>3. \A p \in Partitions, i \in Nat :
        /\ <<p, i>> = RowNo[head] =>
             Verdicts(decisions', p, i) = Verdicts(decisions, p, i) \cup {new}
        /\ <<p, i>> # RowNo[head] =>
             Verdicts(decisions', p, i) = Verdicts(decisions, p, i)
        /\ new \notin Verdicts(decisions, p, i)
  BY DecideVerdicts
<1> HIDE DEF told, told2, new
<1>4. HeadTold(w, RowNo, told, told2)
  <2> SUFFICES ASSUME NEW g \in Groups, NEW p \in Partitions, NEW i \in Nat
               PROVE  \/ told2[<<<<g, p>>, i>>] <= told[<<<<g, p>>, i>>]
                      \/ /\ g = GroupOf[w] /\ <<p, i>> = RowNo[head]
                         /\ told2[<<<<g, p>>, i>>] <= told[<<<<g, p>>, i>>] + 1
    BY DEF HeadTold
  <2> HIDE DEF head
  <2> DEFINE n == Cardinality(Verdicts(decisions, p, i))
             n2 == Cardinality(Verdicts(decisions', p, i))
  <2>1. told[<<<<g, p>>, i>>] = n /\ told2[<<<<g, p>>, i>>] = n2
    BY <1>2
  <2>2. n \in Nat /\ n2 \in Nat /\ IsFiniteSet(Verdicts(decisions, p, i))
    BY <1>1, VerdictsFinite
  <2>3. CASE <<p, i>> = RowNo[head]
    <3>1. Verdicts(decisions', p, i) \subseteq Verdicts(decisions, p, i) \cup {new}
      BY <1>3, <2>3
    <3>2. n2 <= n + 1
      BY <2>2, <3>1, OneMore
    <3>3. g = GroupOf[w]
      BY <1>1, OneGroup
    <3> QED
      BY <2>1, <2>3, <3>2, <3>3
  <2>4. CASE <<p, i>> # RowNo[head]
    <3>1. n2 = n
      BY <1>3, <2>4
    <3> HIDE DEF n, n2
    <3> QED
      BY <2>1, <2>2, <3>1
  <2> QED
    BY <2>3, <2>4
<1>5. SurplusBounded(RowNo, told, proc, owner, acked, Disruptions) /\ QueuesOK(RowNo)
  BY DEF SurplusInv, told
<1>6. RowNo \in [DecisionFinal -> Partitions \X Nat]
  BY RowNoType
<1>7. /\ SurplusBounded(RowNo, told2, proc', owner', acked', Disruptions')
      /\ QueuesOK(RowNo)'
  BY <1>1, <1>2, <1>4, <1>5, <1>6, SentSurplus
<1> QED
  BY <1>7 DEF SurplusInv, told2

(* At first every row has one chance at most.                              *)
LEMMA SurplusInit == Init => SurplusInv
<1> SUFFICES ASSUME Init PROVE SurplusInv
  OBVIOUS
<1>1. LoopInit /\ decisions = [k \in ClaimId |-> <<>>]
  BY DEF Init
<1>2. FiniteLog(decisions)
  BY RowsInit DEF RowsInv
<1>3. ASSUME NEW x \in Lane \X Nat PROVE Told(decisions)[x] = 0
  <2>1. Verdicts(decisions, x[1][2], x[2]) = {}
    BY <1>1 DEF Verdicts
  <2> QED
    BY <2>1, FS_EmptySet DEF Told
<1>4. Told(decisions) \in [Lane \X Nat -> Nat]
  BY <1>2, ToldType
<1> QED
  BY <1>1, <1>3, <1>4, SurplusStart DEF SurplusInv

(* No step decides a row again at nobody's expense.                        *)
LEMMA SurplusNext == IInv /\ RowsInv /\ RowsInv' /\ SurplusInv /\ [Next]_vars => SurplusInv'
<1> SUFFICES ASSUME IInv, RowsInv, RowsInv', SurplusInv, [Next]_vars PROVE SurplusInv'
  OBVIOUS
<1>1. ASSUME NEW w \in Processes, (Turn(w) \/ Upset(w)) /\ Memory(w) PROVE SurplusInv'
  BY <1>1, TurnDecidesOnce DEF Memory
<1>2. ASSUME NEW w \in Processes, Progress(w) \/ Decide(w) \/ Trouble(w) PROVE SurplusInv'
  BY <1>1, <1>2, ConsumeDecidesOnce, SynthesizeDecidesOnce, FailsDecidesOnce,
     DecideDecidesOnce DEF Progress, Trouble
<1>3. CASE UNCHANGED <<decisions, loopVars>>
  <2>1. UNCHANGED <<decisions, owner, acked, proc, trouble>>
    BY <1>3 DEF loopVars
  <2>2. Disruptions' = Disruptions /\ QueuesOK(RowNo)' = QueuesOK(RowNo)
    BY <2>1 DEF Disruptions, QueuesOK
  <2> QED
    BY <2>1, <2>2 DEF SurplusInv
<1> QED
  BY <1>2, <1>3 DEF Next, Step, Env, vars, ownVars

-------------------------------------------------------------------------------
(* The decisions of a claim, counted by the rows they were taken from.     *)

(* The decisions of claim c, on the topic ...                              *)
OnTopic(c) == {<<NoProcess, n>> : n \in 1..Len(decisions[c])}

(* ... or in a queue, each by its place ...                                *)
Places(c) == OnTopic(c) \cup QueuedFor(c)

(* ... and the decision there.                                             *)
DecisionAt(s, c) == IF s[1] = NoProcess THEN decisions[c][s[2]] ELSE proc[s[1]].out[s[2]]

(* What is at a place.                                                     *)
LEMMA PlaceFacts ==
  ASSUME IInv, RowsInv, NEW c \in ClaimId, NEW s \in Places(c)
  PROVE  /\ s = <<s[1], s[2]>> /\ s[2] \in Nat
         /\ DecisionAt(s, c) \in DecisionFinal /\ DecisionAt(s, c).claim = c
         /\ DecisionOK(DecisionAt(s, c), input)
         /\ s \in OnTopic(c) => /\ s[1] = NoProcess /\ s[2] \in 1..Len(decisions[c])
                                /\ DecisionAt(s, c) = decisions[c][s[2]]
         /\ s \notin OnTopic(c) => /\ s[1] \in Processes /\ s[1] # NoProcess
                                   /\ s[2] \in 1..Len(proc[s[1]].out)
                                   /\ DecisionAt(s, c) = proc[s[1]].out[s[2]]
<1>1. /\ LoopTypeOK(DecisionFinal) /\ decisions \in [ClaimId -> Seq(DecisionFinal)]
      /\ LogOK(decisions, input) /\ \A w \in Processes : OutOK(proc[w], input)
  BY DEF IInv, LoopInv, RowsInv
<1>2. CASE s \in OnTopic(c)
  <2>1. PICK n \in 1..Len(decisions[c]) : s = <<NoProcess, n>>
    BY <1>2 DEF OnTopic
  <2>2. decisions[c][n] \in DecisionFinal /\ n \in Nat
    BY <1>1
  <2>3. DecisionAt(s, c) = decisions[c][n]
    BY <2>1 DEF DecisionAt
  <2>4. decisions[c][n].claim = c /\ DecisionOK(decisions[c][n], input)
    BY <1>1 DEF LogOK
  <2> QED
    BY <1>2, <2>1, <2>2, <2>3, <2>4
<1>3. CASE s \notin OnTopic(c)
  <2>1. s \in UNION {{<<w, i>> : i \in {n \in 1..Len(proc[w].out) : proc[w].out[n].claim = c}} :
                       w \in Processes}
    BY <1>3 DEF Places, QueuedFor
  <2>2. PICK w \in Processes :
          s \in {<<w, i>> : i \in {n \in 1..Len(proc[w].out) : proc[w].out[n].claim = c}}
    BY <2>1
  <2>3. PICK n \in 1..Len(proc[w].out) : s = <<w, n>> /\ proc[w].out[n].claim = c
    BY <2>2
  <2>4. proc[w].out \in Seq(DecisionFinal) /\ w # NoProcess
    BY <1>1, ProcFacts
  <2>5. proc[w].out[n] \in DecisionFinal /\ n \in Nat
    BY <2>4
  <2>6. DecisionAt(s, c) = proc[w].out[n]
    BY <2>3, <2>4 DEF DecisionAt
  <2>7. DecisionOK(proc[w].out[n], input)
    BY <1>1 DEF OutOK
  <2> QED
    BY <1>3, <2>3, <2>4, <2>5, <2>6, <2>7
<1> QED
  BY <1>2, <1>3

(* The decisions taken for a claim are those at its places.                *)
LEMMA PlacesCount ==
  ASSUME IInv, OnceInv, NEW c \in ClaimId
  PROVE  /\ IsFiniteSet(Places(c)) /\ Taken(c) = Cardinality(Places(c))
<1> DEFINE n == Len(decisions[c])
           f == [m \in 1..n |-> <<NoProcess, m>>]
<1>1. n \in Nat
  BY DEF IInv
<1> HIDE DEF n
<1>2. IsFiniteSet(1..n) /\ Cardinality(1..n) = n
  BY <1>1, FS_Interval
<1>3. OnTopic(c) = {<<NoProcess, m>> : m \in 1..n}
  BY DEF OnTopic, n
<1>4. f \in Bijection(1..n, OnTopic(c))
  <2>1. f \in Injection(1..n, OnTopic(c))
    BY <1>3 DEF Injection, IsInjective
  <2>2. f \in Surjection(1..n, OnTopic(c))
    BY <1>3 DEF Surjection
  <2> QED
    BY <2>1, <2>2 DEF Bijection
<1>5. IsFiniteSet(OnTopic(c)) /\ Cardinality(OnTopic(c)) = n
  BY <1>2, <1>4, FS_Bijection DEF ExistsBijection
<1>6. IsFiniteSet(QueuedFor(c)) /\ Taken(c) = n + Cardinality(QueuedFor(c))
  <2>1. Taken(c) = n + Cardinality(QueuedFor(c))
    BY DEF Taken, QueuedFor, n
  <2> QED
    BY <2>1, QueuedOnce
<1>7. OnTopic(c) \cap QueuedFor(c) = {}
  <2>1. \A s \in QueuedFor(c) : s[1] # NoProcess
    BY LoopAssumption DEF QueuedFor, LoopAssumption
  <2> QED
    BY <2>1 DEF OnTopic
<1> QED
  BY <1>5, <1>6, <1>7, TwoParts DEF Places

(* Those that were taken from one row are no more than it had chances.     *)
LEMMA PlacesOfRow ==
  ASSUME IInv, RowsInv, SurplusInv, NEW c \in ClaimId, NEW g \in Groups,
         NEW p \in Partitions, NEW i \in Nat
  PROVE  LET here == {s \in Places(c) : RowNo[DecisionAt(s, c)] = <<p, i>>}
             pots == Pots(RowNo, Told(decisions), proc, owner, acked)
         IN  /\ IsFiniteSet(here) /\ Cardinality(here) \in Nat
             /\ pots[<<<<g, p>>, i>>] \in Nat
             /\ Cardinality(here) <= pots[<<<<g, p>>, i>>]
<1> DEFINE here == {s \in Places(c) : RowNo[DecisionAt(s, c)] = <<p, i>>}
           pots == Pots(RowNo, Told(decisions), proc, owner, acked)
           done == {s \in here : s \in OnTopic(c)}
           queued == {s \in here : s \notin OnTopic(c)}
           verdicts == Verdicts(decisions, p, i)
           holders == Holders(RowNo, g, p, i, proc)
           fv == [s \in done |-> <<c, s[2]>>]
           fh == [s \in queued |-> s[1]]
<1>1. LoopTypeOK(DecisionFinal) /\ FiniteLog(decisions)
  BY DEF IInv, LoopInv, RowsInv
<1>2. IsFiniteSet(verdicts) /\ Cardinality(verdicts) \in Nat
  BY <1>1, VerdictsFinite
<1>3. IsFiniteSet(holders) /\ Cardinality(holders) \in Nat
  <2>1. holders \subseteq Processes /\ IsFiniteSet(Processes)
    BY LoopAssumption DEF Holders, LoopAssumption
  <2> QED
    BY <2>1, NoMore
<1>4. ASSUME NEW s \in done
      PROVE  s = <<NoProcess, s[2]>> /\ <<c, s[2]>> \in verdicts
  <2>1. s \in Places(c) /\ s \in OnTopic(c) /\ RowNo[DecisionAt(s, c)] = <<p, i>>
    OBVIOUS
  <2>2. /\ s = <<s[1], s[2]>> /\ s[1] = NoProcess /\ s[2] \in Nat
        /\ s[2] \in 1..Len(decisions[c]) /\ DecisionAt(s, c) = decisions[c][s[2]]
    BY <2>1, PlaceFacts
  <2> QED
    BY <2>1, <2>2 DEF Verdicts
<1>5. ASSUME NEW s \in queued
      PROVE  /\ s = <<s[1], s[2]>> /\ s[1] \in holders /\ s[2] \in 1..Len(proc[s[1]].out)
             /\ RowNo[proc[s[1]].out[s[2]]] = <<p, i>>
  <2>1. s \in Places(c) /\ s \notin OnTopic(c) /\ RowNo[DecisionAt(s, c)] = <<p, i>>
    OBVIOUS
  <2>2. /\ s = <<s[1], s[2]>> /\ s[1] \in Processes
        /\ s[2] \in 1..Len(proc[s[1]].out) /\ DecisionAt(s, c) = proc[s[1]].out[s[2]]
    BY <2>1, PlaceFacts
  <2>3. GroupOf[s[1]] = g
    BY <1>1, <2>2, ProcFacts, OneGroup
  <2> QED
    BY <2>1, <2>2, <2>3 DEF Holders, Holds, InQueue
<1>6. /\ IsFiniteSet(done) /\ Cardinality(done) \in Nat
      /\ Cardinality(done) <= Cardinality(verdicts)
  <2> HIDE DEF done, verdicts
  <2>1. fv \in [done -> verdicts]
    BY <1>4
  <2>2. \A s, t \in done : fv[s] = fv[t] => s = t
    BY <1>4
  <2> HIDE DEF fv
  <2> QED
    BY <1>2, <2>1, <2>2, AtMost
<1>7. /\ IsFiniteSet(queued) /\ Cardinality(queued) \in Nat
      /\ Cardinality(queued) <= Cardinality(holders)
  <2> HIDE DEF queued, holders
  <2>1. fh \in [queued -> holders]
    BY <1>5
  <2>2. ASSUME NEW s \in queued, NEW t \in queued, fh[s] = fh[t] PROVE s = t
    <3>1. s[1] = t[1] /\ s[1] \in Processes
      BY <1>5, <2>2 DEF holders, Holders
    <3>2. QueueOK(RowNo, proc[s[1]], GroupOf[s[1]], acked)
      BY <3>1 DEF SurplusInv, QueuesOK
    <3>3. s[2] = t[2]
      BY <1>5, <3>1, <3>2 DEF QueueOK
    <3> QED
      BY <1>5, <3>1, <3>3
  <2> HIDE DEF fh
  <2> QED
    BY <1>3, <2>1, <2>2, AtMost
<1>8. done \cup queued = here /\ done \cap queued = {}
  OBVIOUS
<1>9. /\ IsFiniteSet(here) /\ Cardinality(here) \in Nat
      /\ Cardinality(here) = Cardinality(done) + Cardinality(queued)
  <2> HIDE DEF done, queued, here
  <2>1. /\ IsFiniteSet(here)
        /\ Cardinality(here) = Cardinality(done) + Cardinality(queued)
    BY <1>6, <1>7, <1>8, TwoParts
  <2> QED
    BY <2>1, FS_CardinalityType
<1>10. /\ pots[<<<<g, p>>, i>>] =
            Cardinality(verdicts) + Chances(RowNo, g, p, i, proc, owner, acked)
  <2>1. <<<<g, p>>, i>> \in Lane \X Nat
    BY DEF Lane
  <2>2. Told(decisions)[<<<<g, p>>, i>>] = Cardinality(verdicts)
    BY <1>1, ToldType
  <2> QED
    BY <2>1, <2>2 DEF Pots
<1>11. /\ Chances(RowNo, g, p, i, proc, owner, acked) \in Nat
       /\ Cardinality(holders) <= Chances(RowNo, g, p, i, proc, owner, acked)
  BY <1>3, ChancesNat DEF Chances, Bit
<1> HIDE DEF here, pots, done, queued, verdicts, holders
<1>12. pots[<<<<g, p>>, i>>] \in Nat /\ Cardinality(here) <= pots[<<<<g, p>>, i>>]
  BY <1>2, <1>3, <1>6, <1>7, <1>9, <1>10, <1>11
<1> QED
  BY <1>9, <1>12 DEF here, pots

(* A claim's decisions are no more than its rows and the disruptions.      *)
LEMMA RepeatsCounted == IInv /\ RowsInv /\ OnceInv /\ SurplusInv => OnlyCrashesRepeatRows
<1> SUFFICES ASSUME IInv, RowsInv, OnceInv, SurplusInv, NEW c \in Claims
             PROVE  Taken(c) <=
                      Cardinality(RowsFor(c, PartitionOf[c], Len(input[PartitionOf[c]])))
                        + Disruptions
  BY DEF OnlyCrashesRepeatRows
<1> DEFINE S == Places(c)
           P == PartitionOf[c]
           D == RowsFor(c, P, Len(input[P]))
           key == [s \in S |-> DecisionAt(s, c).row.off + 1]
           pots == Pots(RowNo, Told(decisions), proc, owner, acked)
           E == Extra(Lane, pots)
           g == CHOOSE h \in Groups : TRUE
           mark == [y \in D \X Nat |-> <<<<g, P>>, y[1], y[2]>>]
           F(d) == Under(S, key, d)
<1>1. /\ LoopTypeOK(DecisionFinal) /\ P \in Partitions /\ Len(input[P]) \in Nat
      /\ g \in Groups /\ c \in ClaimId
  <2>1. P \in Partitions /\ g \in Groups /\ c \in ClaimId
    BY EventsAssumption, OneGroup DEF EventsAssumption, ClaimId
  <2> QED
    BY <2>1 DEF IInv, LoopInv
<1> HIDE DEF g
<1>2. IsFiniteSet(S) /\ Taken(c) = Cardinality(S)
  BY <1>1, PlacesCount
<1>3. ASSUME NEW s \in S
      PROVE  /\ DecisionAt(s, c).row.off + 1 \in D
             /\ RowNo[DecisionAt(s, c)] = <<P, DecisionAt(s, c).row.off + 1>>
  <2> DEFINE d == DecisionAt(s, c)
  <2>1. d \in DecisionFinal /\ d.claim = c /\ DecisionOK(d, input)
    BY <1>1, PlaceFacts
  <2> HIDE DEF d
  <2>2. d.row.part = P /\ d.row.off + 1 \in D
    BY <2>1, DecisionPlaced
  <2>3. RowNo[d] = <<d.row.part, d.row.off + 1>>
    BY <2>1, RowNoType
  <2> QED
    BY <2>2, <2>3 DEF d
<1>4. IsFiniteSet(D) /\ D \subseteq Nat
  <2>1. D \subseteq 1..Len(input[P])
    BY DEF RowsFor
  <2>2. IsFiniteSet(1..Len(input[P]))
    BY <1>1, FS_Interval
  <2> HIDE DEF D, P
  <2>3. D \subseteq Nat
    BY <1>1, <2>1
  <2>4. IsFiniteSet(D)
    BY <2>1, <2>2, NoMore
  <2> QED
    BY <2>3, <2>4
<1> HIDE DEF S, D, P
<1>5. key \in [S -> D]
  BY <1>3
<1>6. IsFiniteSet(E) /\ Cardinality(E) <= Disruptions
  BY DEF SurplusInv, SurplusBounded
<1>7. \A d \in D : \A n \in 2..Cardinality(F(d)) : mark[<<d, n>>] \in E
  <2> SUFFICES ASSUME NEW d \in D, NEW n \in 2..Cardinality(F(d))
               PROVE  mark[<<d, n>>] \in E
    OBVIOUS
  <2> DEFINE here == {s \in Places(c) : RowNo[DecisionAt(s, c)] = <<P, d>>}
  <2>1. d \in Nat
    BY <1>4
  <2>2. /\ IsFiniteSet(here) /\ Cardinality(here) \in Nat
        /\ pots[<<<<g, P>>, d>>] \in Nat /\ Cardinality(here) <= pots[<<<<g, P>>, d>>]
    BY <1>1, <2>1, PlacesOfRow
  <2>3. F(d) \subseteq here
    <3> SUFFICES ASSUME NEW s \in S, key[s] = d PROVE RowNo[DecisionAt(s, c)] = <<P, d>>
      BY DEF Under, S
    <3> QED
      BY <1>3
  <2> HIDE DEF here, F, pots
  <2>4. Cardinality(F(d)) <= Cardinality(here) /\ Cardinality(F(d)) \in Nat
    BY <2>2, <2>3, NoMore
  <2>5. n \in Nat /\ n \in 2..pots[<<<<g, P>>, d>>]
    BY <2>2, <2>4
  <2>6. <<<<g, P>>, d, n>> \in E
    BY <1>1, <2>1, <2>5 DEF Extra, Lane
  <2>7. mark[<<d, n>>] = <<<<g, P>>, d, n>>
    BY <2>5
  <2> QED
    BY <2>6, <2>7
<1>8. \A d, e \in D : \A n, m \in Nat : mark[<<d, n>>] = mark[<<e, m>>] => d = e /\ n = m
  OBVIOUS
<1>9. Marks(S, D, key, E, mark)
  <2> HIDE DEF E, key, mark
  <2> QED
    BY <1>7, <1>8 DEF Marks
<1> HIDE DEF E, key, mark
<1>10. Cardinality(S) <= Cardinality(D) + Cardinality(E)
  BY <1>2, <1>4, <1>5, <1>6, <1>9, CountByKey
<1>11. /\ Cardinality(S) \in Nat /\ Cardinality(D) \in Nat /\ Cardinality(E) \in Nat
       /\ Disruptions \in Nat
  <2>1. Disruptions \in Nat
    BY <1>1 DEF LoopTypeOK, Disruptions
  <2> QED
    BY <1>2, <1>4, <1>6, <2>1, FS_CardinalityType
<1> HIDE DEF Disruptions
<1>12. Taken(c) <= Cardinality(D) + Disruptions
  BY <1>2, <1>6, <1>10, <1>11
<1> QED
  BY <1>12 DEF D, P

(* For any number of processes, claims and rows, a claim is decided no more*)
(* often than it has rows, but for one crash or eviction each.             *)
THEOREM OnlyCrashesRepeat == Spec => []OnlyCrashesRepeatRows
  BY InvInit, InvNext, RowsInit, RowsNext, OnceInit, OnceNext, SurplusInit, SurplusNext,
     RepeatsCounted, PTL DEF Spec

-------------------------------------------------------------------------------
(* What is passed undecided.                                               *)

(* Record i of partition p is the first row of a claim.                    *)
First(topic, p, i) ==
  \E c \in Claims : /\ IsRowOf(c, topic[p][i])
                    /\ \A j \in 1..(i - 1) : ~IsRowOf(c, topic[p][j])

(* The first rows of claims that no decision was taken from.               *)
Due(topic, log) ==
  {x \in Lane \X Nat : /\ x[2] \in 1..Len(topic[x[1][2]])
                       /\ First(topic, x[1][2], x[2])
                       /\ Verdicts(log, x[1][2], x[2]) = {}}

(* A claim that a process with state r remembers has a committed row, or   *)
(* one that the process commits next.                                      *)
KnownOK(c, r, ack, topic) ==
  \/ \E g \in Groups : \E j \in 1..ack[g][PartitionOf[c]] :
       IsRowOf(c, topic[PartitionOf[c]][j])
  \/ r.pc \in {"flush", "commit"} /\ IsRowOf(c, RecordOf(r, topic))

(* ... whatever the process.                                               *)
KnownInv ==
  \A w \in Processes : \A c \in decided[w] \cap Claims : KnownOK(c, proc[w], acked, input)

(* First rows that are passed undecided cost a fault or a failed synthesis *)
(* each.  The inductive invariant.                                         *)
PassedInv ==
  /\ KnownInv
  /\ LossesBounded(RowNo, Due(input, decisions), proc, acked, trouble.faults + failures)

(* A step of w in which w still knows what it knows.                       *)
LEMMA KnownStep ==
  ASSUME IInv, KnownInv, NEW w \in Processes, OthersRest(w), input' = input,
         acked' = acked, \A v \in Processes \ {w} : decided'[v] = decided[v],
         \A c \in decided'[w] \cap Claims : KnownOK(c, proc'[w], acked, input)
  PROVE  KnownInv'
<1> SUFFICES ASSUME NEW v \in Processes, NEW c \in decided'[v] \cap Claims
             PROVE  KnownOK(c, proc'[v], acked', input')
  BY DEF KnownInv
<1>1. CASE v = w
  BY <1>1
<1>2. CASE v # w
  BY <1>2 DEF KnownInv, OthersRest
<1> QED
  BY <1>1, <1>2

(* What is known stays known as the group moves on.                        *)
LEMMA KnownStays ==
  ASSUME NEW c, NEW r, NEW ack \in [Groups -> [Partitions -> Nat]],
         NEW ack2 \in [Groups -> [Partitions -> Nat]], NEW topic,
         PartitionOf[c] \in Partitions,
         \A g \in Groups, p \in Partitions : ack[g][p] <= ack2[g][p],
         KnownOK(c, r, ack, topic)
  PROVE  KnownOK(c, r, ack2, topic)
<1> DEFINE p == PartitionOf[c]
<1>1. ASSUME NEW g \in Groups, NEW j \in 1..ack[g][p] PROVE j \in 1..ack2[g][p]
  <2>1. ack[g][p] \in Nat /\ ack2[g][p] \in Nat /\ ack[g][p] <= ack2[g][p]
    OBVIOUS
  <2> QED
    BY <2>1
<1> QED
  BY <1>1 DEF KnownOK

(* A process forgets what it knew when it ends, and not before.            *)
LEMMA TurnKnown ==
  ASSUME IInv, RowsInv, KnownInv, NEW w \in Processes, Turn(w) \/ Upset(w), Memory(w)
  PROVE  KnownInv'
<1>1. /\ LoopInv(Record, DecisionFinal) /\ decided \in [Processes -> SUBSET ClaimId]
      /\ acked \in [Groups -> [Partitions -> Nat]] /\ Placed(input)
      /\ \A c \in Claims : PartitionOf[c] \in Partitions
  <2>1. LoopInv(Record, DecisionFinal) /\ LoopTypeOK(DecisionFinal)
    BY DEF IInv, LoopInv
  <2> QED
    BY <2>1, ProcFacts, EventsAssumption DEF IInv, RowsInv, EventsAssumption
<1>2. /\ input' = input
      /\ decided' = [decided EXCEPT ![w] = IF proc'[w].pc = "down" THEN {} ELSE @]
  BY DEF Memory
<1>3. /\ \A v \in Processes \ {w} : decided'[v] = decided[v]
      /\ decided'[w] = IF proc'[w].pc = "down" THEN {} ELSE decided[w]
  BY <1>1, <1>2
<1>4. Effect(w) /\ OthersRest(w)
  BY <1>1, <1>2, TurnStep DEF Effect
<1>5. CASE acked' = acked /\ ~Commit(w)
  <2>1. ASSUME NEW c \in decided'[w] \cap Claims
        PROVE  KnownOK(c, proc'[w], acked, input)
    <3>1. c \in decided[w] /\ proc'[w].pc # "down" /\ KnownOK(c, proc[w], acked, input)
      BY <1>3 DEF KnownInv
    <3>2. Rests(w) \/ Keeps(w) \/ Flushes(w) \/ Loses(w)
      BY <1>4, <1>5 DEF Effect
    <3>3. \/ proc[w].pc \notin Busy
          \/ proc'[w].msg = proc[w].msg /\ proc'[w].pc = proc[w].pc
          \/ proc'[w].msg = proc[w].msg /\ proc'[w].pc = "commit"
      BY <3>1, <3>2 DEF Rests, Keeps, Flushes, Loses
    <3> QED
      BY <3>1, <3>3 DEF KnownOK, RecordOf, Busy
  <2> QED
    BY <1>2, <1>3, <1>4, <1>5, <2>1, KnownStep
<1>6. CASE Commit(w)
  <2> DEFINE g == GroupOf[w]
             p == proc[w].msg.part
             off == proc[w].msg.off
  <2>1. /\ proc[w].pc = "commit" /\ proc'[w].pc # "down"
        /\ g \in Groups /\ p \in Partitions /\ off \in Nat /\ off < Len(input[p])
        /\ acked[g][p] = off /\ acked'[g][p] = off + 1
        /\ acked' \in [Groups -> [Partitions -> Nat]]
        /\ \A h \in Groups, q \in Partitions : h # g \/ q # p => acked'[h][q] = acked[h][q]
    BY <1>1, <1>6, CommitLemma
  <2> HIDE DEF g, p, off
  <2>2. \A h \in Groups, q \in Partitions : acked[h][q] <= acked'[h][q]
    <3> SUFFICES ASSUME NEW h \in Groups, NEW q \in Partitions
                 PROVE  acked[h][q] <= acked'[h][q]
      OBVIOUS
    <3>1. acked[h][q] \in Nat
      BY <1>1
    <3> QED
      BY <2>1, <3>1
  <2>3. ASSUME NEW v \in Processes, NEW c \in decided'[v] \cap Claims
        PROVE  KnownOK(c, proc'[v], acked', input)
    <3>1. KnownOK(c, proc[v], acked, input)
      BY <1>3 DEF KnownInv
    <3>2. KnownOK(c, proc[v], acked', input)
      BY <1>1, <2>1, <2>2, <3>1, KnownStays
    <3>3. CASE v # w
      BY <1>4, <3>2, <3>3 DEF OthersRest
    <3>4. CASE v = w
      <4>1. CASE IsRowOf(c, RecordOf(proc[w], input))
        <5>1. RecordOf(proc[w], input) = input[p][off + 1]
          BY DEF RecordOf, p, off
        <5>2. off + 1 \in 1..Len(input[p])
          <6>1. Len(input[p]) \in Nat
            BY <1>1, <2>1 DEF LoopInv
          <6> QED
            BY <2>1, <6>1
        <5>3. PartitionOf[c] = p
          <6>1. input[p][off + 1].claim = c
            BY <4>1, <5>1, EventsAssumption DEF IsRowOf, ClaimIdOf, EventsAssumption
          <6> QED
            BY <1>1, <2>1, <4>1, <5>1, <5>2, <6>1 DEF Placed, IsRowOf
        <5>4. off + 1 \in 1..acked'[g][p]
          BY <2>1
        <5> QED
          BY <2>1, <4>1, <5>1, <5>3, <5>4 DEF KnownOK
      <4>2. CASE ~IsRowOf(c, RecordOf(proc[w], input))
        BY <3>2, <3>4, <4>2 DEF KnownOK
      <4> QED
        BY <4>1, <4>2
    <3> QED
      BY <3>3, <3>4
  <2> QED
    BY <1>2, <2>3 DEF KnownInv
<1> QED
  BY <1>4, <1>5, <1>6 DEF Effect, Rests, Keeps, Flushes, Loses

(* What is due is due in a lane.                                           *)
LEMMA DueType == Due(input, decisions) \subseteq Lane \X Nat
BY DEF Due

(* The numbers that bound what is passed.                                  *)
LEMMA Prices ==
  ASSUME IInv
  PROVE  /\ LoopInv(Record, DecisionFinal) /\ LoopTypeOK(DecisionFinal)
         /\ trouble.faults \in Nat /\ failures \in Nat
         /\ trouble.faults + failures \in Nat
<1>1. LoopInv(Record, DecisionFinal) /\ LoopTypeOK(DecisionFinal) /\ failures \in Nat
  BY DEF IInv, LoopInv
<1>2. trouble.faults \in Nat
  BY <1>1 DEF LoopTypeOK
<1> QED
  BY <1>1, <1>2

(* What is passed, when nothing has gone wrong with a row.                 *)
LEMMA QuietLosses ==
  ASSUME IInv, PassedInv, NEW w \in Processes, OthersRest(w),
         UNCHANGED <<acked, trouble, failures>>, NEW due2,
         \A x \in due2 :
           /\ x \in Due(input, decisions)
           /\ Done(proc'[w], RowNo, x[1][2], x[2]) =>
                Done(proc[w], RowNo, x[1][2], x[2])
  PROVE  LossesBounded(RowNo, due2, proc', acked', trouble'.faults + failures')
<1> DEFINE d == trouble.faults + failures
           d2 == trouble'.faults + failures'
<1>1. d \in Nat /\ d2 = d
  BY Prices
<1>2. LossesBounded(RowNo, Due(input, decisions), proc, acked, d)
  BY DEF PassedInv
<1>3. ASSUME NEW x \in due2, Passed(RowNo, x[1][1], x[1][2], x[2], proc', acked')
      PROVE  /\ x \in Due(input, decisions)
             /\ Passed(RowNo, x[1][1], x[1][2], x[2], proc, acked)
  BY <1>3, PassedStep
<1> HIDE DEF d, d2
<1>4. d <= d2 /\ d2 \in Nat
  BY <1>1
<1>5. LossesBounded(RowNo, due2, proc', acked', d2)
  BY <1>1, <1>2, <1>3, <1>4, LossesStay
<1> QED
  BY <1>5 DEF d2

(* The loop's own steps pass a row undecided by a fault only.              *)
LEMMA TurnPassed ==
  ASSUME IInv, RowsInv, PassedInv, NEW w \in Processes, Turn(w) \/ Upset(w), Memory(w)
  PROVE  PassedInv'
<1>1. LoopInv(Record, DecisionFinal) /\ failures \in Nat
      /\ UNCHANGED <<input, decisions, failures>>
  BY Prices DEF Memory
<1>2. LossesBounded(RowNo, Due(input, decisions), proc, acked, trouble.faults + failures)
  BY DEF PassedInv
<1>3. LossesBounded(RowNo, Due(input, decisions), proc', acked', trouble'.faults + failures)
  BY <1>1, <1>2, DueType, TurnLosses
<1>4. KnownInv'
  BY TurnKnown DEF PassedInv
<1> QED
  BY <1>1, <1>3, <1>4 DEF PassedInv

(* The first row of a claim is never skipped: a process that remembers the *)
(* claim has committed a row of it, and polls past that one.               *)
LEMMA FirstNotSkipped ==
  ASSUME IInv, RowsInv, KnownInv, NEW w \in Processes, NEW p \in Partitions,
         NEW next \in {"work", "commit"}, Poll(w, p, next), Skipped(w, Peek(w, p))
  PROVE  ~First(input, p, proc[w].cursor[p] + 1)
<1> DEFINE off == proc[w].cursor[p]
           g == GroupOf[w]
<1>1. /\ proc[w].pc = "poll" /\ off \in Nat /\ off < Len(input[p])
      /\ owner[g][p] = w /\ g \in Groups
  <2>1. LoopTypeOK(DecisionFinal)
    BY Prices
  <2>2. /\ proc[w].pc = "poll" /\ owner[g][p] = w /\ off < Len(input[p])
    BY DEF Poll, Owns
  <2>3. g \in Groups
    BY <2>1, ProcFacts
  <2>4. off \in Nat
    BY <2>1, ProcFacts
  <2> QED
    BY <2>2, <2>3, <2>4
<1>2. acked[g][p] = off
  BY <1>1 DEF IInv, LoopInv, CursorOK, Busy
<1>3. off + 1 \in 1..Len(input[p])
  <2>1. Len(input[p]) \in Nat
    BY DEF IInv, LoopInv
  <2> QED
    BY <1>1, <2>1
<1> HIDE DEF off, g
<1> SUFFICES ASSUME NEW c \in Claims, IsRowOf(c, input[p][off + 1]),
                    \A j \in 1..((off + 1) - 1) : ~IsRowOf(c, input[p][j])
             PROVE  FALSE
  BY DEF First, off
<1>4. (off + 1) - 1 = off
  BY <1>1
<1>5. PartitionOf[c] = p
  <2>1. input[p][off + 1].claim = c
    BY EventsAssumption DEF IsRowOf, ClaimIdOf, EventsAssumption
  <2> QED
    BY <1>3, <2>1 DEF RowsInv, Placed, IsRowOf
<1>6. c \in decided[w]
  BY OrchestratorAssumption DEF Skipped, Peek, IsRowOf, OrchestratorAssumption, off
<1>7. KnownOK(c, proc[w], acked, input)
  BY <1>6 DEF KnownInv
<1>8. PICK h \in Groups : \E j \in 1..acked[h][p] : IsRowOf(c, input[p][j])
  BY <1>1, <1>5, <1>7 DEF KnownOK
<1>9. h = g
  BY <1>1, OneGroup
<1> QED
  BY <1>2, <1>4, <1>8, <1>9

(* A row that is polled is at work, or is not the first of its claim.      *)
LEMMA ConsumePassed ==
  ASSUME IInv, RowsInv, PassedInv, NEW w \in Processes, NEW p \in Partitions,
         Consume(w, p)
  PROVE  PassedInv'
<1>1. PICK next \in {"work", "commit"} :
        Poll(w, p, next) /\ (next = "commit" <=> Skipped(w, Peek(w, p)))
  BY DEF Consume
<1>2. UNCHANGED <<input, decisions, decided, failures>>
  BY DEF Consume
<1>3. /\ OthersRest(w) /\ proc[w].pc = "poll" /\ proc'[w].pc = next
      /\ proc'[w].msg = [part |-> p, off |-> proc[w].cursor[p]]
      /\ UNCHANGED <<acked, trouble>>
  BY <1>1, PollLemma, Prices
<1>4. KnownInv'
  <2>1. \A c \in decided'[w] \cap Claims : KnownOK(c, proc'[w], acked, input)
    BY <1>2, <1>3 DEF PassedInv, KnownInv, KnownOK
  <2> QED
    BY <1>2, <1>3, <2>1, KnownStep DEF PassedInv
<1>5. ASSUME NEW x \in Due(input, decisions), Done(proc'[w], RowNo, x[1][2], x[2])
      PROVE  FALSE
  <2>1. /\ next = "commit" /\ x[1][2] = p /\ x[2] = proc[w].cursor[p] + 1
    BY <1>3, <1>5 DEF Done, Hand
  <2>2. ~First(input, p, proc[w].cursor[p] + 1)
    BY <1>1, <2>1, FirstNotSkipped DEF PassedInv
  <2> QED
    BY <2>1, <2>2 DEF Due
<1>6. LossesBounded(RowNo, Due(input, decisions), proc', acked', trouble'.faults + failures')
  BY <1>2, <1>3, <1>5, QuietLosses
<1> QED
  BY <1>2, <1>4, <1>6 DEF PassedInv

(* A claim is remembered when its row is about to be committed, and the    *)
(* decision of that row is in the queue.                                   *)
LEMMA SynthesizePassed ==
  ASSUME IInv, RowsInv, PassedInv, NEW w \in Processes, Synthesize(w)
  PROVE  PassedInv'
<1> DEFINE d == DecisionOf(w)
<1>1. /\ d \in DecisionFinal /\ d.row = proc[w].msg /\ DecisionOK(d, input)
      /\ d.claim = ClaimIdOf(InHand(w))
      /\ OthersRest(w) /\ proc[w].out \in Seq(DecisionFinal)
      /\ proc'[w].out = Append(proc[w].out, d)
      /\ proc[w].pc = "work" /\ proc'[w].pc = "flush" /\ proc'[w].msg = proc[w].msg
      /\ UNCHANGED <<input, acked, trouble, decisions, failures>>
  BY SynthesizeFacts
<1>2. /\ \A v \in Processes \ {w} : decided'[v] = decided[v]
      /\ decided'[w] = decided[w] \cup {d.claim}
  BY <1>1 DEF Synthesize, IInv
<1> HIDE DEF d
<1>3. KnownInv'
  <2>1. ASSUME NEW c \in decided'[w] \cap Claims
        PROVE  KnownOK(c, proc'[w], acked, input)
    <3>1. CASE c \in decided[w]
      BY <1>1, <3>1 DEF PassedInv, KnownInv, KnownOK
    <3>2. CASE c = d.claim
      <4>1. IsRowOf(c, RecordOf(proc'[w], input))
        BY <1>1, <3>2 DEF DecisionOK, RecordOf
      <4> QED
        BY <1>1, <4>1 DEF KnownOK
    <3> QED
      BY <1>2, <3>1, <3>2
  <2> QED
    BY <1>1, <1>2, <2>1, KnownStep DEF PassedInv
<1>4. ASSUME NEW p, NEW i, Done(proc'[w], RowNo, p, i) PROVE FALSE
  <2>1. Hand(proc[w]) = <<p, i>> /\ ~InQueue(proc'[w], RowNo, p, i)
    BY <1>1, <1>4 DEF Done, Hand
  <2>2. RowNo[d] = <<p, i>>
    BY <1>1, <2>1, RowNoType DEF Hand
  <2>3. /\ Len(proc[w].out) + 1 \in 1..Len(proc'[w].out)
        /\ proc'[w].out[Len(proc[w].out) + 1] = d
    BY <1>1
  <2> QED
    BY <2>1, <2>2, <2>3 DEF InQueue
<1>5. LossesBounded(RowNo, Due(input, decisions), proc', acked', trouble'.faults + failures')
  BY <1>1, <1>4, QuietLosses
<1> QED
  BY <1>1, <1>3, <1>5 DEF PassedInv

(* A synthesis that raises passes the row in hand.                         *)
LEMMA FailsPassed ==
  ASSUME IInv, RowsInv, PassedInv, NEW w \in Processes, SynthesizeFails(w)
  PROVE  PassedInv'
<1>1. /\ proc[w].pc = "work" /\ Goto(w, "commit") /\ failures' = failures + 1
      /\ UNCHANGED <<input, decisions, owner, acked, trouble, decided>>
  BY DEF SynthesizeFails
<1>2. /\ OthersRest(w) /\ proc'[w].pc = "commit" /\ proc'[w].msg = proc[w].msg
  BY <1>1, Prices, GotoLemma DEF States, Busy
<1>3. KnownInv'
  <2>1. \A c \in decided'[w] \cap Claims : KnownOK(c, proc'[w], acked, input)
    BY <1>1, <1>2 DEF PassedInv, KnownInv, KnownOK
  <2> QED
    BY <1>1, <1>2, <2>1, KnownStep DEF PassedInv
<1> DEFINE y == <<<<GroupOf[w], Hand(proc[w])[1]>>, Hand(proc[w])[2]>>
<1>4. ASSUME NEW x \in Due(input, decisions),
             Passed(RowNo, x[1][1], x[1][2], x[2], proc', acked')
      PROVE  x = y \/ Passed(RowNo, x[1][1], x[1][2], x[2], proc, acked)
  <2>1. x = <<<<x[1][1], x[1][2]>>, x[2]>>
    BY DEF Due, Lane
  <2> SUFFICES ASSUME ~Passed(RowNo, x[1][1], x[1][2], x[2], proc, acked) PROVE x = y
    OBVIOUS
  <2>2. x[1][1] = GroupOf[w] /\ Done(proc'[w], RowNo, x[1][2], x[2])
    BY <1>1, <1>2, <1>4, PassedStep
  <2>3. Hand(proc[w]) = <<x[1][2], x[2]>>
    BY <1>2, <2>2 DEF Done, Hand
  <2>4. Hand(proc[w])[1] = x[1][2] /\ Hand(proc[w])[2] = x[2]
    BY <2>3
  <2> QED
    BY <2>1, <2>2, <2>4
<1> HIDE DEF y
<1> DEFINE d == trouble.faults + failures
<1>5. d \in Nat /\ trouble'.faults + failures' = d + 1
  BY <1>1, Prices
<1>6. LossesBounded(RowNo, Due(input, decisions), proc, acked, d)
  BY DEF PassedInv
<1> HIDE DEF d
<1>7. LossesBounded(RowNo, Due(input, decisions), proc', acked', d + 1)
  BY <1>4, <1>5, <1>6, LossesGrow
<1> QED
  BY <1>1, <1>3, <1>5, <1>7 DEF PassedInv

(* A decision that is published leaves no row undecided.                   *)
LEMMA DecidePassed ==
  ASSUME IInv, RowsInv, PassedInv, NEW w \in Processes, Decide(w)
  PROVE  PassedInv'
<1> DEFINE head == Head(proc[w].out)
           new == <<head.claim, Len(decisions[head.claim]) + 1>>
<1>1. /\ head \in DecisionFinal /\ head = proc[w].out[1]
      /\ OthersRest(w) /\ proc[w].out \in Seq(DecisionFinal) /\ proc[w].out # <<>>
      /\ proc'[w].out = Tail(proc[w].out)
      /\ proc'[w].pc = proc[w].pc /\ proc'[w].msg = proc[w].msg
      /\ UNCHANGED <<input, acked, trouble, decided, failures>>
  BY DecideFacts
<1>2. \A p \in Partitions, i \in Nat :
        /\ <<p, i>> = RowNo[head] =>
             Verdicts(decisions', p, i) = Verdicts(decisions, p, i) \cup {new}
        /\ <<p, i>> # RowNo[head] =>
             Verdicts(decisions', p, i) = Verdicts(decisions, p, i)
        /\ new \notin Verdicts(decisions, p, i)
  BY DecideVerdicts
<1> HIDE DEF head, new
<1>3. KnownInv'
  <2>1. \A c \in decided'[w] \cap Claims : KnownOK(c, proc'[w], acked, input)
    BY <1>1 DEF PassedInv, KnownInv, KnownOK, RecordOf
  <2> QED
    BY <1>1, <2>1, KnownStep DEF PassedInv
<1>4. ASSUME NEW x \in Due(input, decisions')
      PROVE  /\ x \in Due(input, decisions) /\ <<x[1][2], x[2]>> # RowNo[head]
  <2>1. /\ x \in Lane \X Nat /\ x[1][2] \in Partitions /\ x[2] \in Nat
        /\ x[2] \in 1..Len(input[x[1][2]]) /\ First(input, x[1][2], x[2])
        /\ Verdicts(decisions', x[1][2], x[2]) = {}
    BY DEF Due, Lane
  <2>2. <<x[1][2], x[2]>> # RowNo[head]
    BY <1>2, <2>1
  <2>3. Verdicts(decisions, x[1][2], x[2]) = {}
    BY <1>2, <2>1, <2>2
  <2> QED
    BY <2>1, <2>2, <2>3 DEF Due
<1>5. ASSUME NEW p, NEW i, <<p, i>> # RowNo[head], Done(proc'[w], RowNo, p, i)
      PROVE  Done(proc[w], RowNo, p, i)
  <2>1. InQueue(proc[w], RowNo, p, i) => InQueue(proc'[w], RowNo, p, i)
    <3> SUFFICES ASSUME NEW n \in 1..Len(proc[w].out), RowNo[proc[w].out[n]] = <<p, i>>
                 PROVE  InQueue(proc'[w], RowNo, p, i)
      BY DEF InQueue
    <3>1. n # 1
      BY <1>1, <1>5
    <3>2. n - 1 \in 1..Len(proc'[w].out) /\ proc'[w].out[n - 1] = proc[w].out[n]
      BY <1>1, <3>1
    <3> QED
      BY <3>2 DEF InQueue
  <2> QED
    BY <1>1, <1>5, <2>1 DEF Done, Hand
<1>6. LossesBounded(RowNo, Due(input, decisions'), proc', acked',
                    trouble'.faults + failures')
  BY <1>1, <1>4, <1>5, QuietLosses
<1> QED
  BY <1>1, <1>3, <1>6 DEF PassedInv

(* A row that arrives is not passed, and is no earlier than any other.     *)
LEMMA FedPassed ==
  ASSUME IInv, RowsInv, PassedInv, Fed
  PROVE  PassedInv'
<1>1. LoopInv(Record, DecisionFinal) /\ UNCHANGED <<decisions, loopVars, decided, failures>>
      /\ decided \in [Processes -> SUBSET ClaimId]
  BY DEF Fed, ownVars, IInv
<1>2. UNCHANGED <<owner, acked, proc, trouble>>
  BY <1>1 DEF loopVars
<1>3. PICK p \in Partitions, rec \in Record : input' = [input EXCEPT ![p] = Append(@, rec)]
  BY DEF Fed
<1>4. /\ \A q \in Partitions :
           /\ Len(input[q]) \in Nat
           /\ \A i \in 1..Len(input[q]) : input'[q][i] = input[q][i]
      /\ \A w \in Processes :
           proc[w].pc \in Busy => RecordOf(proc[w], input') = RecordOf(proc[w], input)
  BY <1>1, <1>3, AppendStep
<1>5. \A c \in Claims : PartitionOf[c] \in Partitions
  BY EventsAssumption DEF EventsAssumption
<1>6. ASSUME NEW w \in Processes, NEW c \in decided[w] \cap Claims
      PROVE  KnownOK(c, proc[w], acked, input')
  <2>1. KnownOK(c, proc[w], acked, input)
    BY DEF PassedInv, KnownInv
  <2>2. CASE proc[w].pc \in {"flush", "commit"} /\ IsRowOf(c, RecordOf(proc[w], input))
    BY <1>4, <2>2 DEF KnownOK, Busy
  <2>3. ASSUME NEW g \in Groups, NEW j \in 1..acked[g][PartitionOf[c]],
               IsRowOf(c, input[PartitionOf[c]][j])
        PROVE  KnownOK(c, proc[w], acked, input')
    <3>1. j \in 1..Len(input[PartitionOf[c]])
      <4>1. /\ acked[g][PartitionOf[c]] <= Len(input[PartitionOf[c]])
            /\ acked[g][PartitionOf[c]] \in Nat /\ Len(input[PartitionOf[c]]) \in Nat
        BY <1>1, <1>4, <1>5, <2>3 DEF LoopInv, LoopTypeOK, CommitsBounded
      <4> QED
        BY <2>3, <4>1
    <3> QED
      BY <1>4, <1>5, <2>3, <3>1 DEF KnownOK
  <2> QED
    BY <2>1, <2>2, <2>3 DEF KnownOK
<1>7. KnownInv'
  BY <1>1, <1>2, <1>6 DEF KnownInv
<1>8. ASSUME NEW x \in Due(input', decisions),
             Passed(RowNo, x[1][1], x[1][2], x[2], proc', acked')
      PROVE  /\ x \in Due(input, decisions)
             /\ Passed(RowNo, x[1][1], x[1][2], x[2], proc, acked)
  <2> DEFINE q == x[1][2]
             i == x[2]
  <2>1. /\ x[1][1] \in Groups /\ q \in Partitions /\ i \in Nat /\ i >= 1
        /\ x \in Lane \X Nat /\ First(input', q, i) /\ Verdicts(decisions, q, i) = {}
    BY DEF Due, Lane
  <2>2. Passed(RowNo, x[1][1], q, i, proc, acked)
    BY <1>2, <1>8
  <2>3. i <= Len(input[q])
    BY <1>1, <2>1, <2>2, PassedOld
  <2> HIDE DEF q, i
  <2>4. i \in 1..Len(input[q]) /\ \A j \in 1..(i - 1) : j \in 1..Len(input[q])
    BY <1>4, <2>1, <2>3
  <2>5. First(input, q, i)
    BY <1>4, <2>1, <2>4 DEF First
  <2> QED
    BY <2>1, <2>2, <2>4, <2>5 DEF Due, q, i
<1> DEFINE d == trouble.faults + failures
           d2 == trouble'.faults + failures'
<1>9. d \in Nat /\ d2 \in Nat /\ d <= d2
  BY <1>1, <1>2, Prices
<1>10. LossesBounded(RowNo, Due(input, decisions), proc, acked, d)
  BY DEF PassedInv
<1> HIDE DEF d, d2
<1>11. LossesBounded(RowNo, Due(input', decisions), proc', acked', d2)
  BY <1>8, <1>9, <1>10, LossesStay
<1> QED
  BY <1>1, <1>7, <1>11 DEF PassedInv, d2

(* At first nothing is known and nothing is passed.                        *)
LEMMA PassedInit == Init => PassedInv
<1> SUFFICES ASSUME Init PROVE PassedInv
  OBVIOUS
<1>1. /\ decided = [w \in Processes |-> {}] /\ failures = 0
      /\ input = [p \in Partitions |-> <<>>] /\ trouble.faults = 0
  BY DEF Init, LoopInit
<1>2. KnownInv
  BY <1>1 DEF KnownInv
<1>3. Due(input, decisions) = {}
  <2>1. ASSUME NEW x \in Due(input, decisions) PROVE FALSE
    <3>1. x[1][2] \in Partitions /\ x[2] \in 1..Len(input[x[1][2]])
      BY DEF Due, Lane
    <3> QED
      BY <1>1, <3>1
  <2> QED
    BY <2>1
<1>4. {x \in Due(input, decisions) :
         Passed(RowNo, x[1][1], x[1][2], x[2], proc, acked)} = {}
  BY <1>3
<1>5. trouble.faults + failures = 0
  BY <1>1
<1>6. LossesBounded(RowNo, Due(input, decisions), proc, acked, trouble.faults + failures)
  BY <1>4, <1>5, FS_EmptySet DEF LossesBounded
<1> QED
  BY <1>2, <1>6 DEF PassedInv

(* No step passes a row at nobody's expense.                               *)
LEMMA PassedNext == IInv /\ RowsInv /\ PassedInv /\ [Next]_vars => PassedInv'
<1> SUFFICES ASSUME IInv, RowsInv, PassedInv, [Next]_vars PROVE PassedInv'
  OBVIOUS
<1>1. ASSUME NEW w \in Processes, Progress(w) \/ Decide(w) \/ Trouble(w) PROVE PassedInv'
  BY <1>1, TurnPassed, ConsumePassed, SynthesizePassed, FailsPassed, DecidePassed
  DEF Progress, Trouble
<1>2. CASE Env
  BY <1>2, EnvFeeds, FedPassed
<1>3. CASE UNCHANGED vars
  <2>1. UNCHANGED <<input, decisions, owner, acked, proc, trouble, decided, failures>>
    BY <1>3 DEF vars, ownVars, loopVars
  <2> QED
    BY <2>1 DEF PassedInv, KnownInv
<1> QED
  BY <1>1, <1>2, <1>3 DEF Next, Step

-------------------------------------------------------------------------------
(* The orchestrator implements Relay.                                      *)

(* What Relay sees of the orchestrator: the rows that call for a decision  *)
(* ...                                                                     *)
RelayOwed == [p \in Partitions |-> [i \in 1..Len(input[p]) |-> FirstOfItsClaim(p, i)]]

(* ... the rows that are committed ...                                     *)
RelaySettled == [p \in Partitions |-> Committed(p)]

(* ... and the decisions on the topic.                                     *)
RelayAnswers ==
  [p \in Partitions |-> [i \in 1..Len(input[p]) |-> Cardinality(DecisionsOf(p, i))]]

(* The price Relay puts on what is repeated and what is left undecided.    *)
Afforded ==
  /\ Cardinality(R!Repeats) <= Disruptions
  /\ Cardinality(R!Unanswered) <= trouble.faults + failures

(* An instance's copy of Cardinality is Cardinality.                       *)
LEMMA CardinalityIs == ASSUME NEW S PROVE R!Cardinality(S) = Cardinality(S)
BY DEF R!Cardinality, Cardinality

(* Relay's first rows are those that are due a decision.                   *)
LEMMA FirstIs ==
  ASSUME NEW p, NEW i \in Nat, i >= 1
  PROVE  FirstOfItsClaim(p, i) <=> First(input, p, i)
<1>1. i \in 1..i
  OBVIOUS
<1>2. ASSUME NEW c \in Claims
      PROVE  /\ i \in RowsFor(c, p, i) <=> IsRowOf(c, input[p][i])
             /\ RowsFor(c, p, i - 1) = {} <=> \A j \in 1..(i - 1) : ~IsRowOf(c, input[p][j])
  BY <1>1 DEF RowsFor, IsRowOf
<1> QED
  BY <1>2 DEF FirstOfItsClaim, First

(* Relay's answers are the decisions taken from a row.                     *)
LEMMA DecisionsAre ==
  ASSUME decisions \in [ClaimId -> Seq(DecisionFinal)], NEW p \in Partitions, NEW i \in Nat
  PROVE  DecisionsOf(p, i) = Verdicts(decisions, p, i)
<1>1. ASSUME NEW k \in ClaimId, NEW m \in 1..Len(decisions[k])
      PROVE  /\ m \in Nat
             /\ decisions[k][m].row = [part |-> p, off |-> i - 1] <=>
                  RowNo[decisions[k][m]] = <<p, i>>
  <2>1. decisions[k][m] \in DecisionFinal /\ m \in Nat
    BY <1>1
  <2> DEFINE d == decisions[k][m]
  <2>2. RowNo[d] = <<d.row.part, d.row.off + 1>> /\ d.row.off \in Nat
    BY <2>1, RowNoType
  <2>3. d.row = [part |-> d.row.part, off |-> d.row.off]
    BY <2>1 DEF DecisionFinal, Position
  <2> HIDE DEF d
  <2>4. d.row = [part |-> p, off |-> i - 1] <=> d.row.part = p /\ d.row.off = i - 1
    BY <2>3
  <2>5. d.row.off = i - 1 <=> d.row.off + 1 = i
    BY <2>2
  <2>6. RowNo[d] = <<p, i>> <=> d.row.part = p /\ d.row.off + 1 = i
    BY <2>2
  <2> QED
    BY <2>1, <2>4, <2>5, <2>6 DEF d
<1>2. ASSUME NEW x \in DecisionsOf(p, i) PROVE x \in Verdicts(decisions, p, i)
  <2>1. PICK k \in ClaimId :
          x \in {<<k, n>> : n \in {m \in 1..Len(decisions[k]) :
                                     decisions[k][m].row = [part |-> p, off |-> i - 1]}}
    BY <1>2 DEF DecisionsOf
  <2>2. PICK n \in 1..Len(decisions[k]) :
          x = <<k, n>> /\ decisions[k][n].row = [part |-> p, off |-> i - 1]
    BY <2>1
  <2> QED
    BY <1>1, <2>2 DEF Verdicts
<1>3. ASSUME NEW x \in Verdicts(decisions, p, i) PROVE x \in DecisionsOf(p, i)
  <2>1. PICK k \in ClaimId, n \in Nat :
          x = <<k, n>> /\ n \in 1..Len(decisions[k]) /\ RowNo[decisions[k][n]] = <<p, i>>
    BY DEF Verdicts
  <2>2. decisions[k][n].row = [part |-> p, off |-> i - 1]
    BY <1>1, <2>1
  <2> QED
    BY <2>1, <2>2 DEF DecisionsOf
<1> QED
  BY <1>2, <1>3

(* What Relay sees of a row.                                               *)
LEMMA RelayFacts ==
  ASSUME IInv, NEW p \in Partitions, NEW g \in Groups
  PROVE  /\ Len(input[p]) \in Nat
         /\ RelaySettled[p] = acked[g][p] /\ acked[g][p] \in Nat
         /\ acked[g][p] <= Len(input[p])
         /\ \A i \in 1..Len(input[p]) :
              /\ i \in Nat
              /\ RelayOwed[p][i] = First(input, p, i)
              /\ RelayAnswers[p][i] = Cardinality(Verdicts(decisions, p, i))
<1>1. LoopInv(Record, DecisionFinal) /\ decisions \in [ClaimId -> Seq(DecisionFinal)]
  BY DEF IInv
<1>2. Len(input[p]) \in Nat /\ acked[g][p] \in Nat /\ acked[g][p] <= Len(input[p])
  BY <1>1 DEF LoopInv, LoopTypeOK, CommitsBounded
<1>3. RelaySettled[p] = acked[g][p]
  <2>1. (CHOOSE h \in Groups : TRUE) = g
    BY OneGroup
  <2> QED
    BY <2>1 DEF RelaySettled, Committed
<1>4. ASSUME NEW i \in 1..Len(input[p])
      PROVE  /\ i \in Nat
             /\ RelayOwed[p][i] = First(input, p, i)
             /\ RelayAnswers[p][i] = Cardinality(Verdicts(decisions, p, i))
  <2>1. i \in Nat /\ i >= 1
    BY <1>2
  <2>2. DecisionsOf(p, i) = Verdicts(decisions, p, i)
    BY <1>1, <2>1, DecisionsAre
  <2>3. FirstOfItsClaim(p, i) <=> First(input, p, i)
    BY <2>1, FirstIs
  <2>4. RelayOwed[p][i] = FirstOfItsClaim(p, i)
    BY DEF RelayOwed
  <2>5. FirstOfItsClaim(p, i) \in BOOLEAN /\ First(input, p, i) \in BOOLEAN
    BY DEF FirstOfItsClaim, First
  <2>6. FirstOfItsClaim(p, i) = First(input, p, i)
    BY <2>3, <2>5
  <2>7. RelayAnswers[p][i] = Cardinality(DecisionsOf(p, i))
    BY DEF RelayAnswers
  <2> QED
    BY <2>1, <2>2, <2>4, <2>6, <2>7
<1> QED
  BY <1>2, <1>3, <1>4

(* What is repeated was disrupted, what is undecided has gone wrong.       *)
LEMMA RelayAfforded == IInv /\ RowsInv /\ SurplusInv /\ PassedInv => Afforded
<1> SUFFICES ASSUME IInv, RowsInv, SurplusInv, PassedInv PROVE Afforded
  OBVIOUS
<1> DEFINE g == CHOOSE h \in Groups : TRUE
<1>1. g \in Groups /\ FiniteLog(decisions)
  BY OneGroup DEF RowsInv
<1> HIDE DEF g
<1>2. /\ Disruptions \in Nat /\ trouble.faults + failures \in Nat
  <2>1. Disruptions \in Nat
    BY Prices DEF LoopTypeOK, Disruptions
  <2> QED
    BY <2>1, Prices
<1> HIDE DEF Disruptions
<1>3. Cardinality(R!Repeats) <= Disruptions
  <2> DEFINE pots == Pots(RowNo, Told(decisions), proc, owner, acked)
             E == Extra(Lane, pots)
             f == [e \in R!Repeats |-> <<<<g, e[1]>>, e[2], e[3]>>]
  <2>1. IsFiniteSet(E) /\ Cardinality(E) <= Disruptions
    BY DEF SurplusInv, SurplusBounded
  <2>2. ASSUME NEW p \in Partitions, NEW i \in 1..Len(input[p]),
               NEW n \in 2..RelayAnswers[p][i]
        PROVE  <<<<g, p>>, i, n>> \in E
    <3> DEFINE m == Cardinality(Verdicts(decisions, p, i))
               more == Chances(RowNo, g, p, i, proc, owner, acked)
    <3>1. i \in Nat /\ RelayAnswers[p][i] = m
      BY <1>1, RelayFacts
    <3>2. m \in Nat /\ more \in Nat
      BY <1>1, VerdictsFinite, ChancesNat
    <3>3. <<<<g, p>>, i>> \in Lane \X Nat
      BY <1>1, <3>1 DEF Lane
    <3>4. pots[<<<<g, p>>, i>>] = m + more
      <4>1. Told(decisions)[<<<<g, p>>, i>>] = m
        BY <1>1, <3>1, ToldType
      <4> QED
        BY <3>3, <4>1 DEF Pots
    <3> HIDE DEF pots, m, more
    <3>5. n \in Nat /\ n \in 2..pots[<<<<g, p>>, i>>]
      BY <3>1, <3>2, <3>4
    <3> QED
      BY <3>3, <3>5 DEF Extra
  <2>3. ASSUME NEW e \in R!Repeats
        PROVE  e = <<e[1], e[2], e[3]>> /\ <<<<g, e[1]>>, e[2], e[3]>> \in E
    <3> HIDE DEF E
    <3>1. e \in UNION {UNION {{<<p, i, n>> : n \in 2..RelayAnswers[p][i]} :
                             i \in DOMAIN RelayAnswers[p]} : p \in Partitions}
      BY DEF R!Repeats, RelayAnswers
    <3>2. PICK p \in Partitions : e \in UNION {{<<p, i, n>> : n \in 2..RelayAnswers[p][i]} :
                                             i \in DOMAIN RelayAnswers[p]}
      BY <3>1
    <3>3. PICK i \in DOMAIN RelayAnswers[p] :
            e \in {<<p, i, n>> : n \in 2..RelayAnswers[p][i]}
      BY <3>2
    <3>4. PICK n \in 2..RelayAnswers[p][i] : e = <<p, i, n>>
      BY <3>3
    <3>5. DOMAIN RelayAnswers[p] = 1..Len(input[p])
      BY DEF RelayAnswers
    <3> QED
      BY <2>2, <3>4, <3>5
  <2> HIDE DEF E
  <2>4. f \in [R!Repeats -> E]
    BY <2>3
  <2>5. \A d, e \in R!Repeats : f[d] = f[e] => d = e
    BY <2>3
  <2> HIDE DEF f
  <2>6. /\ Cardinality(R!Repeats) <= Cardinality(E) /\ Cardinality(R!Repeats) \in Nat
        /\ Cardinality(E) \in Nat
    BY <2>1, <2>4, <2>5, AtMost
  <2> QED
    BY <1>2, <2>1, <2>6
<1>4. Cardinality(R!Unanswered) <= trouble.faults + failures
  <2> DEFINE lost == {x \in Due(input, decisions) :
                        Passed(RowNo, x[1][1], x[1][2], x[2], proc, acked)}
             f == [e \in R!Unanswered |-> <<<<g, e[1]>>, e[2]>>]
  <2>1. IsFiniteSet(lost) /\ Cardinality(lost) <= trouble.faults + failures
    BY DEF PassedInv, LossesBounded
  <2>2. ASSUME NEW p \in Partitions, NEW i \in 1..RelaySettled[p],
               RelayOwed[p][i], RelayAnswers[p][i] = 0
        PROVE  <<<<g, p>>, i>> \in lost
    <3>1. /\ Len(input[p]) \in Nat /\ RelaySettled[p] = acked[g][p]
          /\ acked[g][p] \in Nat /\ acked[g][p] <= Len(input[p])
      BY <1>1, RelayFacts
    <3>2. i \in 1..Len(input[p]) /\ i \in Nat /\ i <= acked[g][p]
      BY <3>1
    <3>3. First(input, p, i) /\ Cardinality(Verdicts(decisions, p, i)) = 0
      BY <1>1, <2>2, <3>2, RelayFacts
    <3>4. Verdicts(decisions, p, i) = {}
      <4>1. IsFiniteSet(Verdicts(decisions, p, i))
        BY <1>1, VerdictsFinite
      <4> QED
        BY <3>3, <4>1, FS_EmptySet
    <3>5. <<<<g, p>>, i>> \in Lane \X Nat
      BY <1>1, <3>2 DEF Lane
    <3> QED
      BY <3>2, <3>3, <3>4, <3>5 DEF Due, Passed
  <2>3. ASSUME NEW e \in R!Unanswered
        PROVE  e = <<e[1], e[2]>> /\ <<<<g, e[1]>>, e[2]>> \in lost
    <3> HIDE DEF lost
    <3> DEFINE open(p) == {n \in 1..RelaySettled[p] :
                             RelayOwed[p][n] /\ RelayAnswers[p][n] = 0}
    <3>1. e \in UNION {{<<p, i>> : i \in open(p)} : p \in Partitions}
      BY DEF R!Unanswered, RelaySettled, RelayOwed, RelayAnswers
    <3> HIDE DEF open
    <3>2. PICK p \in Partitions : e \in {<<p, i>> : i \in open(p)}
      BY <3>1
    <3>3. PICK i \in open(p) : e = <<p, i>>
      BY <3>2
    <3>4. i \in 1..RelaySettled[p] /\ RelayOwed[p][i] /\ RelayAnswers[p][i] = 0
      BY DEF open
    <3> QED
      BY <2>2, <3>3, <3>4
  <2> HIDE DEF lost
  <2>4. f \in [R!Unanswered -> lost]
    BY <2>3
  <2>5. \A d, e \in R!Unanswered : f[d] = f[e] => d = e
    BY <2>3
  <2> HIDE DEF f
  <2>6. /\ Cardinality(R!Unanswered) <= Cardinality(lost)
        /\ Cardinality(R!Unanswered) \in Nat /\ Cardinality(lost) \in Nat
    BY <2>1, <2>4, <2>5, AtMost
  <2> QED
    BY <1>2, <2>1, <2>6
<1> QED
  BY <1>3, <1>4 DEF Afforded

(* At first there is nothing on the topics.                                *)
LEMMA RelayStarts == Init => R!Init
<1> SUFFICES ASSUME Init PROVE R!Init
  OBVIOUS
<1>1. /\ input = [p \in Partitions |-> <<>>]
      /\ acked = [g \in Groups |-> [p \in Partitions |-> 0]]
      /\ trouble = [crashes |-> 0, evictions |-> 0, stops |-> 0, faults |-> 0]
      /\ failures = 0
  BY DEF Init, LoopInit
<1>2. RelayOwed = [p \in Partitions |-> <<>>] /\ RelayAnswers = [p \in Partitions |-> <<>>]
  BY <1>1 DEF RelayOwed, RelayAnswers
<1>3. /\ RelaySettled = [p \in Partitions |-> 0]
      /\ trouble.faults + failures = 0 /\ Disruptions = 0
  BY <1>1, OneGroup DEF RelaySettled, Committed, Disruptions
<1> QED
  BY <1>2, <1>3 DEF R!Init, RelayOwed, RelayAnswers, RelaySettled

(* What Relay sees changes with the topics and the commits only.           *)
LEMMA RelaySees ==
  /\ UNCHANGED <<input, decisions>> => UNCHANGED <<RelayOwed, RelayAnswers>>
  /\ input' = input => RelayOwed' = RelayOwed
  /\ acked' = acked => RelaySettled' = RelaySettled
<1>1. ASSUME input' = input PROVE RelayOwed' = RelayOwed
  BY <1>1 DEF RelayOwed, FirstOfItsClaim, RowsFor
<1>2. ASSUME input' = input, decisions' = decisions PROVE RelayAnswers' = RelayAnswers
  BY <1>2 DEF RelayAnswers, DecisionsOf
<1>3. ASSUME acked' = acked PROVE RelaySettled' = RelaySettled
  BY <1>3 DEF RelaySettled, Committed
<1> QED
  BY <1>1, <1>2, <1>3

(* The loop's own steps settle a row, are trouble, or nothing.             *)
LEMMA RelayTurnStep ==
  ASSUME IInv, Afforded', NEW w \in Processes, Turn(w) \/ Upset(w), Memory(w)
  PROVE  R!Next \/ UNCHANGED R!vars
<1> DEFINE losses == trouble.faults + failures
           losses2 == trouble'.faults + failures'
<1>1. LoopInv(Record, DecisionFinal) /\ UNCHANGED <<input, decisions, failures>>
      /\ trouble.faults \in Nat /\ failures \in Nat
  BY Prices DEF Memory
<1>2. /\ acked' = acked \/ (Commit(w) /\ UNCHANGED trouble)
      /\ \/ UNCHANGED <<trouble.faults, Disruptions>>
         \/ trouble'.faults = trouble.faults + 1 /\ UNCHANGED Disruptions
         \/ Disruptions' = Disruptions + 1 /\ UNCHANGED trouble.faults
  BY <1>1, TurnTrouble
<1>3. \/ losses2 = losses /\ UNCHANGED Disruptions
      \/ losses2 = losses + 1 /\ UNCHANGED Disruptions
      \/ Disruptions' = Disruptions + 1 /\ losses2 = losses
  BY <1>1, <1>2
<1>4. UNCHANGED <<RelayOwed, RelayAnswers>>
  BY <1>1, RelaySees
<1>5. CASE acked' = acked
  <2>1. RelaySettled' = RelaySettled
    BY <1>5, RelaySees
  <2>2. CASE losses2 = losses /\ UNCHANGED Disruptions
    BY <1>4, <2>1, <2>2 DEF R!vars, RelayOwed, RelayAnswers, RelaySettled
  <2>3. CASE losses2 = losses + 1 /\ UNCHANGED Disruptions
    <3>1. R!Lose
      BY <1>4, <2>1, <2>3 DEF R!Lose, RelayOwed, RelayAnswers, RelaySettled
    <3> QED
      BY <3>1 DEF R!Next
  <2>4. CASE Disruptions' = Disruptions + 1 /\ losses2 = losses
    <3>1. R!Disrupt
      BY <1>4, <2>1, <2>4 DEF R!Disrupt, RelayOwed, RelayAnswers, RelaySettled
    <3> QED
      BY <3>1 DEF R!Next
  <2> QED
    BY <1>3, <2>2, <2>3, <2>4
<1>6. CASE Commit(w) /\ UNCHANGED trouble
  <2> DEFINE g == GroupOf[w]
             p == proc[w].msg.part
             off == proc[w].msg.off
  <2>1. /\ g \in Groups /\ p \in Partitions /\ off \in Nat /\ off < Len(input[p])
        /\ acked[g][p] = off /\ acked'[g][p] = off + 1
        /\ \A h \in Groups, q \in Partitions : h # g \/ q # p => acked'[h][q] = acked[h][q]
    BY <1>1, <1>6, CommitLemma
  <2>2. Len(input[p]) \in Nat
    BY <1>1, <2>1 DEF LoopInv
  <2> HIDE DEF g, p, off
  <2>3. RelaySettled = [q \in Partitions |-> acked[g][q]]
        /\ RelaySettled' = [q \in Partitions |-> acked'[g][q]]
    <3>1. (CHOOSE h \in Groups : TRUE) = g
      BY <2>1, OneGroup
    <3>2. \A q \in Partitions :
            Committed(q) = acked[g][q] /\ Committed(q)' = acked'[g][q]
      BY <3>1 DEF Committed
    <3> QED
      BY <3>2 DEF RelaySettled
  <2>4. RelaySettled[p] = off /\ RelaySettled[p] < Len(RelayOwed[p])
    <3>1. RelayOwed[p] = [i \in 1..Len(input[p]) |-> FirstOfItsClaim(p, i)]
      BY <2>1 DEF RelayOwed
    <3>2. Len(RelayOwed[p]) = Len(input[p])
      BY <2>2, <3>1
    <3> QED
      BY <2>1, <2>3, <3>2
  <2>5. RelaySettled' = [RelaySettled EXCEPT ![p] = @ + 1]
    BY <2>1, <2>3
  <2>6. UNCHANGED <<losses, Disruptions>>
    BY <1>1, <1>6 DEF Disruptions
  <2>7. R!Cardinality(R!Unanswered') <= losses
    BY <2>6, CardinalityIs DEF Afforded
  <2>8. R!Settle(p)
    BY <1>4, <2>4, <2>5, <2>6, <2>7 DEF R!Settle, RelayOwed, RelayAnswers, RelaySettled
  <2> QED
    BY <2>1, <2>8 DEF R!Next
<1> QED
  BY <1>2, <1>5, <1>6

(* A synthesis that raises is trouble.                                     *)
LEMMA RelayFailsStep ==
  ASSUME IInv, NEW w \in Processes, SynthesizeFails(w)
  PROVE  R!Next
<1>1. /\ failures' = failures + 1 /\ UNCHANGED <<input, decisions, acked, trouble>>
      /\ trouble.faults \in Nat /\ failures \in Nat
  BY Prices DEF SynthesizeFails
<1>2. UNCHANGED <<RelayOwed, RelayAnswers, RelaySettled>>
  BY <1>1, RelaySees
<1>3. /\ trouble'.faults + failures' = (trouble.faults + failures) + 1
      /\ UNCHANGED Disruptions
  <2>1. UNCHANGED Disruptions
    BY <1>1 DEF Disruptions
  <2>2. trouble'.faults + failures' = (trouble.faults + failures) + 1
    BY <1>1
  <2> QED
    BY <2>1, <2>2
<1>4. R!Lose
  BY <1>2, <1>3 DEF R!Lose, RelayOwed, RelayAnswers, RelaySettled
<1> QED
  BY <1>4 DEF R!Next

(* Steps that leave the topics, the commits and the count of trouble alone *)
(* are nothing to Relay.                                                   *)
LEMMA RelayQuiet ==
  ASSUME UNCHANGED <<input, decisions, acked, trouble, failures>>
  PROVE  UNCHANGED R!vars
<1>1. UNCHANGED <<RelayOwed, RelayAnswers, RelaySettled>>
  BY RelaySees
<1>2. UNCHANGED <<trouble.faults + failures, Disruptions>>
  BY DEF Disruptions
<1> QED
  BY <1>1, <1>2 DEF R!vars, RelayOwed, RelayAnswers, RelaySettled

(* What Relay sees of the rows, in terms of the topics.                    *)
RelaySeen ==
  \A p \in Partitions : \A i \in 1..Len(input[p]) :
    /\ RelayOwed[p][i] = First(input, p, i)
    /\ RelayAnswers[p][i] = Cardinality(Verdicts(decisions, p, i))

(* It does so now ...                                                      *)
LEMMA RelaySeenNow == IInv => RelaySeen
BY OneGroup, RelayFacts DEF RelaySeen

(* ... and in the next state.                                              *)
LEMMA RelaySeenNext == (IInv => RelaySeen)'
BY RelaySeenNow, PTL

(* A decision that is published is one answer more to the row it was taken *)
(* from.                                                                   *)
LEMMA RelayDecideStep ==
  ASSUME IInv, RowsInv, IInv', RowsInv', Afforded', NEW w \in Processes, Decide(w)
  PROVE  R!Next
<1> DEFINE head == Head(proc[w].out)
           new == <<head.claim, Len(decisions[head.claim]) + 1>>
           p == head.row.part
           i == head.row.off + 1
<1>1. /\ head \in DecisionFinal /\ head = proc[w].out[1] /\ 1 \in 1..Len(proc[w].out)
      /\ p \in Partitions /\ head.row.off \in Nat
      /\ UNCHANGED <<input, acked, trouble, failures>>
  BY DecideFacts
<1>2. \A q \in Partitions, j \in Nat :
        /\ <<q, j>> = RowNo[head] =>
             Verdicts(decisions', q, j) = Verdicts(decisions, q, j) \cup {new}
        /\ <<q, j>> # RowNo[head] =>
             Verdicts(decisions', q, j) = Verdicts(decisions, q, j)
        /\ new \notin Verdicts(decisions, q, j)
  BY DecideVerdicts
<1>3. RowNo[head] = <<p, i>>
  BY <1>1, RowNoType
<1>4. DecisionOK(head, input)
  BY <1>1 DEF RowsInv, OutOK
<1> HIDE DEF head, new
<1>5. i \in 1..Len(input[p]) /\ i \in Nat
  <2>1. Len(input[p]) \in Nat
    <3>1. p \in Partitions
      BY <1>1
    <3> HIDE DEF p
    <3> QED
      BY <3>1 DEF IInv, LoopInv
  <2>2. head.row.off < Len(input[p])
    BY <1>4 DEF DecisionOK
  <2>3. head.row.off \in Nat
    BY <1>1
  <2> QED
    BY <2>1, <2>2, <2>3
<1> HIDE DEF p, i
<1>6. UNCHANGED <<RelayOwed, RelaySettled>>
  BY <1>1, RelaySees
<1> DEFINE g == CHOOSE h \in Groups : TRUE
<1>7. g \in Groups
  BY OneGroup
<1> HIDE DEF g
<1>8. ASSUME NEW q \in Partitions, NEW j \in 1..Len(input[q])
      PROVE  RelayAnswers'[q][j] =
               IF q = p /\ j = i THEN RelayAnswers[q][j] + 1 ELSE RelayAnswers[q][j]
  <2> DEFINE old == Verdicts(decisions, q, j)
  <2>1. j \in Nat /\ RelayAnswers[q][j] = Cardinality(old)
    BY <1>7, RelayFacts
  <2>2. RelayAnswers'[q][j] = Cardinality(Verdicts(decisions', q, j))
    BY <1>1, RelaySeenNext DEF RelaySeen
  <2>3. CASE ~(q = p /\ j = i)
    <3>1. <<q, j>> # RowNo[head]
      BY <1>3, <2>3
    <3> QED
      BY <1>2, <2>1, <2>2, <2>3, <3>1
  <2>4. CASE q = p /\ j = i
    <3>1. <<q, j>> = RowNo[head]
      BY <1>3, <2>4
    <3>2. Verdicts(decisions', q, j) = old \cup {new} /\ new \notin old
      BY <1>2, <2>1, <3>1
    <3>3. IsFiniteSet(old)
      BY VerdictsFinite DEF RowsInv
    <3> HIDE DEF old
    <3>4. Cardinality(old \cup {new}) = Cardinality(old) + 1
      BY <3>2, <3>3, FS_AddElement
    <3> QED
      BY <2>1, <2>2, <2>4, <3>2, <3>4
  <2> QED
    BY <2>3, <2>4
<1>9. RelayAnswers' = [RelayAnswers EXCEPT ![p][i] = @ + 1]
  <2>1. /\ RelayAnswers = [q \in Partitions |-> RelayAnswers[q]]
        /\ RelayAnswers' = [q \in Partitions |-> RelayAnswers'[q]]
        /\ \A q \in Partitions :
             /\ RelayAnswers[q] = [j \in 1..Len(input[q]) |-> RelayAnswers[q][j]]
             /\ RelayAnswers'[q] = [j \in 1..Len(input[q]) |-> RelayAnswers'[q][j]]
    BY <1>1 DEF RelayAnswers
  <2>2. \A q \in Partitions : q # p => RelayAnswers'[q] = RelayAnswers[q]
    BY <1>8, <2>1
  <2>3. RelayAnswers'[p] = [RelayAnswers[p] EXCEPT ![i] = @ + 1]
    <3> DEFINE D == 1..Len(input[p])
               s == RelayAnswers[p]
               s2 == RelayAnswers'[p]
    <3>1. \A j \in D : s2[j] = IF j = i THEN s[j] + 1 ELSE s[j]
      BY <1>1, <1>8
    <3>2. s = [j \in D |-> s[j]] /\ s2 = [j \in D |-> s2[j]] /\ i \in D
      BY <1>1, <1>5, <2>1
    <3> HIDE DEF D, s, s2
    <3>3. s2 = [s EXCEPT ![i] = @ + 1]
      BY <3>1, <3>2
    <3> QED
      BY <3>3 DEF s, s2
  <2>4. p \in Partitions
    BY <1>1 DEF p
  <2> QED
    BY <2>1, <2>2, <2>3, <2>4
<1>10. UNCHANGED <<trouble.faults + failures, Disruptions>>
  BY <1>1 DEF Disruptions
<1>11. R!Cardinality(R!Repeats') <= Disruptions
  BY <1>10, CardinalityIs DEF Afforded
<1>12. p \in Partitions /\ i \in 1..Len(RelayOwed[p])
  <2>1. p \in Partitions
    BY <1>1 DEF p
  <2>2. RelayOwed[p] = [j \in 1..Len(input[p]) |-> FirstOfItsClaim(p, j)]
    BY <2>1 DEF RelayOwed
  <2>3. Len(input[p]) \in Nat
    BY <2>1 DEF IInv, LoopInv
  <2>4. Len(RelayOwed[p]) = Len(input[p])
    BY <2>2, <2>3
  <2> QED
    BY <1>5, <2>1, <2>4
<1>13. PICK q \in Partitions : q = p
  BY <1>12
<1>14. \E j \in 1..Len(RelayOwed[q]) : RelayAnswers' = [RelayAnswers EXCEPT ![q][j] = @ + 1]
  BY <1>9, <1>12, <1>13
<1>15. R!Answer(q)
  BY <1>6, <1>10, <1>11, <1>14
  DEF R!Answer, RelayOwed, RelayAnswers, RelaySettled
<1> QED
  BY <1>15 DEF R!Next

(* A row that arrives is accepted in its partition.                        *)
LEMMA RelayFedStep ==
  ASSUME IInv, RowsInv, IInv', Fed
  PROVE  R!Next
<1>1. /\ LoopInv(Record, DecisionFinal) /\ UNCHANGED <<decisions, loopVars, failures>>
      /\ input \in [Partitions -> Seq(Record)]
  BY DEF Fed, ownVars, IInv, LoopInv
<1>2. UNCHANGED <<acked, trouble>>
  BY <1>1 DEF loopVars
<1>3. PICK p \in Partitions, rec \in Record : input' = [input EXCEPT ![p] = Append(@, rec)]
  BY DEF Fed
<1> DEFINE n == Len(input[p])
<1>4. /\ n \in Nat /\ Len(input'[p]) = n + 1
      /\ \A i \in 1..n : input'[p][i] = input[p][i]
      /\ \A q \in Partitions : q # p => input'[q] = input[q]
  <2>1. input'[p] = Append(input[p], rec) /\ input[p] \in Seq(Record)
    BY <1>1, <1>3
  <2> QED
    BY <1>1, <1>3, <2>1
<1>5. \A q \in Partitions : \A i \in 1..Len(input[q]) :
        /\ RelayOwed[q][i] = First(input, q, i)
        /\ RelayAnswers[q][i] = Cardinality(Verdicts(decisions, q, i))
  BY RelaySeenNow DEF RelaySeen
<1>6. \A q \in Partitions : \A i \in 1..Len(input'[q]) :
        /\ RelayOwed'[q][i] = First(input', q, i)
        /\ RelayAnswers'[q][i] = Cardinality(Verdicts(decisions, q, i))
  BY <1>1, RelaySeenNext DEF RelaySeen
<1>7. /\ RelayOwed = [q \in Partitions |-> RelayOwed[q]]
      /\ RelayOwed' = [q \in Partitions |-> RelayOwed'[q]]
      /\ RelayAnswers = [q \in Partitions |-> RelayAnswers[q]]
      /\ RelayAnswers' = [q \in Partitions |-> RelayAnswers'[q]]
      /\ \A q \in Partitions :
           /\ RelayOwed[q] = [i \in 1..Len(input[q]) |-> RelayOwed[q][i]]
           /\ RelayOwed'[q] = [i \in 1..Len(input'[q]) |-> RelayOwed'[q][i]]
           /\ RelayAnswers[q] = [i \in 1..Len(input[q]) |-> RelayAnswers[q][i]]
           /\ RelayAnswers'[q] = [i \in 1..Len(input'[q]) |-> RelayAnswers'[q][i]]
  BY DEF RelayOwed, RelayAnswers
<1> HIDE DEF n
<1>8. n = Len(input[p])
  BY DEF n
<1>9. ASSUME NEW q \in Partitions, q # p
      PROVE  RelayOwed'[q] = RelayOwed[q] /\ RelayAnswers'[q] = RelayAnswers[q]
  <2>1. input'[q] = input[q]
    BY <1>4, <1>9
  <2>2. \A i : First(input', q, i) = First(input, q, i)
    BY <2>1 DEF First
  <2> DEFINE D == 1..Len(input[q])
             s == RelayOwed[q]
             s2 == RelayOwed'[q]
             t == RelayAnswers[q]
             t2 == RelayAnswers'[q]
  <2>3. /\ s = [i \in D |-> s[i]] /\ s2 = [i \in D |-> s2[i]]
        /\ t = [i \in D |-> t[i]] /\ t2 = [i \in D |-> t2[i]]
    BY <1>7, <2>1
  <2>4. \A i \in D : s2[i] = s[i] /\ t2[i] = t[i]
    BY <1>5, <1>6, <2>1, <2>2
  <2> HIDE DEF D, s, s2, t, t2
  <2>5. s2 = s /\ t2 = t
    BY <2>3, <2>4
  <2> QED
    BY <2>5 DEF s, s2, t, t2
<1>10. PICK b \in BOOLEAN : b = First(input', p, n + 1)
  <2>1. First(input', p, n + 1) \in BOOLEAN
    BY DEF First
  <2> QED
    BY <2>1
<1>11. RelayOwed'[p] = Append(RelayOwed[p], b)
  <2>1. \A i \in 1..(n + 1) : First(input', p, i) \in BOOLEAN
    BY DEF First
  <2>2. \A i \in 1..n : First(input, p, i) \in BOOLEAN
    BY DEF First
  <2>3. \A i \in 1..n : First(input', p, i) = First(input, p, i)
    <3> SUFFICES ASSUME NEW i \in 1..n PROVE First(input', p, i) = First(input, p, i)
      OBVIOUS
    <3>1. input'[p][i] = input[p][i] /\ \A j \in 1..(i - 1) : input'[p][j] = input[p][j]
      BY <1>4
    <3> QED
      BY <3>1 DEF First
  <2>4. 1..n \subseteq 1..(n + 1) /\ n + 1 \in 1..(n + 1)
    BY <1>4
  <2> DEFINE s == RelayOwed[p]
             s2 == RelayOwed'[p]
  <2>5. /\ s = [i \in 1..n |-> s[i]] /\ s2 = [i \in 1..(n + 1) |-> s2[i]]
        /\ \A i \in 1..n : s[i] = First(input, p, i)
        /\ \A i \in 1..(n + 1) : s2[i] = First(input', p, i)
    BY <1>4, <1>5, <1>6, <1>7, <1>8
  <2> HIDE DEF s, s2
  <2>6. s \in [1..n -> BOOLEAN] /\ s2 \in [1..(n + 1) -> BOOLEAN]
    BY <2>1, <2>2, <2>5
  <2>7. (\A i \in 1..n : s2[i] = s[i]) /\ s2[n + 1] = b
    BY <1>10, <2>3, <2>4, <2>5
  <2>8. s2 = Append(s, b)
    BY <1>4, <2>6, <2>7, AppendMap
  <2> QED
    BY <2>8 DEF s, s2
<1>12. RelayAnswers'[p] = Append(RelayAnswers[p], 0)
  <2> DEFINE s == RelayAnswers[p]
             s2 == RelayAnswers'[p]
  <2>1. /\ s = [i \in 1..n |-> s[i]] /\ s2 = [i \in 1..(n + 1) |-> s2[i]]
        /\ \A i \in 1..n : s[i] = Cardinality(Verdicts(decisions, p, i))
        /\ \A i \in 1..(n + 1) : s2[i] = Cardinality(Verdicts(decisions, p, i))
    BY <1>4, <1>5, <1>6, <1>7, <1>8
  <2> HIDE DEF s, s2
  <2>2. \A i : Cardinality(Verdicts(decisions, p, i)) \in Nat
    BY VerdictsFinite DEF RowsInv
  <2>3. Cardinality(Verdicts(decisions, p, n + 1)) = 0
    <3>1. ASSUME NEW x \in Verdicts(decisions, p, n + 1) PROVE FALSE
      <4> DEFINE d == decisions[x[1]][x[2]]
      <4>1. /\ x[1] \in ClaimId /\ x[2] \in 1..Len(decisions[x[1]])
            /\ RowNo[d] = <<p, n + 1>>
        BY DEF Verdicts
      <4>2. d \in DecisionFinal /\ DecisionOK(d, input)
        BY <4>1 DEF IInv, RowsInv, LogOK
      <4> HIDE DEF d
      <4>3. d.row.part = p /\ d.row.off \in Nat /\ d.row.off + 1 = n + 1
        BY <4>1, <4>2, RowNoType
      <4>4. d.row.off < n
        BY <1>8, <4>2, <4>3 DEF DecisionOK
      <4> QED
        BY <1>4, <4>3, <4>4
    <3>2. Verdicts(decisions, p, n + 1) = {}
      BY <3>1
    <3> QED
      BY <3>2, FS_EmptySet
  <2>4. 1..n \subseteq 1..(n + 1) /\ n + 1 \in 1..(n + 1)
    BY <1>4
  <2>5. s \in [1..n -> Nat] /\ s2 \in [1..(n + 1) -> Nat]
    BY <2>1, <2>2
  <2>6. (\A i \in 1..n : s2[i] = s[i]) /\ s2[n + 1] = 0
    BY <2>1, <2>3, <2>4
  <2>7. s2 = Append(s, 0)
    BY <1>4, <2>5, <2>6, AppendMap
  <2> QED
    BY <2>7 DEF s, s2
<1>13. PICK S \in SUBSET Partitions : S = {p}
  OBVIOUS
<1>14. RelayOwed' = [q \in Partitions |-> IF q \in S THEN Append(RelayOwed[q], b)
                                                     ELSE RelayOwed[q]]
  BY <1>7, <1>9, <1>11, <1>13
<1>15. RelayAnswers' = [q \in Partitions |-> IF q \in S THEN Append(RelayAnswers[q], 0)
                                                        ELSE RelayAnswers[q]]
  BY <1>7, <1>9, <1>12, <1>13
<1>16. UNCHANGED <<RelaySettled, trouble.faults + failures, Disruptions>>
  BY <1>1, <1>2, RelaySees DEF Disruptions
<1>17. R!Accept(S)
  BY <1>14, <1>15, <1>16 DEF R!Accept, RelayOwed, RelayAnswers, RelaySettled
<1> QED
  BY <1>17 DEF R!Next

(* Every step is a step of Relay, or nothing to it.                        *)
LEMMA RelayStep ==
  IInv /\ RowsInv /\ IInv' /\ RowsInv' /\ Afforded' /\ [Next]_vars => [R!Next]_(R!vars)
<1> SUFFICES ASSUME IInv, RowsInv, IInv', RowsInv', Afforded', [Next]_vars
             PROVE  R!Next \/ UNCHANGED R!vars
  OBVIOUS
<1>1. ASSUME NEW w \in Processes, Progress(w) \/ Decide(w) \/ Trouble(w)
      PROVE  R!Next \/ UNCHANGED R!vars
  <2>1. CASE (Turn(w) \/ Upset(w)) /\ Memory(w)
    BY <2>1, RelayTurnStep
  <2>2. ASSUME NEW p \in Partitions, Consume(w, p) PROVE UNCHANGED R!vars
    BY <2>2, RelayQuiet DEF Consume, Poll
  <2>3. CASE Synthesize(w)
    BY <2>3, RelayQuiet DEF Synthesize, Produce
  <2>4. CASE SynthesizeFails(w)
    BY <2>4, RelayFailsStep
  <2>5. CASE Decide(w)
    BY <2>5, RelayDecideStep
  <2> QED
    BY <1>1, <2>1, <2>2, <2>3, <2>4, <2>5 DEF Progress, Trouble
<1>2. CASE Env
  BY <1>2, EnvFeeds, RelayFedStep
<1>3. CASE UNCHANGED vars
  BY <1>3, RelayQuiet DEF vars, ownVars, loopVars
<1> QED
  BY <1>1, <1>2, <1>3 DEF Next, Step

(* The orchestrator implements Relay: the first row of a claim is decided  *)
(* before it is committed and no row is decided again, but for the price of*)
(* a fault, a failed synthesis, a crash or an eviction each.               *)
THEOREM OrchestratorImplementsRelay == Spec => ImplementsRelay
<1>1. IInv /\ RowsInv /\ SurplusInv /\ PassedInv /\ [Next]_vars =>
        IInv' /\ RowsInv' /\ SurplusInv' /\ PassedInv'
  BY InvNext, RowsNext, SurplusNext, PassedNext
<1>2. Init => IInv /\ RowsInv /\ SurplusInv /\ PassedInv /\ R!Init
  BY InvInit, RowsInit, SurplusInit, PassedInit, RelayStarts
<1> QED
  BY <1>1, <1>2, RelayAfforded, RelayStep, PTL DEF Spec, ImplementsRelay, R!Spec

===============================================================================
