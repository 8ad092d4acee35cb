----------------------------- MODULE WorkerProofs -----------------------------
(***************************************************************************)
(* Theorems about Worker, for every number of agents, replicas, partitions *)
(* and tasks, and every bound on crashes, evictions, stops and faults.     *)
(***************************************************************************)
EXTENDS Worker, LoopProofs

-------------------------------------------------------------------------------
(* The inductive invariant.                                                *)

(* What a task topic holds.                                                *)
Record == Task \cup {BadKey, BadPayload, Tombstone}

(* Agent a's result for the task is in the log.                            *)
Logged(task, a, log) ==
  \E j \in 1..Len(log[PartitionOf[task.claim]]) :
    Answers(log[PartitionOf[task.claim]][j], task, a)

(* ... or in the queue of a producer.                                      *)
Queued(task, a, out) == \E i \in 1..Len(out) : Answers(out[i], task, a)

(* A task that is ready to be committed has its result in the log; one that*)
(* is being flushed may have it in the queue still.                        *)
AnsweredOK(w, r, topic, log) ==
  RecordOf(r, topic) \in Task =>
    /\ r.pc = "commit" => Logged(RecordOf(r, topic), GroupOf[w], log)
    /\ r.pc = "flush" => \/ Logged(RecordOf(r, topic), GroupOf[w], log)
                         \/ Queued(RecordOf(r, topic), GroupOf[w], r.out)

(* Every committed task has its result in the log.                         *)
NothingLost(ack, topic, log) ==
  \A g \in Groups, p \in Partitions : \A i \in 1..ack[g][p] :
    topic[p][i] \in Task => Logged(topic[p][i], g, log)

(* The inductive invariant.                                                *)
IInv ==
  /\ LoopInv(Record, Result)
  /\ results \in [Partitions -> Seq(Result)]
  /\ trouble.faults = 0 =>
       /\ \A w \in Processes : AnsweredOK(w, proc[w], input, results)
       /\ NothingLost(acked, input, results)

(* The invariant says what the two properties do.                          *)
LEMMA InvImplies == IInv => TypeOK /\ NoLostWork
<1>1. IInv => TypeOK
  BY DEF IInv, LoopInv, TypeOK, Record
<1>2. IInv => NoLostWork
  <2> SUFFICES ASSUME IInv, trouble.faults = 0, NEW a \in Groups, NEW p \in Partitions,
                      NEW i \in Settled(a, p)
               PROVE  InLog(input[p][i], a)
    BY DEF NoLostWork
  <2>1. i \in 1..acked[a][p] /\ input[p][i] \in Task
    BY DEF Settled
  <2>2. Logged(input[p][i], a, results)
    BY <2>1 DEF IInv, NothingLost
  <2> QED
    BY <2>2 DEF Logged, InLog, AnswersTo
<1> QED
  BY <1>1, <1>2

-------------------------------------------------------------------------------
(* The steps.                                                              *)

(* The log only grows.                                                     *)
LogGrows(log, log2) ==
  \A p \in Partitions :
    Len(log[p]) <= Len(log2[p]) /\ \A i \in 1..Len(log[p]) : log2[p][i] = log[p][i]

(* What is logged stays logged when the log grows.                         *)
LEMMA LoggedStays ==
  ASSUME NEW log \in [Partitions -> Seq(Result)], NEW log2 \in [Partitions -> Seq(Result)],
         LogGrows(log, log2), NEW task \in Task, NEW a, Logged(task, a, log)
  PROVE  Logged(task, a, log2)
<1> DEFINE p == PartitionOf[task.claim]
<1>1. p \in Partitions
  BY EventsAssumption DEF EventsAssumption, Task
<1>2. PICK j \in 1..Len(log[p]) : Answers(log[p][j], task, a)
  BY DEF Logged
<1>3. j \in 1..Len(log2[p]) /\ log2[p][j] = log[p][j]
  <2>1. Len(log[p]) \in Nat /\ Len(log2[p]) \in Nat /\ Len(log[p]) <= Len(log2[p])
    BY <1>1 DEF LogGrows
  <2> QED
    BY <1>1, <2>1 DEF LogGrows
<1> QED
  BY <1>2, <1>3 DEF Logged

(* A step of w keeps what the others have answered.                        *)
LEMMA Frame ==
  ASSUME IInv, LoopInv(Record, Result)', NEW w \in Processes, OthersRest(w),
         input' = input, results' \in [Partitions -> Seq(Result)],
         LogGrows(results, results'),
         trouble'.faults = 0 =>
           /\ trouble.faults = 0
           /\ AnsweredOK(w, proc'[w], input, results')
           /\ acked' = acked \/ NothingLost(acked', input, results')
  PROVE  IInv'
<1>1. results \in [Partitions -> Seq(Result)]
  BY DEF IInv
<1>2. ASSUME trouble'.faults = 0, NEW v \in Processes \ {w}
      PROVE  AnsweredOK(v, proc'[v], input, results')
  <2> DEFINE task == RecordOf(proc[v], input)
  <2>1. AnsweredOK(v, proc[v], input, results) /\ proc'[v] = proc[v]
    BY <1>2 DEF IInv, OthersRest
  <2>2. task \in Task /\ Logged(task, GroupOf[v], results) =>
          Logged(task, GroupOf[v], results')
    BY <1>1, LoggedStays
  <2> QED
    BY <2>1, <2>2 DEF AnsweredOK
<1>3. ASSUME trouble'.faults = 0 PROVE NothingLost(acked', input, results')
  <2> SUFFICES ASSUME acked' = acked, NothingLost(acked, input, results),
                      NEW g \in Groups, NEW p \in Partitions, NEW i \in 1..acked[g][p],
                      input[p][i] \in Task
               PROVE  Logged(input[p][i], g, results')
    BY <1>3 DEF IInv, NothingLost
  <2>1. Logged(input[p][i], g, results)
    BY DEF NothingLost
  <2> QED
    BY <1>1, <2>1, LoggedStays
<1> QED
  BY <1>2, <1>3 DEF IInv

(* A log grows by staying as it is.                                        *)
LEMMA LogStays ==
  ASSUME results \in [Partitions -> Seq(Result)], results' = results
  PROVE  LogGrows(results, results')
BY DEF LogGrows

(* The loop's own steps commit only what is answered.                      *)
LEMMA TurnPreserves ==
  ASSUME IInv, NEW w \in Processes, Turn(w) \/ Upset(w), UNCHANGED <<input, results>>
  PROVE  IInv'
<1>1. LoopInv(Record, Result)
  BY DEF IInv
<1>2. LoopInv(Record, Result)' /\ Effect(w)
  BY <1>1, TurnStep
<1>3. results' \in [Partitions -> Seq(Result)] /\ LogGrows(results, results')
  BY LogStays DEF IInv
<1>4. OthersRest(w) /\ (trouble'.faults = 0 => trouble.faults = 0)
  BY <1>2 DEF Effect
<1>5. ASSUME trouble'.faults = 0
      PROVE  /\ AnsweredOK(w, proc'[w], input, results')
             /\ acked' = acked \/ NothingLost(acked', input, results')
  <2>1. AnsweredOK(w, proc[w], input, results) /\ NothingLost(acked, input, results)
    BY <1>4, <1>5 DEF IInv
  <2>2. CASE Rests(w)
    BY <2>2 DEF Rests, AnsweredOK, Busy
  <2>3. CASE Keeps(w)
    BY <2>1, <2>3 DEF Keeps, AnsweredOK, RecordOf
  <2>4. CASE Flushes(w)
    <3>1. ~Queued(RecordOf(proc[w], input), GroupOf[w], proc[w].out)
      BY <1>5, <2>4 DEF Flushes, Queued
    <3>2. RecordOf(proc'[w], input) = RecordOf(proc[w], input)
      BY <2>4 DEF Flushes, RecordOf
    <3> QED
      BY <2>1, <2>4, <3>1, <3>2 DEF Flushes, AnsweredOK
  <2>5. CASE Loses(w)
    BY <1>5, <2>5 DEF Loses
  <2>6. CASE Commit(w)
    <3> DEFINE g == GroupOf[w]
               p == proc[w].msg.part
               off == proc[w].msg.off
    <3>1. /\ proc[w].pc = "commit" /\ proc'[w].pc \notin Busy
          /\ g \in Groups /\ p \in Partitions /\ off \in Nat /\ acked[g][p] = off
          /\ acked' \in [Groups -> [Partitions -> Nat]] /\ acked'[g][p] = off + 1
          /\ \A h \in Groups, q \in Partitions :
               h # g \/ q # p => acked'[h][q] = acked[h][q]
      BY <1>1, <2>6, CommitLemma
    <3>2. input[p][off + 1] \in Task => Logged(input[p][off + 1], g, results)
      BY <2>1, <3>1 DEF AnsweredOK, RecordOf
    <3>3. AnsweredOK(w, proc'[w], input, results')
      BY <3>1 DEF AnsweredOK, Busy
    <3> HIDE DEF g, p, off
    <3>4. ASSUME NEW h \in Groups, NEW q \in Partitions, NEW i \in 1..acked'[h][q],
                 input[q][i] \in Task
          PROVE  Logged(input[q][i], h, results)
      <4>1. CASE i \in 1..acked[h][q]
        BY <2>1, <3>4, <4>1 DEF NothingLost
      <4>2. CASE i \notin 1..acked[h][q]
        <5>1. h = g /\ q = p /\ i = off + 1
          BY <3>1, <4>2
        <5> QED
          BY <3>2, <3>4, <5>1
      <4> QED
        BY <4>1, <4>2
    <3> QED
      BY <3>3, <3>4 DEF NothingLost
  <2> QED
    BY <1>2, <2>2, <2>3, <2>4, <2>5, <2>6 DEF Effect, Rests, Keeps, Flushes
<1> QED
  BY <1>2, <1>3, <1>4, <1>5, Frame

(* A record that is skipped is no task.                                    *)
LEMMA ReceivePreserves ==
  ASSUME IInv, NEW w \in Processes, NEW p \in Partitions, Receive(w, p)
  PROVE  IInv'
<1>1. LoopInv(Record, Result) /\ LoopTypeOK(Result)
  BY DEF IInv, LoopInv
<1>2. PICK next \in {"work", "commit"} :
        Poll(w, p, next) /\ (next = "commit" => Peek(w, p) \in Undecodable)
  BY DEF Receive
<1>3. UNCHANGED <<input, results>>
  BY DEF Receive
<1>4. LoopInv(Record, Result)'
  BY <1>1, <1>2, <1>3, PollStep
<1>5. /\ OthersRest(w) /\ proc'[w].pc = next /\ UNCHANGED <<acked, trouble>>
      /\ proc'[w].msg = [part |-> p, off |-> proc[w].cursor[p]]
  BY <1>1, <1>2, PollLemma
<1>6. next = "commit" => RecordOf(proc'[w], input) \notin Task
  BY <1>2, <1>5, WorkerAssumption DEF Peek, Undecodable, RecordOf, WorkerAssumption
<1>7. AnsweredOK(w, proc'[w], input, results')
  BY <1>5, <1>6 DEF AnsweredOK
<1>8. results' \in [Partitions -> Seq(Result)] /\ LogGrows(results, results')
  BY <1>3, LogStays DEF IInv
<1> QED
  BY <1>3, <1>4, <1>5, <1>7, <1>8, Frame

(* A report is a result, and answers the task for its agent.               *)
LEMMA ReportFacts ==
  ASSUME LoopTypeOK(Result), NEW w \in Processes, NEW task \in Task,
         NEW res \in ReportsOf(task, GroupOf[w])
  PROVE  res \in Result /\ Answers(res, task, GroupOf[w])
<1> DEFINE a == GroupOf[w]
<1>1. a \in Agents
  BY ProcFacts, WorkerAssumption DEF WorkerAssumption
<1>2. task.claim \in Claims /\ task.round \in Round
  BY DEF Task
<1>3. CASE res = FailureOf(task, a)
  BY <1>1, <1>2, <1>3 DEF FailureOf, Result, Answers
<1>4. ASSUME NEW text \in Texts, res = SuccessOf(task, a, text)
      PROVE  res \in Result /\ Answers(res, task, a)
  BY <1>1, <1>2, <1>4 DEF SuccessOf, Result, Answers
<1> QED
  BY <1>3, <1>4 DEF ReportsOf

(* What a handler produces is the answer to the record in hand.            *)
LEMMA HandlePreserves ==
  ASSUME IInv, NEW w \in Processes, Handle(w)
  PROVE  IInv'
<1> DEFINE task == InHand(w)
           a == GroupOf[w]
<1>1. LoopInv(Record, Result) /\ LoopTypeOK(Result)
  BY DEF IInv, LoopInv
<1>2. PICK res \in ReportsOf(task, a) : Produce(w, res)
  BY DEF Handle
<1>3. UNCHANGED <<input, results>> /\ task \in Task
  BY DEF Handle
<1>4. res \in Result /\ Answers(res, task, a)
  BY <1>1, <1>2, <1>3, ReportFacts
<1>5. LoopInv(Record, Result)'
  BY <1>1, <1>2, <1>3, <1>4, ProduceStep
<1>6. /\ OthersRest(w) /\ proc'[w].pc = "flush" /\ proc'[w].msg = proc[w].msg
      /\ Len(proc[w].out) + 1 \in 1..Len(proc'[w].out)
      /\ proc'[w].out[Len(proc[w].out) + 1] = res
      /\ UNCHANGED <<acked, trouble>>
  BY <1>1, <1>2, <1>4, ProduceLemma
<1>7. Queued(task, a, proc'[w].out) /\ RecordOf(proc'[w], input) = task
  BY <1>4, <1>6 DEF Queued, RecordOf, InHand
<1>8. AnsweredOK(w, proc'[w], input, results')
  BY <1>6, <1>7 DEF AnsweredOK
<1>9. results' \in [Partitions -> Seq(Result)] /\ LogGrows(results, results')
  BY <1>3, LogStays DEF IInv
<1> QED
  BY <1>3, <1>5, <1>6, <1>8, <1>9, Frame

(* A result that is delivered is in the log, and the rest stays queued.    *)
LEMMA DeliverPreserves ==
  ASSUME IInv, NEW w \in Processes, Deliver(w)
  PROVE  IInv'
<1> DEFINE out == proc[w].out
           head == Head(out)
           q == PartitionOf[head.claim]
<1>1. LoopInv(Record, Result) /\ LoopTypeOK(Result)
  BY DEF IInv, LoopInv
<1>2. /\ Unqueue(w) /\ UNCHANGED <<trouble, input>>
      /\ results' = [results EXCEPT ![q] = Append(@, head)]
  BY DEF Deliver, Sent, Published
<1>3. /\ OthersRest(w)
      /\ proc'[w].pc = proc[w].pc /\ proc'[w].msg = proc[w].msg
      /\ proc'[w].out = Tail(out) /\ out \in Seq(Result) /\ out # <<>>
      /\ UNCHANGED <<owner, acked>>
  BY <1>1, <1>2, UnqueueLemma
<1>4. head \in Result
  BY <1>3
<1>5. q \in Partitions
  BY <1>4, EventsAssumption DEF Result, EventsAssumption
<1>6. results \in [Partitions -> Seq(Result)]
  BY DEF IInv
<1> HIDE DEF head, q
<1>7. /\ results' \in [Partitions -> Seq(Result)]
      /\ LogGrows(results, results')
      /\ Len(results'[q]) = Len(results[q]) + 1 /\ Len(results[q]) \in Nat
      /\ results'[q][Len(results[q]) + 1] = head
  BY <1>2, <1>4, <1>5, <1>6 DEF LogGrows
<1>8. LoopInv(Record, Result)'
  <2>1. trouble' \in [Kinds -> Nat]
    BY <1>1, <1>2, ProcFacts
  <2> QED
    BY <1>1, <1>2, <2>1, SentStep
<1>9. ASSUME trouble.faults = 0 PROVE AnsweredOK(w, proc'[w], input, results')
  <2> DEFINE task == RecordOf(proc[w], input)
             a == GroupOf[w]
  <2>1. RecordOf(proc'[w], input) = task
    BY <1>3 DEF RecordOf
  <2>2. ASSUME task \in Task, Logged(task, a, results) PROVE Logged(task, a, results')
    BY <1>6, <1>7, <2>2, LoggedStays
  <2>3. ASSUME task \in Task, Queued(task, a, out)
        PROVE  Logged(task, a, results') \/ Queued(task, a, Tail(out))
    <3>1. PICK i \in 1..Len(out) : Answers(out[i], task, a)
      BY <2>3 DEF Queued
    <3>2. CASE i = 1
      <4>1. Answers(head, task, a)
        BY <1>3, <3>1, <3>2 DEF head
      <4>2. q = PartitionOf[task.claim]
        BY <4>1 DEF Answers, q
      <4>3. Len(results[q]) + 1 \in 1..Len(results'[q])
        BY <1>7
      <4> QED
        BY <1>7, <4>1, <4>2, <4>3 DEF Logged
    <3>3. CASE i # 1
      <4>1. i - 1 \in 1..Len(Tail(out)) /\ Tail(out)[i - 1] = out[i]
        BY <1>3, <3>3
      <4> QED
        BY <3>1, <4>1 DEF Queued
    <3> QED
      BY <3>2, <3>3
  <2>4. AnsweredOK(w, proc[w], input, results)
    BY <1>9 DEF IInv
  <2> HIDE DEF task, a
  <2>5. task \in Task => /\ proc[w].pc = "commit" => Logged(task, a, results)
                         /\ proc[w].pc = "flush" => \/ Logged(task, a, results)
                                                    \/ Queued(task, a, out)
    BY <2>4 DEF AnsweredOK, task, a
  <2>6. task \in Task => /\ proc'[w].pc = "commit" => Logged(task, a, results')
                         /\ proc'[w].pc = "flush" => \/ Logged(task, a, results')
                                                     \/ Queued(task, a, proc'[w].out)
    BY <1>3, <2>2, <2>3, <2>5
  <2> QED
    BY <2>1, <2>6 DEF AnsweredOK, a
<1> QED
  BY <1>2, <1>3, <1>7, <1>8, <1>9, Frame

(* A bad key, or a null value under a registry, kills the process, and     *)
(* nothing is committed by it.                                             *)
LEMMA RaisesPreserves ==
  ASSUME IInv, NEW w \in Processes, Raises(w)
  PROVE  IInv'
<1>1. Die(w) /\ UNCHANGED <<input, results, trouble>>
  BY DEF Raises
<1>2. LoopInv(Record, Result) /\ trouble' \in [Kinds -> Nat]
  BY <1>1, ProcFacts DEF IInv, LoopInv
<1>3. /\ LoopInv(Record, Result)' /\ OthersRest(w) /\ acked' = acked
      /\ proc'[w].pc = "down"
  BY <1>1, <1>2, DieStep DEF Rests
<1>4. AnsweredOK(w, proc'[w], input, results')
  BY <1>3 DEF AnsweredOK
<1>5. results' \in [Partitions -> Seq(Result)] /\ LogGrows(results, results')
  BY <1>1, LogStays DEF IInv
<1> QED
  BY <1>1, <1>3, <1>4, <1>5, Frame

(* One record is put on the task topic, by whomever: the workers' own      *)
(* environment, or the dispatch command.                                   *)
Fed ==
  /\ \E p \in Partitions, rec \in Record :
       /\ input' = [input EXCEPT ![p] = Append(@, rec)]
       /\ rec \in Task => rec.round = Len(input[p]) + 1 /\ PartitionOf[rec.claim] = p
  /\ UNCHANGED <<results, loopVars>>

(* The environment appends one record, with its number if it is a task.    *)
LEMMA EnvFeeds ==
  ASSUME LoopInv(Record, Result), Env
  PROVE  Fed
<1>1. ASSUME NEW c \in Claims, NextRound(PartitionOf[c]) <= MaxRounds,
             input' = Published(input, c,
                        [claim |-> c, round |-> NextRound(PartitionOf[c])])
      PROVE  \E p \in Partitions, rec \in Task :
               /\ input' = [input EXCEPT ![p] = Append(@, rec)]
               /\ rec.round = Len(input[p]) + 1 /\ PartitionOf[rec.claim] = p
  <2>1. PartitionOf[c] \in Partitions /\ MaxRounds \in Nat
    BY EventsAssumption DEF EventsAssumption
  <2>2. Len(input[PartitionOf[c]]) \in Nat
    BY <2>1 DEF LoopInv
  <2>3. NextRound(PartitionOf[c]) \in Round
    BY <1>1, <2>1, <2>2 DEF NextRound, Round
  <2>4. [claim |-> c, round |-> NextRound(PartitionOf[c])] \in Task
    BY <2>3 DEF Task
  <2> QED
    BY <1>1, <2>1, <2>4 DEF Published, NextRound
<1>2. ASSUME NEW p \in Partitions, NEW junk \in Junk,
             input' = [input EXCEPT ![p] = Append(@, junk)]
      PROVE  \E q \in Partitions, rec \in {BadKey, BadPayload, Tombstone} :
               input' = [input EXCEPT ![q] = Append(@, rec)] /\ rec \notin Task
  BY <1>2, WorkerAssumption DEF WorkerAssumption
<1> QED
  BY <1>1, <1>2 DEF Env, Fed, Record

(* New tasks are not committed yet.                                        *)
LEMMA FedPreserves ==
  ASSUME IInv, Fed
  PROVE  IInv'
<1>1. LoopInv(Record, Result)
  BY DEF IInv
<1>2. UNCHANGED loopVars /\ results' = results
  BY DEF Fed
<1>3. PICK p \in Partitions, rec \in Record :
        input' = [input EXCEPT ![p] = Append(@, rec)]
  BY DEF Fed
<1>4. /\ LoopInv(Record, Result)'
      /\ \A q \in Partitions :
           /\ Len(input[q]) \in Nat
           /\ \A i \in 1..Len(input[q]) : input'[q][i] = input[q][i]
      /\ \A w \in Processes :
           proc[w].pc \in Busy => RecordOf(proc[w], input') = RecordOf(proc[w], input)
  BY <1>1, <1>2, <1>3, AppendStep
<1>5. UNCHANGED <<acked, proc, trouble>>
  BY <1>2 DEF loopVars
<1>6. ASSUME trouble.faults = 0, NEW w \in Processes
      PROVE  AnsweredOK(w, proc[w], input', results)
  <2>1. AnsweredOK(w, proc[w], input, results)
    BY <1>6 DEF IInv
  <2> QED
    BY <1>4, <2>1 DEF AnsweredOK, Busy
<1>7. ASSUME trouble.faults = 0 PROVE NothingLost(acked, input', results)
  <2> SUFFICES ASSUME NEW g \in Groups, NEW q \in Partitions,
                      NEW i \in 1..acked[g][q], input'[q][i] \in Task
               PROVE  Logged(input'[q][i], g, results)
    BY DEF NothingLost
  <2>1. acked[g][q] <= Len(input[q]) /\ acked[g][q] \in Nat /\ Len(input[q]) \in Nat
    BY <1>1, <1>4 DEF LoopInv, LoopTypeOK, CommitsBounded
  <2>2. i \in 1..Len(input[q])
    BY <2>1
  <2>3. input'[q][i] = input[q][i]
    BY <1>4, <2>2
  <2> QED
    BY <1>7, <2>3 DEF IInv, NothingLost
<1> QED
  BY <1>2, <1>4, <1>5, <1>6, <1>7 DEF IInv

-------------------------------------------------------------------------------
(* The theorems.                                                           *)

(* No task is committed at first.                                          *)
LEMMA InvInit == Init => IInv
<1> SUFFICES ASSUME Init PROVE IInv
  OBVIOUS
<1>1. LoopInit /\ results = [p \in Partitions |-> <<>>]
  BY DEF Init
<1>2. LoopInv(Record, Result) /\ \A w \in Processes : proc[w].pc = "down"
  BY <1>1, LoopStart
<1>3. acked = [g \in Groups |-> [p \in Partitions |-> 0]]
  BY <1>1 DEF LoopInit
<1>4. NothingLost(acked, input, results) /\ results \in [Partitions -> Seq(Result)]
  BY <1>1, <1>3 DEF NothingLost
<1>5. \A w \in Processes : AnsweredOK(w, proc[w], input, results)
  BY <1>2 DEF AnsweredOK
<1> QED
  BY <1>2, <1>4, <1>5 DEF IInv

(* No step commits a task without its result.                              *)
LEMMA InvNext == IInv /\ [Next]_vars => IInv'
<1> SUFFICES ASSUME IInv, [Next]_vars PROVE IInv'
  OBVIOUS
<1>1. ASSUME NEW w \in Processes, Progress(w) \/ Deliver(w) \/ Trouble(w)
      PROVE  IInv'
  <2>1. CASE Progress(w)
    BY <2>1, TurnPreserves, ReceivePreserves, HandlePreserves, RaisesPreserves DEF Progress
  <2>2. CASE Deliver(w)
    BY <2>2, DeliverPreserves
  <2>3. CASE Trouble(w)
    BY <2>3, TurnPreserves DEF Trouble
  <2> QED
    BY <1>1, <2>1, <2>2, <2>3
<1>2. CASE Env
  BY <1>2, EnvFeeds, FedPreserves DEF IInv
<1>3. CASE UNCHANGED vars
  <2>1. UNCHANGED <<input, results, owner, acked, proc, trouble>>
    BY <1>3 DEF vars, loopVars
  <2> QED
    BY <2>1 DEF IInv, LoopInv, LoopTypeOK
<1> QED
  BY <1>1, <1>2, <1>3 DEF Next, Step

(* The topics, the groups and the processes always have their type, for any*)
(* number of agents and replicas.                                          *)
THEOREM WorkersTypeCorrect == Spec => []TypeOK
  BY InvInit, InvNext, InvImplies, PTL DEF Spec

(* No task is lost: while every delivery succeeds within its flush, each   *)
(* committed task has its agent's result on the results topic, wherever    *)
(* replicas crash, are evicted, are stopped or trade partitions.           *)
THEOREM WorkersLoseNothing == Spec => []NoLostWork
  BY InvInit, InvNext, InvImplies, PTL DEF Spec

-------------------------------------------------------------------------------
(* What is answered again and what is lost: the second invariant.          *)

(* The record a result answers.                                            *)
Slot == [res \in Result |-> <<PartitionOf[res.claim], res.round>>]

(* The results of agent g for record i of partition p, and their number.   *)
Reports(log, g, p, i) ==
  {j \in 1..Len(log[p]) : log[p][j].agent = g /\ log[p][j].round = i}

(* How often each agent has answered each record.                          *)
Told(log) == [x \in Lane \X Nat |-> Cardinality(Reports(log, x[1][1], x[1][2], x[2]))]

(* The tasks that an agent has no result for yet.                          *)
Due(topic, log) ==
  {x \in Lane \X Nat :
     /\ x[2] \in 1..Len(topic[x[1][2]])
     /\ topic[x[1][2]][x[2]] \in Task
     /\ Reports(log, x[1][1], x[1][2], x[2]) = {}}

(* Tasks are numbered as they arrive.                                      *)
Placed(topic) ==
  \A p \in Partitions : \A i \in 1..Len(topic[p]) :
    topic[p][i] \in Task => topic[p][i].round = i /\ PartitionOf[topic[p][i].claim] = p

(* A result answers a task that is on the topic.                           *)
ResultOK(res, topic) ==
  LET p == PartitionOf[res.claim]
  IN  /\ res.round \in 1..Len(topic[p])
      /\ topic[p][res.round] = [claim |-> res.claim, round |-> res.round]

(* A result on the topic is under the key of its claim and answers a task. *)
LogOK(log, topic) ==
  \A p \in Partitions : \A j \in 1..Len(log[p]) :
    /\ log[p][j].agent \in Groups /\ PartitionOf[log[p][j].claim] = p
    /\ ResultOK(log[p][j], topic)

(* A result in the queue of a producer is of its agent and answers a task. *)
OutOK(w, r, topic) ==
  \A n \in 1..Len(r.out) : r.out[n].agent = GroupOf[w] /\ ResultOK(r.out[n], topic)

(* The topic holds finitely many results.                                  *)
FiniteLog(log) == IsFiniteSet({r \in Partitions \X Nat : r[2] \in 1..Len(log[r[1]])})

(* The second invariant: who may still answer a task has it in hand, in    *)
(* the queue or ahead, answers beyond the first cost a disruption each and *)
(* tasks passed without an answer a fault each.                            *)
RelayInv ==
  /\ Placed(input) /\ LogOK(results, input) /\ FiniteLog(results)
  /\ \A w \in Processes : OutOK(w, proc[w], input)
  /\ QueuesOK(Slot)
  /\ SurplusBounded(Slot, Told(results), proc, owner, acked, Disruptions)
  /\ LossesBounded(Slot, Due(input, results), proc, acked, trouble.faults)

-------------------------------------------------------------------------------

(* The record a result answers is a partition and a number.                *)
LEMMA SlotType ==
  /\ Slot \in [Result -> Partitions \X Nat]
  /\ \A res \in Result : Slot[res] = <<PartitionOf[res.claim], res.round>>
                         /\ PartitionOf[res.claim] \in Partitions /\ res.round \in Nat
<1>1. ASSUME NEW res \in Result
      PROVE  PartitionOf[res.claim] \in Partitions /\ res.round \in Nat
  <2>1. res.claim \in Claims /\ res.round \in Round
    BY DEF Result
  <2>2. PartitionOf \in [Claims -> Partitions] /\ MaxRounds \in Nat
    BY EventsAssumption DEF EventsAssumption
  <2> QED
    BY <2>1, <2>2 DEF Round
<1>2. \A res \in Result : <<PartitionOf[res.claim], res.round>> \in Partitions \X Nat
  BY <1>1
<1> QED
  BY <1>1, <1>2 DEF Slot

(* There are finitely many results for a task.                             *)
LEMMA ReportsFinite ==
  ASSUME NEW log \in [Partitions -> Seq(Result)], NEW g, NEW p \in Partitions, NEW i
  PROVE  IsFiniteSet(Reports(log, g, p, i)) /\ Cardinality(Reports(log, g, p, i)) \in Nat
<1>1. Len(log[p]) \in Nat
  OBVIOUS
<1>2. IsFiniteSet(1..Len(log[p]))
  BY <1>1, FS_Interval
<1>3. Reports(log, g, p, i) \subseteq 1..Len(log[p])
  BY DEF Reports
<1> QED
  BY <1>2, <1>3, NoMore

(* Told counts the results for a task.                                     *)
LEMMA ToldType ==
  ASSUME NEW log \in [Partitions -> Seq(Result)]
  PROVE  /\ Told(log) \in [Lane \X Nat -> Nat]
         /\ \A g \in Groups, p \in Partitions, i \in Nat :
              Told(log)[<<<<g, p>>, i>>] = Cardinality(Reports(log, g, p, i))
<1>1. \A x \in Lane \X Nat : Cardinality(Reports(log, x[1][1], x[1][2], x[2])) \in Nat
  BY ReportsFinite DEF Lane
<1> QED
  BY <1>1 DEF Told, Lane

(* The queue of w when it gains nothing.                                   *)
LEMMA OutShrinks ==
  ASSUME IInv, NEW w \in Processes, OutOK(w, proc[w], input), input' = input,
         \/ proc'[w].out = <<>> \/ proc'[w].out = proc[w].out
         \/ proc[w].out # <<>> /\ proc'[w].out = Tail(proc[w].out)
  PROVE  OutOK(w, proc'[w], input)
<1>1. proc[w].out \in Seq(Result)
  BY ProcFacts DEF IInv, LoopInv
<1>2. CASE proc[w].out # <<>> /\ proc'[w].out = Tail(proc[w].out)
  <2>1. ASSUME NEW n \in 1..Len(proc'[w].out)
        PROVE  n + 1 \in 1..Len(proc[w].out) /\ proc'[w].out[n] = proc[w].out[n + 1]
    BY <1>1, <1>2
  <2> QED
    BY <2>1 DEF OutOK
<1>3. CASE proc'[w].out = <<>> \/ proc'[w].out = proc[w].out
  BY <1>3 DEF OutOK
<1> QED
  BY <1>2, <1>3

(* A step of w that leaves the topics alone.                               *)
LEMMA RelayFrame ==
  ASSUME IInv, RelayInv, NEW w \in Processes, OthersRest(w),
         UNCHANGED <<input, results>>, OutOK(w, proc'[w], input),
         QueuesOK(Slot)',
         SurplusBounded(Slot, Told(results), proc', owner', acked', Disruptions'),
         LossesBounded(Slot, Due(input, results), proc', acked', trouble'.faults)
  PROVE  RelayInv'
<1>1. ASSUME NEW v \in Processes PROVE OutOK(v, proc'[v], input)
  BY DEF RelayInv, OthersRest
<1> QED
  BY <1>1 DEF RelayInv

(* What is due is due in a lane.                                           *)
LEMMA DueType == Due(input, results) \subseteq Lane \X Nat
BY DEF Due

(* The loop's own steps answer nothing, and pass a task unanswered by a    *)
(* fault only.                                                             *)
LEMMA RelayTurn ==
  ASSUME IInv, RelayInv, NEW w \in Processes, Turn(w) \/ Upset(w),
         UNCHANGED <<input, results>>
  PROVE  RelayInv'
<1>1. LoopInv(Record, Result) /\ results \in [Partitions -> Seq(Result)]
  BY DEF IInv
<1>2. Effect(w) /\ OthersRest(w)
  BY <1>1, TurnStep DEF Effect
<1>3. QueuesOK(Slot)'
  BY <1>1, SlotType, TurnQueues DEF RelayInv
<1>4. SurplusBounded(Slot, Told(results), proc', owner', acked', Disruptions')
  BY <1>1, ToldType, TurnSurplus DEF RelayInv
<1>5. LossesBounded(Slot, Due(input, results), proc', acked', trouble'.faults)
  <2>1. LoopTypeOK(Result) /\ LoopTypeOK(Result)'
    <3>1. LoopInv(Record, Result)'
      BY <1>1, TurnStep
    <3> QED
      BY <1>1, <3>1 DEF LoopInv
  <2>2. trouble.faults \in Nat /\ trouble'.faults \in Nat
    BY <2>1 DEF LoopTypeOK
  <2>3. trouble.faults + 0 = trouble.faults /\ trouble'.faults + 0 = trouble'.faults
    BY <2>2
  <2>4. LossesBounded(Slot, Due(input, results), proc, acked, trouble.faults + 0)
    BY <2>3 DEF RelayInv
  <2>5. LossesBounded(Slot, Due(input, results), proc', acked', trouble'.faults + 0)
    BY <1>1, <2>4, DueType, TurnLosses
  <2> QED
    BY <2>3, <2>5
<1>6. OutOK(w, proc'[w], input)
  <2>1. OutOK(w, proc[w], input)
    BY DEF RelayInv
  <2>2. \/ proc'[w].out = <<>> \/ proc'[w].out = proc[w].out
        \/ proc[w].out # <<>> /\ proc'[w].out = Tail(proc[w].out)
    <3>1. Commit(w) => proc'[w].out = proc[w].out
      BY <1>1, CommitLemma
    <3> QED
      BY <1>2, <3>1 DEF Effect, Rests, Keeps, Flushes, Loses
  <2> QED
    BY <2>1, <2>2, OutShrinks
<1> QED
  BY <1>2, <1>3, <1>4, <1>5, <1>6, RelayFrame

(* What is passed, when nothing has gone wrong with a record.              *)
LEMMA QuietLosses ==
  ASSUME IInv, RelayInv, NEW w \in Processes, OthersRest(w),
         UNCHANGED <<acked, trouble>>, NEW due2,
         \A x \in due2 :
           /\ x \in Due(input, results)
           /\ ~(x[1][1] = GroupOf[w] /\ Done(proc'[w], Slot, x[1][2], x[2])
                                     /\ ~Done(proc[w], Slot, x[1][2], x[2]))
  PROVE  LossesBounded(Slot, due2, proc', acked', trouble'.faults)
<1>1. trouble.faults \in Nat /\ trouble' = trouble
  BY DEF IInv, LoopInv, LoopTypeOK
<1>2. LossesBounded(Slot, Due(input, results), proc, acked, trouble.faults)
  BY DEF RelayInv
<1>3. ASSUME NEW x \in due2, Passed(Slot, x[1][1], x[1][2], x[2], proc', acked')
      PROVE  x \in Due(input, results) /\ Passed(Slot, x[1][1], x[1][2], x[2], proc, acked)
  BY <1>3, PassedStep
<1>4. trouble.faults <= trouble'.faults /\ trouble'.faults \in Nat
  BY <1>1
<1> QED
  BY <1>1, <1>2, <1>3, <1>4, LossesStay

(* A task that is polled is at work; a record that is skipped is no task.  *)
LEMMA RelayReceive ==
  ASSUME IInv, RelayInv, NEW w \in Processes, NEW p \in Partitions, Receive(w, p)
  PROVE  RelayInv'
<1>1. /\ LoopInv(Record, Result) /\ LoopTypeOK(Result)
      /\ results \in [Partitions -> Seq(Result)]
  BY DEF IInv, LoopInv
<1>2. PICK next \in {"work", "commit"} :
        Poll(w, p, next) /\ (next = "commit" => Peek(w, p) \in Undecodable)
  BY DEF Receive
<1>3. UNCHANGED <<input, results>>
  BY DEF Receive
<1>4. /\ OthersRest(w) /\ proc'[w].pc = next /\ UNCHANGED <<acked, trouble>>
      /\ proc'[w].msg = [part |-> p, off |-> proc[w].cursor[p]]
      /\ proc'[w].out = proc[w].out
  BY <1>1, <1>2, PollLemma
<1>5. NoNewChance(Slot) /\ QueuesOK(Slot)'
  BY <1>1, <1>2, <1>3, SlotType, PollAnswers DEF RelayInv
<1>6. SurplusBounded(Slot, Told(results), proc', owner', acked', Disruptions')
  BY <1>1, <1>4, <1>5, ToldType, RestSurplus DEF RelayInv
<1>7. LossesBounded(Slot, Due(input, results), proc', acked', trouble'.faults)
  <2>1. next = "commit" => InHand(w)' \notin Task
    BY <1>2, <1>3, <1>4, WorkerAssumption DEF Peek, Undecodable, InHand, WorkerAssumption
  <2>2. ASSUME NEW x \in Due(input, results), Done(proc'[w], Slot, x[1][2], x[2])
        PROVE  FALSE
    <3>1. next = "commit" /\ Hand(proc'[w]) = <<x[1][2], x[2]>>
      BY <1>4, <2>2 DEF Done
    <3>2. InHand(w)' = input[x[1][2]][x[2]]
      BY <1>3, <3>1 DEF InHand, Hand
    <3> QED
      BY <2>1, <3>1, <3>2 DEF Due
  <2> QED
    BY <1>4, <2>2, QuietLosses
<1>8. OutOK(w, proc'[w], input)
  BY <1>3, <1>4, OutShrinks DEF RelayInv
<1> QED
  BY <1>3, <1>4, <1>5, <1>6, <1>7, <1>8, RelayFrame

(* The result of a handler is the answer to the record in hand.            *)
LEMMA RelayHandle ==
  ASSUME IInv, RelayInv, NEW w \in Processes, Handle(w)
  PROVE  RelayInv'
<1> DEFINE task == InHand(w)
           a == GroupOf[w]
<1>1. /\ LoopInv(Record, Result) /\ LoopTypeOK(Result)
      /\ results \in [Partitions -> Seq(Result)]
  BY DEF IInv, LoopInv
<1>2. PICK res \in ReportsOf(task, a) : Produce(w, res)
  BY DEF Handle
<1>3. UNCHANGED <<input, results>> /\ task \in Task
  BY DEF Handle
<1>4. res \in Result /\ Answers(res, task, a)
  BY <1>1, <1>2, <1>3, ReportFacts
<1>5. /\ proc[w].pc = "work" /\ proc'[w].pc = "flush" /\ OthersRest(w)
      /\ proc'[w].msg = proc[w].msg /\ UNCHANGED <<owner, acked, trouble>>
  BY <1>1, <1>2, <1>4, ProduceLemma
<1>6. /\ Hand(proc[w]) = <<PartitionOf[task.claim], task.round>>
      /\ ResultOK(res, input) /\ res.agent = a
  <2> DEFINE p == proc[w].msg.part
             off == proc[w].msg.off
  <2>1. p \in Partitions /\ off \in Nat /\ off < Len(input[p]) /\ Len(input[p]) \in Nat
    BY <1>1, <1>5 DEF LoopInv, HandOK, Busy, Position
  <2>2. off + 1 \in 1..Len(input[p]) /\ task = input[p][off + 1]
    BY <2>1 DEF InHand
  <2>3. task.round = off + 1 /\ PartitionOf[task.claim] = p
    BY <1>3, <2>1, <2>2 DEF RelayInv, Placed
  <2>4. task = [claim |-> task.claim, round |-> task.round]
    BY <1>3 DEF Task
  <2>5. res.claim = task.claim /\ res.round = task.round /\ res.agent = a
    BY <1>4 DEF Answers
  <2> HIDE DEF task, a
  <2> QED
    BY <2>1, <2>2, <2>3, <2>4, <2>5 DEF Hand, ResultOK
<1>7. Slot[res] = Hand(proc[w])
  BY <1>4, <1>6, SlotType DEF Answers
<1>8. NoNewChance(Slot) /\ QueuesOK(Slot)'
  BY <1>1, <1>2, <1>3, <1>4, <1>7, SlotType, ProduceAnswers DEF RelayInv
<1>9. SurplusBounded(Slot, Told(results), proc', owner', acked', Disruptions')
  BY <1>1, <1>5, <1>8, ToldType, RestSurplus DEF RelayInv
<1>10. proc'[w].out = Append(proc[w].out, res) /\ proc[w].out \in Seq(Result)
  <2>1. proc[w].out \in Seq(Result) /\ proc \in [Processes -> Process(Result)]
    BY <1>1, ProcFacts
  <2> QED
    BY <1>2, <2>1 DEF Produce, Process
<1>11. LossesBounded(Slot, Due(input, results), proc', acked', trouble'.faults)
  <2>1. /\ Len(proc[w].out) + 1 \in 1..Len(proc'[w].out)
        /\ proc'[w].out[Len(proc[w].out) + 1] = res
    BY <1>4, <1>10
  <2>2. Hand(proc'[w]) = Hand(proc[w])
    BY <1>5 DEF Hand
  <2>3. \A p, i : ~Done(proc'[w], Slot, p, i)
    BY <1>5, <1>7, <2>1, <2>2 DEF Done, InQueue
  <2> QED
    BY <1>5, <2>3, QuietLosses
<1>12. OutOK(w, proc'[w], input)
  <2>1. ASSUME NEW n \in 1..Len(proc'[w].out)
        PROVE  \/ n \in 1..Len(proc[w].out) /\ proc'[w].out[n] = proc[w].out[n]
               \/ proc'[w].out[n] = res
    BY <1>4, <1>10
  <2> QED
    BY <1>6, <2>1 DEF OutOK, RelayInv
<1> QED
  BY <1>3, <1>5, <1>8, <1>9, <1>11, <1>12, RelayFrame

(* A process that raises has answered nothing and passes nothing.          *)
LEMMA RelayRaises ==
  ASSUME IInv, RelayInv, NEW w \in Processes, Raises(w)
  PROVE  RelayInv'
<1>1. Die(w) /\ UNCHANGED <<input, results, trouble>> /\ proc[w].pc = "work"
  BY DEF Raises
<1>2. /\ LoopInv(Record, Result) /\ LoopTypeOK(Result) /\ trouble' \in [Kinds -> Nat]
      /\ results \in [Partitions -> Seq(Result)]
  BY <1>1, ProcFacts DEF IInv, LoopInv
<1>3. /\ OthersRest(w) /\ acked' = acked /\ proc'[w].pc = "down" /\ proc'[w].out = <<>>
  BY <1>1, <1>2, DieLemma
<1>4. NoNewChance(Slot) /\ QueuesOK(Slot)'
  BY <1>1, <1>2, SlotType, GiveUpAnswers DEF RelayInv
<1>5. SurplusBounded(Slot, Told(results), proc', owner', acked', Disruptions')
  BY <1>1, <1>2, <1>4, ToldType, RestSurplus DEF RelayInv
<1>6. LossesBounded(Slot, Due(input, results), proc', acked', trouble'.faults)
  <2>1. \A p, i : ~Done(proc'[w], Slot, p, i)
    BY <1>3 DEF Done
  <2> QED
    BY <1>1, <1>3, <2>1, QuietLosses
<1>7. OutOK(w, proc'[w], input)
  BY <1>1, <1>3, OutShrinks DEF RelayInv
<1> QED
  BY <1>1, <1>3, <1>4, <1>5, <1>6, <1>7, RelayFrame

(* One result more on the topic is one report more for its task.           *)
LEMMA ReportsAppend ==
  ASSUME NEW log \in [Partitions -> Seq(Result)], NEW res \in Result,
         NEW log2, log2 = Published(log, res.claim, res),
         NEW g \in Groups, NEW p \in Partitions, NEW i \in Nat
  PROVE  /\ log2 \in [Partitions -> Seq(Result)]
         /\ g = res.agent /\ p = PartitionOf[res.claim] /\ i = res.round =>
              Reports(log2, g, p, i) = Reports(log, g, p, i) \cup {Len(log[p]) + 1}
         /\ ~(g = res.agent /\ p = PartitionOf[res.claim] /\ i = res.round) =>
              Reports(log2, g, p, i) = Reports(log, g, p, i)
<1> DEFINE q == PartitionOf[res.claim]
<1>1. q \in Partitions
  BY SlotType
<1>2. log2 = [log EXCEPT ![q] = Append(log[q], res)]
  BY DEF Published
<1> HIDE DEF q
<1>3. log2 \in [Partitions -> Seq(Result)]
  BY <1>1, <1>2
<1>4. CASE p # q
  <2>1. log2[p] = log[p]
    BY <1>2, <1>4
  <2> QED
    BY <1>3, <1>4, <2>1 DEF Reports, q
<1>5. CASE p = q
  <2> DEFINE n == Len(log[p])
  <2>1. log[p] \in Seq(Result) /\ n \in Nat
    OBVIOUS
  <2>2. log2[p] = Append(log[p], res)
    BY <1>1, <1>2, <1>5
  <2>3. /\ Len(log2[p]) = n + 1 /\ log2[p][n + 1] = res
        /\ \A j \in 1..n : log2[p][j] = log[p][j]
    BY <2>1, <2>2
  <2> HIDE DEF n
  <2>4. 1..(n + 1) = (1..n) \cup {n + 1}
    BY <2>1
  <2>5. ASSUME NEW j
        PROVE  j \in Reports(log2, g, p, i) <=>
                 j \in Reports(log, g, p, i)
                   \/ (j = n + 1 /\ res.agent = g /\ res.round = i)
    BY <2>1, <2>3, <2>4 DEF Reports, n
  <2>6. CASE g = res.agent /\ i = res.round
    <3>1. Reports(log2, g, p, i) = Reports(log, g, p, i) \cup {n + 1}
      BY <2>5, <2>6
    <3> QED
      BY <1>3, <1>5, <2>6, <3>1 DEF n, q
  <2>7. CASE ~(g = res.agent /\ i = res.round)
    <3>1. Reports(log2, g, p, i) = Reports(log, g, p, i)
      BY <2>5, <2>7
    <3> QED
      BY <1>3, <1>5, <2>7, <3>1 DEF q
  <2> QED
    BY <2>6, <2>7
<1> QED
  BY <1>4, <1>5

(* What a delivery does, to the queue and to the topic.                    *)
LEMMA DeliverFacts ==
  ASSUME IInv, RelayInv, NEW w \in Processes, Deliver(w)
  PROVE  LET head == Head(proc[w].out)
             q == PartitionOf[head.claim]
         IN  /\ head \in Result /\ q \in Partitions /\ head.round \in Nat
             /\ Slot[head] = <<q, head.round>>
             /\ head.agent = GroupOf[w] /\ ResultOK(head, input)
             /\ OthersRest(w) /\ proc[w].out \in Seq(Result) /\ proc[w].out # <<>>
             /\ proc'[w].out = Tail(proc[w].out)
             /\ proc'[w].pc = proc[w].pc /\ proc'[w].msg = proc[w].msg
             /\ UNCHANGED <<input, owner, acked, trouble>>
             /\ results' = Published(results, head.claim, head)
<1> DEFINE head == Head(proc[w].out)
<1>1. LoopTypeOK(Result) /\ OutOK(w, proc[w], input)
  BY DEF IInv, LoopInv, RelayInv
<1>2. /\ Unqueue(w) /\ UNCHANGED <<trouble, input>>
      /\ results' = Published(results, head.claim, head)
  BY DEF Deliver, Sent
<1>3. /\ OthersRest(w)
      /\ proc'[w].pc = proc[w].pc /\ proc'[w].msg = proc[w].msg
      /\ proc'[w].out = Tail(proc[w].out)
      /\ proc[w].out \in Seq(Result) /\ proc[w].out # <<>>
      /\ UNCHANGED <<owner, acked>>
  BY <1>1, <1>2, UnqueueLemma
<1>4. head \in Result /\ 1 \in 1..Len(proc[w].out) /\ head = proc[w].out[1]
  BY <1>3
<1>5. head.agent = GroupOf[w] /\ ResultOK(head, input)
  BY <1>1, <1>4 DEF OutOK
<1> QED
  BY <1>2, <1>3, <1>4, <1>5, SlotType

(* A delivery is a report more for the task of the head of the queue.      *)
LEMMA DeliverReports ==
  ASSUME IInv, RelayInv, NEW w \in Processes, Deliver(w)
  PROVE  LET head == Head(proc[w].out)
             q == PartitionOf[head.claim]
         IN  \A g \in Groups, p \in Partitions, i \in Nat :
               /\ g = GroupOf[w] /\ p = q /\ i = head.round =>
                    Reports(results', g, p, i) =
                      Reports(results, g, p, i) \cup {Len(results[p]) + 1}
               /\ ~(g = GroupOf[w] /\ p = q /\ i = head.round) =>
                    Reports(results', g, p, i) = Reports(results, g, p, i)
<1> DEFINE head == Head(proc[w].out)
           q == PartitionOf[head.claim]
<1>1. /\ head \in Result /\ head.agent = GroupOf[w]
      /\ results' = Published(results, head.claim, head)
  BY DeliverFacts
<1>2. results \in [Partitions -> Seq(Result)]
  BY DEF IInv
<1> HIDE DEF head, q
<1>3. ASSUME NEW g \in Groups, NEW p \in Partitions, NEW i \in Nat
      PROVE  /\ g = GroupOf[w] /\ p = q /\ i = head.round =>
                  Reports(results', g, p, i) =
                    Reports(results, g, p, i) \cup {Len(results[p]) + 1}
             /\ ~(g = GroupOf[w] /\ p = q /\ i = head.round) =>
                  Reports(results', g, p, i) = Reports(results, g, p, i)
  <2>1. /\ results' \in [Partitions -> Seq(Result)]
        /\ g = head.agent /\ p = PartitionOf[head.claim] /\ i = head.round =>
             Reports(results', g, p, i) = Reports(results, g, p, i) \cup {Len(results[p]) + 1}
        /\ ~(g = head.agent /\ p = PartitionOf[head.claim] /\ i = head.round) =>
             Reports(results', g, p, i) = Reports(results, g, p, i)
    BY <1>1, <1>2, ReportsAppend
  <2> QED
    BY <1>1, <2>1 DEF q
<1> QED
  BY <1>3 DEF q, head

(* A delivery answers the task of the head of the queue, and no other.     *)
LEMMA RelayDeliver ==
  ASSUME IInv, RelayInv, NEW w \in Processes, Deliver(w)
  PROVE  RelayInv'
<1> DEFINE head == Head(proc[w].out)
           q == PartitionOf[head.claim]
           a == GroupOf[w]
<1>1. /\ head \in Result /\ q \in Partitions /\ head.round \in Nat
      /\ Slot[head] = <<q, head.round>>
      /\ head.agent = a /\ ResultOK(head, input)
      /\ OthersRest(w) /\ proc[w].out \in Seq(Result) /\ proc[w].out # <<>>
      /\ proc'[w].out = Tail(proc[w].out)
      /\ proc'[w].pc = proc[w].pc /\ proc'[w].msg = proc[w].msg
      /\ UNCHANGED <<input, owner, acked, trouble>>
      /\ results' = Published(results, head.claim, head)
  BY DeliverFacts
<1>2. /\ LoopInv(Record, Result) /\ results \in [Partitions -> Seq(Result)]
      /\ a \in Groups /\ Sent(w)
  BY ProcFacts DEF IInv, LoopInv, Deliver
<1> HIDE DEF head, q, a
<1>3. results' \in [Partitions -> Seq(Result)]
  BY <1>1, <1>2, ReportsAppend
<1>4. \A g \in Groups, p \in Partitions, i \in Nat :
        /\ g = a /\ p = q /\ i = head.round =>
             Reports(results', g, p, i) = Reports(results, g, p, i) \cup {Len(results[p]) + 1}
        /\ ~(g = a /\ p = q /\ i = head.round) =>
             Reports(results', g, p, i) = Reports(results, g, p, i)
  BY DeliverReports DEF a, q, head
<1>5. SurplusBounded(Slot, Told(results'), proc', owner', acked', Disruptions')
        /\ QueuesOK(Slot)'
  <2> DEFINE told == Told(results)
             told2 == Told(results')
  <2>1. /\ told \in [Lane \X Nat -> Nat] /\ told2 \in [Lane \X Nat -> Nat]
        /\ \A g \in Groups, p \in Partitions, i \in Nat :
             /\ told[<<<<g, p>>, i>>] = Cardinality(Reports(results, g, p, i))
             /\ told2[<<<<g, p>>, i>>] = Cardinality(Reports(results', g, p, i))
    BY <1>2, <1>3, ToldType
  <2>2. SurplusBounded(Slot, told, proc, owner, acked, Disruptions) /\ QueuesOK(Slot)
    BY DEF RelayInv
  <2> HIDE DEF told, told2
  <2>3. ASSUME NEW g \in Groups, NEW p \in Partitions, NEW i \in Nat
        PROVE  \/ told2[<<<<g, p>>, i>>] <= told[<<<<g, p>>, i>>]
               \/ /\ g = GroupOf[w] /\ <<p, i>> = Slot[Head(proc[w].out)]
                  /\ told2[<<<<g, p>>, i>>] <= told[<<<<g, p>>, i>>] + 1
    <3> DEFINE n == Cardinality(Reports(results, g, p, i))
               n2 == Cardinality(Reports(results', g, p, i))
    <3>1. told[<<<<g, p>>, i>>] = n /\ told2[<<<<g, p>>, i>>] = n2
      BY <2>1
    <3>2. n \in Nat /\ n2 \in Nat /\ IsFiniteSet(Reports(results, g, p, i))
      BY <1>2, <1>3, ReportsFinite
    <3>3. CASE g = a /\ p = q /\ i = head.round
      <4>1. Reports(results', g, p, i) \subseteq
              Reports(results, g, p, i) \cup {Len(results[p]) + 1}
        BY <1>4, <3>3
      <4>2. n2 <= n + 1
        BY <3>2, <4>1, OneMore
      <4> QED
        BY <1>1, <3>1, <3>3, <4>2 DEF a, q, head
    <3>4. CASE ~(g = a /\ p = q /\ i = head.round)
      <4>1. n2 = n
        BY <1>4, <3>4
      <4> HIDE DEF n, n2
      <4> QED
        BY <3>1, <3>2, <4>1
    <3> QED
      BY <3>3, <3>4
  <2>4. SurplusBounded(Slot, told2, proc', owner', acked', Disruptions') /\ QueuesOK(Slot)'
    <3>1. input' = input /\ Sent(w) /\ LoopInv(Record, Result)
      BY <1>1, <1>2
    <3>2. Slot \in [Result -> Partitions \X Nat]
      BY SlotType
    <3>3. told \in [Lane \X Nat -> Nat] /\ told2 \in [Lane \X Nat -> Nat]
      BY <2>1
    <3>4. SurplusBounded(Slot, told, proc, owner, acked, Disruptions)
      BY <2>2
    <3>5. QueuesOK(Slot)
      BY <2>2
    <3>6. HeadTold(w, Slot, told, told2)
      BY <2>3 DEF HeadTold
    <3> QED
      BY <3>1, <3>2, <3>3, <3>4, <3>5, <3>6, SentSurplus
  <2> QED
    BY <2>4 DEF told2
<1>6. LossesBounded(Slot, Due(input, results'), proc', acked', trouble'.faults)
  <2>1. ASSUME NEW x \in Due(input, results')
        PROVE  /\ x \in Due(input, results)
               /\ ~(x[1][1] = GroupOf[w] /\ Done(proc'[w], Slot, x[1][2], x[2])
                                         /\ ~Done(proc[w], Slot, x[1][2], x[2]))
    <3> DEFINE g == x[1][1]
               p == x[1][2]
               i == x[2]
    <3>1. g \in Groups /\ p \in Partitions /\ i \in Nat /\ Reports(results', g, p, i) = {}
      BY DEF Due, Lane
    <3>2. Reports(results, g, p, i) = {} /\ ~(g = a /\ p = q /\ i = head.round)
      <4>1. ~(g = a /\ p = q /\ i = head.round)
        <5> SUFFICES ASSUME g = a /\ p = q /\ i = head.round PROVE FALSE
          OBVIOUS
        <5> HIDE DEF g, p, i
        <5>1. Reports(results', g, p, i) = Reports(results, g, p, i) \cup {Len(results[p]) + 1}
          BY <1>4, <3>1
        <5>2. Reports(results', g, p, i) = {}
          BY <3>1
        <5> QED
          BY <5>1, <5>2
      <4> QED
        BY <1>4, <3>1, <4>1
    <3>3. x \in Due(input, results)
      BY <3>2 DEF Due
    <3>4. ASSUME g = GroupOf[w], Done(proc'[w], Slot, p, i), ~Done(proc[w], Slot, p, i)
          PROVE  FALSE
      <4>1. Hand(proc'[w]) = Hand(proc[w])
        BY <1>1 DEF Hand
      <4>2. InQueue(proc[w], Slot, p, i) /\ ~InQueue(proc'[w], Slot, p, i)
        BY <1>1, <3>4, <4>1 DEF Done
      <4>3. PICK n \in 1..Len(proc[w].out) : Slot[proc[w].out[n]] = <<p, i>>
        BY <4>2 DEF InQueue
      <4>4. n = 1
        <5>1. n # 1 => n - 1 \in 1..Len(proc'[w].out) /\ proc'[w].out[n - 1] = proc[w].out[n]
          BY <1>1
        <5> QED
          BY <4>2, <4>3, <5>1 DEF InQueue
      <4>5. Slot[head] = <<p, i>>
        BY <1>1, <4>3, <4>4 DEF head
      <4> QED
        BY <1>1, <3>2, <3>4, <4>5 DEF a
    <3> QED
      BY <3>3, <3>4
  <2> QED
    BY <1>1, <2>1, QuietLosses
<1>7. LogOK(results', input) /\ FiniteLog(results')
  <2>1. ASSUME NEW p \in Partitions, NEW j \in 1..Len(results'[p])
        PROVE  \/ j \in 1..Len(results[p]) /\ results'[p][j] = results[p][j]
               \/ p = q /\ j = Len(results[q]) + 1 /\ results'[p][j] = head
    <3>1. results' = [results EXCEPT ![q] = Append(results[q], head)]
      BY <1>1 DEF Published, q
    <3>2. CASE p # q
      BY <1>2, <3>1, <3>2
    <3>3. CASE p = q
      <4>1. results'[p] = Append(results[p], head) /\ results[p] \in Seq(Result)
        BY <1>2, <3>1, <3>3
      <4> QED
        BY <1>1, <3>3, <4>1
    <3> QED
      BY <3>2, <3>3
  <2>2. LogOK(results, input) /\ FiniteLog(results)
    BY DEF RelayInv
  <2>3. LogOK(results', input)
    BY <1>1, <1>2, <2>1, <2>2 DEF LogOK, q
  <2>4. {r \in Partitions \X Nat : r[2] \in 1..Len(results'[r[1]])} \subseteq
          {r \in Partitions \X Nat : r[2] \in 1..Len(results[r[1]])}
            \cup {<<q, Len(results[q]) + 1>>}
    BY <2>1
  <2> QED
    BY <2>2, <2>3, <2>4, OneMore DEF FiniteLog
<1>8. ASSUME NEW v \in Processes PROVE OutOK(v, proc'[v], input)
  <2>1. CASE v = w
    <3>1. OutOK(w, proc[w], input)
      BY DEF RelayInv
    <3> QED
      BY <1>1, <2>1, <3>1, OutShrinks
  <2>2. CASE v # w
    BY <1>1, <2>2 DEF OthersRest, RelayInv
  <2> QED
    BY <2>1, <2>2
<1> QED
  BY <1>1, <1>5, <1>6, <1>7, <1>8 DEF RelayInv

(* A task that arrives has been passed by nobody.                          *)
LEMMA RelayFed ==
  ASSUME IInv, RelayInv, Fed
  PROVE  RelayInv'
<1>1. LoopInv(Record, Result) /\ LoopTypeOK(Result)
  BY DEF IInv, LoopInv
<1>2. UNCHANGED <<owner, acked, proc, trouble, results>> /\ UNCHANGED loopVars
  BY DEF Fed, loopVars
<1>3. PICK p \in Partitions, rec \in Record :
        /\ input' = [input EXCEPT ![p] = Append(@, rec)]
        /\ rec \in Task => rec.round = Len(input[p]) + 1 /\ PartitionOf[rec.claim] = p
  BY DEF Fed
<1>4. \A q \in Partitions :
        Len(input[q]) \in Nat /\ \A i \in 1..Len(input[q]) : input'[q][i] = input[q][i]
  BY <1>1, <1>2, <1>3, AppendStep
<1>5. \A q \in Partitions :
        /\ q # p => input'[q] = input[q]
        /\ q = p => /\ Len(input'[q]) = Len(input[q]) + 1
                    /\ input'[q][Len(input[q]) + 1] = rec
  BY <1>1, <1>3 DEF LoopInv
<1>6. Placed(input')
  <2> SUFFICES ASSUME NEW q \in Partitions, NEW i \in 1..Len(input'[q]),
                      input'[q][i] \in Task
               PROVE  input'[q][i].round = i /\ PartitionOf[input'[q][i].claim] = q
    BY DEF Placed
  <2>1. CASE i \in 1..Len(input[q])
    <3>1. input'[q][i] = input[q][i]
      BY <1>4, <2>1
    <3> QED
      BY <2>1, <3>1 DEF RelayInv, Placed
  <2>2. CASE i \notin 1..Len(input[q])
    <3>1. q = p /\ i = Len(input[q]) + 1
      BY <1>4, <1>5, <2>2
    <3> QED
      BY <1>3, <1>5, <3>1
  <2> QED
    BY <2>1, <2>2
<1>7. ASSUME NEW res \in Result, ResultOK(res, input) PROVE ResultOK(res, input')
  <2> DEFINE q == PartitionOf[res.claim]
  <2>1. q \in Partitions /\ res.round \in 1..Len(input[q])
    BY <1>7, SlotType DEF ResultOK
  <2>2. input'[q][res.round] = input[q][res.round] /\ res.round \in 1..Len(input'[q])
    BY <1>4, <1>5, <2>1
  <2> QED
    BY <1>7, <2>2 DEF ResultOK
<1>8. LogOK(results, input')
  <2>1. \A q \in Partitions : \A j \in 1..Len(results[q]) : results[q][j] \in Result
    BY DEF IInv
  <2> QED
    BY <1>7, <2>1 DEF RelayInv, LogOK
<1>9. \A w \in Processes : OutOK(w, proc[w], input')
  <2>1. \A w \in Processes : \A n \in 1..Len(proc[w].out) : proc[w].out[n] \in Result
    BY <1>1, ProcFacts
  <2> QED
    BY <1>7, <2>1 DEF RelayInv, OutOK
<1>10. LossesBounded(Slot, Due(input', results), proc', acked', trouble'.faults)
  <2>1. ASSUME NEW x \in Due(input', results),
               Passed(Slot, x[1][1], x[1][2], x[2], proc', acked')
        PROVE  /\ x \in Due(input, results)
               /\ Passed(Slot, x[1][1], x[1][2], x[2], proc, acked)
    <3> DEFINE g == x[1][1]
               q == x[1][2]
               i == x[2]
    <3>1. g \in Groups /\ q \in Partitions /\ i \in 1..Len(input'[q])
      BY DEF Due, Lane
    <3>2. Passed(Slot, g, q, i, proc, acked)
      BY <1>2, <2>1
    <3>3. i \in 1..Len(input[q])
      <4>1. CASE i <= acked[g][q]
        <5>1. acked[g][q] <= Len(input[q]) /\ acked[g][q] \in Nat
          BY <1>1, <3>1 DEF LoopInv, LoopTypeOK, CommitsBounded
        <5> QED
          BY <1>4, <3>1, <4>1, <5>1
      <4>2. ASSUME NEW v \in Processes, Done(proc[v], Slot, q, i)
            PROVE  i \in 1..Len(input[q])
        <5>1. /\ proc[v].msg.part = q /\ proc[v].msg.off + 1 = i
              /\ proc[v].msg \in Position /\ proc[v].msg.off < Len(input[proc[v].msg.part])
          BY <1>1, <4>2 DEF Done, Hand, LoopInv, HandOK, Busy
        <5>2. proc[v].msg.off \in Nat
          BY <5>1 DEF Position
        <5> QED
          BY <1>4, <3>1, <5>1, <5>2
      <4> QED
        BY <3>2, <4>1, <4>2 DEF Passed
    <3>4. input'[q][i] = input[q][i]
      BY <1>4, <3>1, <3>3
    <3> QED
      BY <3>2, <3>3, <3>4 DEF Due
  <2>2. LossesBounded(Slot, Due(input, results), proc, acked, trouble.faults)
    BY DEF RelayInv
  <2>3. trouble.faults \in Nat /\ trouble'.faults \in Nat /\ trouble.faults <= trouble'.faults
    BY <1>1, <1>2 DEF LoopTypeOK
  <2> QED
    BY <2>1, <2>2, <2>3, LossesStay
<1>11. /\ SurplusBounded(Slot, Told(results'), proc', owner', acked', Disruptions')
       /\ QueuesOK(Slot)'
  <2>1. Disruptions' = Disruptions
    BY <1>2 DEF Disruptions
  <2>2. QueuesOK(Slot)'
    BY <1>2 DEF RelayInv, QueuesOK
  <2> QED
    BY <1>2, <2>1, <2>2 DEF RelayInv
<1> QED
  BY <1>2, <1>6, <1>8, <1>9, <1>10, <1>11 DEF RelayInv

(* At first there is no task and no result.                                *)
LEMMA RelayInit == Init => RelayInv
<1> SUFFICES ASSUME Init PROVE RelayInv
  OBVIOUS
<1>1. LoopInit /\ results = [p \in Partitions |-> <<>>]
  BY DEF Init
<1>2. /\ input = [p \in Partitions |-> <<>>] /\ proc = [w \in Processes |-> Idle]
      /\ trouble = [crashes |-> 0, evictions |-> 0, stops |-> 0, faults |-> 0]
  BY <1>1 DEF LoopInit
<1>3. Placed(input) /\ LogOK(results, input)
  BY <1>1, <1>2 DEF Placed, LogOK
<1>4. FiniteLog(results)
  <2>1. {r \in Partitions \X Nat : r[2] \in 1..Len(results[r[1]])} = {}
    BY <1>1
  <2> QED
    BY <2>1, FS_EmptySet DEF FiniteLog
<1>5. \A w \in Processes : OutOK(w, proc[w], input)
  <2>1. \A w \in Processes : proc[w].out = <<>>
    BY <1>2 DEF Idle
  <2> QED
    BY <2>1 DEF OutOK
<1>6. /\ SurplusBounded(Slot, Told(results), proc, owner, acked, Disruptions)
      /\ QueuesOK(Slot)
  <2>1. \A p \in Partitions : results[p] \in Seq(Result)
    BY <1>1
  <2>2. results \in [Partitions -> Seq(Result)]
    BY <1>1, <2>1
  <2>3. ASSUME NEW x \in Lane \X Nat PROVE Told(results)[x] = 0
    <3>1. x[1][2] \in Partitions
      BY DEF Lane
    <3>2. Reports(results, x[1][1], x[1][2], x[2]) = {}
      BY <1>1, <3>1 DEF Reports
    <3> QED
      BY <3>2, FS_EmptySet DEF Told
  <2>4. Told(results) \in [Lane \X Nat -> Nat]
    BY <2>2, ToldType
  <2> QED
    BY <1>1, <2>3, <2>4, SurplusStart
<1>7. LossesBounded(Slot, Due(input, results), proc, acked, trouble.faults)
  <2>1. Due(input, results) = {}
    BY <1>2 DEF Due, Lane
  <2>2. trouble.faults = 0
    BY <1>2
  <2> DEFINE lost == {x \in Due(input, results) :
                        Passed(Slot, x[1][1], x[1][2], x[2], proc, acked)}
  <2>3. lost = {}
    BY <2>1
  <2>4. IsFiniteSet(lost) /\ Cardinality(lost) <= 0
    BY <2>3, FS_EmptySet
  <2> QED
    BY <2>2, <2>4 DEF LossesBounded
<1> QED
  BY <1>3, <1>4, <1>5, <1>6, <1>7 DEF RelayInv

(* No step answers or passes a task at nobody's expense.                   *)
LEMMA RelayNext == IInv /\ RelayInv /\ [Next]_vars => RelayInv'
<1> SUFFICES ASSUME IInv, RelayInv, [Next]_vars PROVE RelayInv'
  OBVIOUS
<1>1. ASSUME NEW w \in Processes, Progress(w) \/ Deliver(w) \/ Trouble(w)
      PROVE  RelayInv'
  <2>1. CASE Progress(w)
    BY <2>1, RelayTurn, RelayReceive, RelayHandle, RelayRaises DEF Progress
  <2>2. CASE Deliver(w)
    BY <2>2, RelayDeliver
  <2>3. CASE Trouble(w)
    BY <2>3, RelayTurn DEF Trouble
  <2> QED
    BY <1>1, <2>1, <2>2, <2>3
<1>2. CASE Env
  BY <1>2, EnvFeeds, RelayFed DEF IInv
<1>3. CASE UNCHANGED vars
  <2>1. UNCHANGED <<input, results, owner, acked, proc, trouble>>
    BY <1>3 DEF vars, loopVars
  <2>2. Disruptions' = Disruptions /\ QueuesOK(Slot)' = QueuesOK(Slot)
    BY <2>1 DEF Disruptions, QueuesOK
  <2> QED
    BY <2>1, <2>2 DEF RelayInv
<1> QED
  BY <1>1, <1>2, <1>3 DEF Next, Step

(* The reports for a task on the topic are the answers to it.              *)
LEMMA ReportsAnswer ==
  ASSUME IInv, RelayInv, NEW a \in Groups, NEW p \in Partitions,
         NEW i \in 1..Len(input[p]), input[p][i] \in Task
  PROVE  AnswersTo(input[p][i], a) = Reports(results, a, p, i)
<1> DEFINE task == input[p][i]
<1>1. task.round = i /\ PartitionOf[task.claim] = p
  BY DEF RelayInv, Placed
<1>2. ASSUME NEW j \in 1..Len(results[p]), results[p][j].agent = a, results[p][j].round = i
      PROVE  results[p][j].claim = task.claim
  <2>1. PartitionOf[results[p][j].claim] = p /\ ResultOK(results[p][j], input)
    BY DEF RelayInv, LogOK
  <2>2. task = [claim |-> results[p][j].claim, round |-> results[p][j].round]
    BY <1>2, <2>1 DEF ResultOK
  <2> QED
    BY <2>2
<1> HIDE DEF task
<1>3. AnswersTo(task, a) = Reports(results, a, p, i)
  BY <1>1, <1>2 DEF AnswersTo, Answers, Reports
<1> QED
  BY <1>3 DEF task

(* Each failed delivery or timed out flush costs one result at most.       *)
LEMMA LossesCounted == IInv /\ RelayInv => LossBounded
<1> SUFFICES ASSUME IInv, RelayInv PROVE LossBounded
  OBVIOUS
<1> DEFINE missing == {t \in Groups \X Partitions \X (1..MaxRounds) :
                 /\ t[3] \in Settled(t[1], t[2])
                 /\ ~InLog(input[t[2]][t[3]], t[1])
                 /\ ~InFlight(input[t[2]][t[3]], t[1])}
           lost == {x \in Due(input, results) :
                      Passed(Slot, x[1][1], x[1][2], x[2], proc, acked)}
           f == [t \in missing |-> <<<<t[1], t[2]>>, t[3]>>]
<1>1. LoopInv(Record, Result) /\ LoopTypeOK(Result)
  BY DEF IInv, LoopInv
<1>2. ASSUME NEW t \in missing PROVE <<<<t[1], t[2]>>, t[3]>> \in lost
  <2> DEFINE a == t[1]
             p == t[2]
             i == t[3]
  <2>1. /\ a \in Groups /\ p \in Partitions /\ i \in Nat /\ i \in Settled(a, p)
        /\ ~InLog(input[p][i], a)
    <3>1. MaxRounds \in Nat
      BY EventsAssumption DEF EventsAssumption
    <3> QED
      BY <3>1
  <2> HIDE DEF a, p, i
  <2>2. i \in 1..acked[a][p] /\ input[p][i] \in Task
    BY <2>1 DEF Settled
  <2>3. acked[a][p] <= Len(input[p]) /\ acked[a][p] \in Nat /\ Len(input[p]) \in Nat
    BY <1>1, <2>1 DEF LoopInv, LoopTypeOK, CommitsBounded
  <2>4. i \in 1..Len(input[p]) /\ i <= acked[a][p]
    BY <2>2, <2>3
  <2>5. Reports(results, a, p, i) = {}
    BY <2>1, <2>2, <2>4, ReportsAnswer DEF InLog
  <2>6. <<<<a, p>>, i>> \in lost
    BY <2>1, <2>2, <2>4, <2>5 DEF Due, Lane, Passed
  <2> QED
    BY <2>6 DEF a, p, i
<1>3. IsFiniteSet(lost) /\ Cardinality(lost) <= trouble.faults
  BY DEF RelayInv, LossesBounded
<1>4. f \in Injection(missing, lost)
  <2>1. \A t \in missing : t = <<t[1], t[2], t[3]>>
    OBVIOUS
  <2> HIDE DEF missing, lost
  <2>2. f \in [missing -> lost]
    BY <1>2
  <2>3. ASSUME NEW s \in missing, NEW t \in missing, f[s] = f[t] PROVE s = t
    BY <2>1, <2>3
  <2> QED
    BY <2>2, <2>3 DEF Injection, IsInjective
<1> HIDE DEF missing, lost, f
<1>5. IsFiniteSet(missing) /\ Cardinality(missing) <= Cardinality(lost)
  BY <1>3, <1>4, FS_Injection
<1>6. Cardinality(missing) \in Nat /\ Cardinality(lost) \in Nat /\ trouble.faults \in Nat
  BY <1>1, <1>3, <1>5, FS_CardinalityType DEF LoopTypeOK
<1>7. Cardinality(missing) <= trouble.faults
  BY <1>3, <1>5, <1>6
<1> QED
  BY <1>7 DEF LossBounded, missing

(* An agent's results are no more than its tasks and the disruptions.      *)
LEMMA DuplicatesCounted == IInv /\ RelayInv => DuplicatesNeedDisruption
<1> SUFFICES ASSUME IInv, RelayInv, NEW a \in Groups
             PROVE  Cardinality(ReportsBy(a)) <=
                      Cardinality({<<results[r[1]][r[2]].claim, results[r[1]][r[2]].round>> :
                                     r \in ReportsBy(a)}) + Disruptions
  BY DEF DuplicatesNeedDisruption
<1> DEFINE S == ReportsBy(a)
           keyOf(r) == <<results[r[1]][r[2]].claim, results[r[1]][r[2]].round>>
           D == {keyOf(r) : r \in S}
           key == [r \in S |-> keyOf(r)]
           pots == Pots(Slot, Told(results), proc, owner, acked)
           E == Extra(Lane, pots)
           mark == [y \in D \X Nat |-> <<<<a, PartitionOf[y[1][1]]>>, y[1][2], y[2]>>]
           F(d) == Under(S, key, d)
<1>1. results \in [Partitions -> Seq(Result)] /\ LoopTypeOK(Result)
  BY DEF IInv, LoopInv
<1>2. ASSUME NEW r \in S
      PROVE  LET res == results[r[1]][r[2]]
             IN  /\ r = <<r[1], r[2]>> /\ r[1] \in Partitions /\ r[2] \in 1..Len(results[r[1]])
                 /\ res \in Result /\ res.agent = a /\ PartitionOf[res.claim] = r[1]
                 /\ res.round \in Nat /\ r[2] \in Nat
                 /\ input[r[1]][res.round] = [claim |-> res.claim, round |-> res.round]
  <2>1. /\ r = <<r[1], r[2]>> /\ r[1] \in Partitions
        /\ r[2] \in 1..Len(results[r[1]]) /\ results[r[1]][r[2]].agent = a
    BY DEF ReportsBy
  <2>2. r[2] \in 1..Len(results[r[1]]) /\ r[2] \in Nat
    BY <1>1, <2>1
  <2>3. results[r[1]][r[2]] \in Result
    BY <1>1, <2>1, <2>2
  <2>4. /\ PartitionOf[results[r[1]][r[2]].claim] = r[1]
        /\ ResultOK(results[r[1]][r[2]], input)
    BY <2>1, <2>2 DEF RelayInv, LogOK
  <2>5. results[r[1]][r[2]].round \in Nat
    BY <2>3, SlotType
  <2> QED
    BY <2>1, <2>2, <2>3, <2>4, <2>5 DEF ResultOK
<1>3. IsFiniteSet(S)
  <2>1. S \subseteq {r \in Partitions \X Nat : r[2] \in 1..Len(results[r[1]])}
    <3> HIDE DEF S
    <3>1. ASSUME NEW r \in S
          PROVE  /\ r = <<r[1], r[2]>> /\ r[1] \in Partitions /\ r[2] \in Nat
                 /\ r[2] \in 1..Len(results[r[1]])
      BY <1>2
    <3>2. ASSUME NEW r \in S
          PROVE  r \in Partitions \X Nat /\ r[2] \in 1..Len(results[r[1]])
      BY <3>1
    <3> QED
      BY <3>2
  <2> QED
    BY <2>1, NoMore DEF RelayInv, FiniteLog
<1>4. key \in [S -> D] /\ IsFiniteSet(D)
  <2> HIDE DEF S
  <2>1. key \in Surjection(S, D)
    BY DEF Surjection
  <2>2. key \in [S -> D]
    OBVIOUS
  <2> HIDE DEF key, D
  <2> QED
    BY <1>3, <2>1, <2>2, FS_Surjection
<1>5. IsFiniteSet(E) /\ Cardinality(E) <= Disruptions
  BY DEF RelayInv, SurplusBounded
<1>6. \A d \in D : \A n \in 2..Cardinality(F(d)) : mark[<<d, n>>] \in E
  <2> SUFFICES ASSUME NEW r \in S, NEW n \in 2..Cardinality(F(keyOf(r)))
               PROVE  mark[<<keyOf(r), n>>] \in E
    OBVIOUS
  <2> DEFINE d == keyOf(r)
             p == r[1]
             i == results[r[1]][r[2]].round
             mine == Reports(results, a, p, i)
             off == [s \in F(d) |-> s[2]]
  <2>1. /\ p \in Partitions /\ i \in Nat /\ d[2] = i /\ PartitionOf[d[1]] = p
        /\ d \in D
    BY <1>2
  <2>2. IsFiniteSet(mine) /\ Cardinality(mine) \in Nat
    BY <1>1, <2>1, ReportsFinite
  <2>3. ASSUME NEW s \in F(d)
        PROVE  s = <<p, s[2]>> /\ s[2] \in mine
    <3>1. s \in S /\ keyOf(s) = keyOf(r)
      BY DEF Under
    <3>2. /\ results[s[1]][s[2]].claim = results[r[1]][r[2]].claim
          /\ results[s[1]][s[2]].round = i
      BY <3>1
    <3>3. /\ s = <<s[1], s[2]>> /\ s[2] \in 1..Len(results[s[1]])
          /\ results[s[1]][s[2]].agent = a
          /\ PartitionOf[results[s[1]][s[2]].claim] = s[1]
      BY <1>2, <3>1
    <3>4. s[1] = p
      BY <1>2, <3>2, <3>3
    <3> QED
      BY <3>2, <3>3, <3>4 DEF Reports
  <2>4. off \in Injection(F(d), mine)
    <3> HIDE DEF F, d, mine
    <3>1. off \in [F(d) -> mine]
      BY <2>3
    <3>2. \A s, t \in F(d) : off[s] = off[t] => s = t
      BY <2>3
    <3> QED
      BY <3>1, <3>2 DEF Injection, IsInjective
  <2> HIDE DEF mine, off
  <2>5. IsFiniteSet(F(d)) /\ Cardinality(F(d)) <= Cardinality(mine)
    BY <2>2, <2>4, FS_Injection
  <2>6. Cardinality(F(d)) \in Nat
    BY <2>5, FS_CardinalityType
  <2> HIDE DEF F
  <2>7. n \in Nat /\ n \in 2..Cardinality(mine)
    BY <2>2, <2>5, <2>6
  <2>8. /\ <<<<a, p>>, i>> \in Lane \X Nat
        /\ pots[<<<<a, p>>, i>>] =
             Cardinality(mine) + Chances(Slot, a, p, i, proc, owner, acked)
    <3>1. Told(results)[<<<<a, p>>, i>>] = Cardinality(mine)
      BY <1>1, <2>1, ToldType DEF mine
    <3>2. <<<<a, p>>, i>> \in Lane \X Nat
      BY <2>1 DEF Lane
    <3> QED
      BY <3>1, <3>2 DEF Pots
  <2>9. Chances(Slot, a, p, i, proc, owner, acked) \in Nat
    BY ChancesNat
  <2> HIDE DEF pots
  <2>10. n \in 2..pots[<<<<a, p>>, i>>]
    BY <2>2, <2>7, <2>8, <2>9
  <2>11. <<<<a, p>>, i, n>> \in E
    BY <2>1, <2>7, <2>8, <2>10 DEF Extra, Lane
  <2>12. mark[<<d, n>>] = <<<<a, PartitionOf[d[1]]>>, d[2], n>>
    <3> HIDE DEF D, d
    <3> QED
      BY <2>1, <2>7
  <2> HIDE DEF mark, E
  <2> QED
    BY <2>1, <2>11, <2>12
<1>7. \A d, c \in D : \A n, m \in Nat : mark[<<d, n>>] = mark[<<c, m>>] => d = c /\ n = m
  <2> SUFFICES ASSUME NEW d \in D, NEW c \in D, NEW n \in Nat, NEW m \in Nat,
                      mark[<<d, n>>] = mark[<<c, m>>]
               PROVE  d = c /\ n = m
    BY Zenon
  <2>1. PICK r \in S, s \in S : d = keyOf(r) /\ c = keyOf(s)
    BY Zenon
  <2>2. /\ mark[<<keyOf(r), n>>] =
             <<<<a, PartitionOf[keyOf(r)[1]]>>, keyOf(r)[2], n>>
        /\ mark[<<keyOf(s), m>>] =
             <<<<a, PartitionOf[keyOf(s)[1]]>>, keyOf(s)[2], m>>
    <3>1. keyOf(r) \in D /\ keyOf(s) \in D
      OBVIOUS
    <3> HIDE DEF D, keyOf
    <3> QED
      BY <3>1
  <2>3. /\ PartitionOf[keyOf(r)[1]] = PartitionOf[keyOf(s)[1]]
        /\ keyOf(r)[2] = keyOf(s)[2] /\ n = m
    <3> HIDE DEF keyOf, mark
    <3> QED
      BY <2>1, <2>2
  <2>4. r[1] = s[1] /\ results[r[1]][r[2]].round = results[s[1]][s[2]].round
    BY <1>2, <2>3
  <2>5. results[r[1]][r[2]].claim = results[s[1]][s[2]].claim
    <3> HIDE DEF S
    <3>1. ASSUME NEW u \in S
          PROVE  input[u[1]][results[u[1]][u[2]].round].claim = results[u[1]][u[2]].claim
      <4>1. input[u[1]][results[u[1]][u[2]].round] =
              [claim |-> results[u[1]][u[2]].claim, round |-> results[u[1]][u[2]].round]
        BY <1>2
      <4> QED
        BY <4>1
    <3> QED
      BY <2>4, <3>1
  <2> QED
    BY <2>1, <2>3, <2>4, <2>5
<1>8. Cardinality(S) \in Nat /\ Cardinality(D) \in Nat /\ Cardinality(E) \in Nat
  BY <1>3, <1>4, <1>5, FS_CardinalityType
<1>9. Disruptions \in Nat
  BY <1>1 DEF LoopTypeOK, Disruptions
<1>10. Marks(S, D, key, E, mark)
  <2> HIDE DEF S, D, E, key, mark
  <2> QED
    BY <1>6, <1>7 DEF Marks
<1> HIDE DEF S, D, E, key, mark
<1>11. Cardinality(S) <= Cardinality(D) + Cardinality(E)
  BY <1>3, <1>4, <1>5, <1>10, CountByKey
<1> HIDE DEF Disruptions
<1>12. Cardinality(S) <= Cardinality(D) + Disruptions
  BY <1>5, <1>8, <1>9, <1>11
<1> QED
  BY <1>12 DEF S, D

(* Each failed delivery or timed out flush costs at most one result, for   *)
(* any number of agents, replicas and tasks.                               *)
THEOREM WorkersLossesBounded == Spec => []LossBounded
  BY InvInit, InvNext, RelayInit, RelayNext, LossesCounted, PTL DEF Spec

(* An agent answers no more often than it has tasks and is disrupted:      *)
(* restarts by SIGTERM and rebalances repeat no answer.                    *)
THEOREM WorkersDuplicatesBounded == Spec => []DuplicatesNeedDisruption
  BY InvInit, InvNext, RelayInit, RelayNext, DuplicatesCounted, PTL DEF Spec

-------------------------------------------------------------------------------
(* The workers implement Relay.                                            *)

(* What Relay sees of the workers: the records that call for an answer ... *)
RelayOwed == [l \in Lanes |-> [i \in 1..Len(input[l[2]]) |-> input[l[2]][i] \in Task]]

(* ... the records that are committed ...                                  *)
RelaySettled == [l \in Lanes |-> acked[l[1]][l[2]]]

(* ... and the answers on the topic.                                       *)
RelayAnswers ==
  [l \in Lanes |-> [i \in 1..Len(input[l[2]]) |->
     IF input[l[2]][i] \in Task THEN Cardinality(AnswersTo(input[l[2]][i], l[1])) ELSE 0]]

(* The price Relay puts on what is repeated and what is left unanswered.   *)
Afforded ==
  /\ Cardinality(R!Repeats) <= Disruptions
  /\ Cardinality(R!Unanswered) <= trouble.faults

(* The number of answers Relay sees of a record.                           *)
LEMMA AnswersFacts ==
  ASSUME IInv, RelayInv, NEW l \in Lanes, NEW i \in 1..Len(input[l[2]])
  PROVE  /\ l = <<l[1], l[2]>> /\ l[1] \in Groups /\ l[2] \in Partitions /\ i \in Nat
         /\ Len(input[l[2]]) \in Nat
         /\ RelayAnswers[l][i] \in Nat
         /\ input[l[2]][i] \in Task =>
              /\ RelayAnswers[l][i] = Told(results)[<<l, i>>]
              /\ RelayAnswers[l][i] = Cardinality(Reports(results, l[1], l[2], i))
         /\ input[l[2]][i] \notin Task => RelayAnswers[l][i] = 0
<1>1. l = <<l[1], l[2]>> /\ l[1] \in Groups /\ l[2] \in Partitions
  BY DEF Lanes
<1>2. results \in [Partitions -> Seq(Result)] /\ Len(input[l[2]]) \in Nat
  BY <1>1 DEF IInv, LoopInv
<1>3. i \in Nat
  BY <1>2
<1>4. RelayAnswers[l][i] =
        IF input[l[2]][i] \in Task THEN Cardinality(AnswersTo(input[l[2]][i], l[1])) ELSE 0
  BY DEF RelayAnswers
<1>5. ASSUME input[l[2]][i] \in Task
      PROVE  /\ RelayAnswers[l][i] = Cardinality(Reports(results, l[1], l[2], i))
             /\ RelayAnswers[l][i] = Told(results)[<<l, i>>] /\ RelayAnswers[l][i] \in Nat
  <2>1. RelayAnswers[l][i] = Cardinality(Reports(results, l[1], l[2], i))
    BY <1>1, <1>4, <1>5, ReportsAnswer
  <2>2. Told(results)[<<<<l[1], l[2]>>, i>>] = Cardinality(Reports(results, l[1], l[2], i))
    BY <1>1, <1>2, <1>3, ToldType
  <2> QED
    BY <1>1, <1>2, <2>1, <2>2, ReportsFinite
<1> QED
  BY <1>1, <1>2, <1>3, <1>4, <1>5

(* What is repeated was disrupted, what is unanswered has gone wrong.      *)
LEMMA RelayAfforded == IInv /\ RelayInv => Afforded
<1> SUFFICES ASSUME IInv, RelayInv PROVE Afforded
  OBVIOUS
<1>1. LoopInv(Record, Result) /\ LoopTypeOK(Result)
  BY DEF IInv, LoopInv
<1>2. Disruptions \in Nat /\ trouble.faults \in Nat
  BY <1>1 DEF LoopTypeOK, Disruptions
<1> HIDE DEF Disruptions
<1>3. Cardinality(R!Repeats) <= Disruptions
  <2> DEFINE pots == Pots(Slot, Told(results), proc, owner, acked)
             E == Extra(Lane, pots)
  <2>1. IsFiniteSet(E) /\ Cardinality(E) <= Disruptions
    BY DEF RelayInv, SurplusBounded
  <2>2. ASSUME NEW l \in Lanes, NEW i \in 1..Len(input[l[2]]),
               NEW n \in 2..RelayAnswers[l][i]
        PROVE  <<l, i, n>> \in E
    <3>1. /\ l = <<l[1], l[2]>> /\ l[1] \in Groups /\ l[2] \in Partitions /\ i \in Nat
          /\ RelayAnswers[l][i] \in Nat
          /\ RelayAnswers[l][i] = 0 \/ RelayAnswers[l][i] = Told(results)[<<l, i>>]
      BY AnswersFacts
    <3>2. Chances(Slot, l[1], l[2], i, proc, owner, acked) \in Nat
      BY ChancesNat
    <3>3. <<l, i>> \in Lane \X Nat /\ l \in Lane
      BY <3>1 DEF Lane
    <3>4. pots[<<l, i>>] = Told(results)[<<l, i>>]
                             + Chances(Slot, l[1], l[2], i, proc, owner, acked)
      BY <3>3 DEF Pots
    <3> HIDE DEF pots
    <3>5. n \in Nat /\ n \in 2..pots[<<l, i>>]
      BY <3>1, <3>2, <3>4
    <3> QED
      BY <3>1, <3>3, <3>5 DEF Extra
  <2> HIDE DEF E
  <2>3. R!Repeats \subseteq E
    <3> SUFFICES ASSUME NEW e \in R!Repeats PROVE e \in E
      OBVIOUS
    <3>1. e \in UNION {UNION {{<<l, i, n>> : n \in 2..RelayAnswers[l][i]} :
                             i \in DOMAIN RelayAnswers[l]} : l \in Lanes}
      BY DEF R!Repeats, RelayAnswers
    <3>2. PICK l \in Lanes : e \in UNION {{<<l, i, n>> : n \in 2..RelayAnswers[l][i]} :
                                         i \in DOMAIN RelayAnswers[l]}
      BY <3>1
    <3>3. PICK i \in DOMAIN RelayAnswers[l] :
            e \in {<<l, i, n>> : n \in 2..RelayAnswers[l][i]}
      BY <3>2
    <3>4. PICK n \in 2..RelayAnswers[l][i] : e = <<l, i, n>>
      BY <3>3
    <3>5. DOMAIN RelayAnswers[l] = 1..Len(input[l[2]])
      BY DEF RelayAnswers
    <3> QED
      BY <2>2, <3>4, <3>5
  <2>4. Cardinality(R!Repeats) <= Cardinality(E) /\ Cardinality(R!Repeats) \in Nat
          /\ Cardinality(E) \in Nat
    BY <2>1, <2>3, NoMore
  <2> QED
    BY <1>2, <2>1, <2>4
<1>4. Cardinality(R!Unanswered) <= trouble.faults
  <2> DEFINE lost == {x \in Due(input, results) :
                        Passed(Slot, x[1][1], x[1][2], x[2], proc, acked)}
  <2>1. IsFiniteSet(lost) /\ Cardinality(lost) <= trouble.faults
    BY DEF RelayInv, LossesBounded
  <2>2. ASSUME NEW l \in Lanes, NEW i \in 1..RelaySettled[l],
               input[l[2]][i] \in Task, RelayAnswers[l][i] = 0
        PROVE  <<l, i>> \in lost
    <3>1. /\ l = <<l[1], l[2]>> /\ l[1] \in Groups /\ l[2] \in Partitions
          /\ RelaySettled[l] = acked[l[1]][l[2]]
      BY DEF Lanes, RelaySettled
    <3>2. /\ acked[l[1]][l[2]] <= Len(input[l[2]]) /\ acked[l[1]][l[2]] \in Nat
          /\ Len(input[l[2]]) \in Nat
      BY <1>1, <3>1 DEF LoopInv, LoopTypeOK, CommitsBounded
    <3>3. i \in 1..Len(input[l[2]]) /\ i \in Nat /\ i <= acked[l[1]][l[2]]
      BY <3>1, <3>2
    <3>4. Cardinality(Reports(results, l[1], l[2], i)) = 0
      BY <2>2, <3>3, AnswersFacts
    <3>5. Reports(results, l[1], l[2], i) = {}
      <4>1. IsFiniteSet(Reports(results, l[1], l[2], i))
        BY <3>1, ReportsFinite DEF IInv
      <4> QED
        BY <3>4, <4>1, FS_EmptySet
    <3>6. <<l, i>> \in Lane \X Nat
      BY <3>1, <3>3 DEF Lane
    <3> QED
      BY <2>2, <3>3, <3>5, <3>6 DEF Due, Passed
  <2> HIDE DEF lost
  <2>3. R!Unanswered \subseteq lost
    <3> SUFFICES ASSUME NEW e \in R!Unanswered PROVE e \in lost
      OBVIOUS
    <3> DEFINE open(l) == {n \in 1..RelaySettled[l] :
                             RelayOwed[l][n] /\ RelayAnswers[l][n] = 0}
    <3>1. e \in UNION {{<<l, i>> : i \in open(l)} : l \in Lanes}
      BY DEF R!Unanswered, RelaySettled, RelayOwed, RelayAnswers
    <3> HIDE DEF open
    <3>2. PICK l \in Lanes : e \in {<<l, i>> : i \in open(l)}
      BY <3>1
    <3>3. PICK i \in open(l) : e = <<l, i>>
      BY <3>2
    <3>4. i \in 1..RelaySettled[l] /\ RelayOwed[l][i] /\ RelayAnswers[l][i] = 0
      BY DEF open
    <3>5. i \in 1..Len(input[l[2]])
      <4>1. /\ l[1] \in Groups /\ l[2] \in Partitions
            /\ RelaySettled[l] = acked[l[1]][l[2]]
        BY DEF Lanes, RelaySettled
      <4>2. /\ acked[l[1]][l[2]] <= Len(input[l[2]]) /\ acked[l[1]][l[2]] \in Nat
            /\ Len(input[l[2]]) \in Nat
        BY <1>1, <4>1 DEF LoopInv, LoopTypeOK, CommitsBounded
      <4> QED
        BY <3>4, <4>1, <4>2
    <3>6. RelayOwed[l][i] = (input[l[2]][i] \in Task)
      BY <3>5 DEF RelayOwed
    <3> QED
      BY <2>2, <3>4, <3>3, <3>6
  <2>4. Cardinality(R!Unanswered) <= Cardinality(lost) /\ Cardinality(R!Unanswered) \in Nat
          /\ Cardinality(lost) \in Nat
    BY <2>1, <2>3, NoMore
  <2> QED
    BY <1>2, <2>1, <2>4
<1> QED
  BY <1>3, <1>4 DEF Afforded

(* At first there is nothing on the topics.                                *)
LEMMA RelayStarts == Init => R!Init
<1> SUFFICES ASSUME Init PROVE R!Init
  OBVIOUS
<1>1. /\ input = [p \in Partitions |-> <<>>]
      /\ acked = [g \in Groups |-> [p \in Partitions |-> 0]]
      /\ trouble = [crashes |-> 0, evictions |-> 0, stops |-> 0, faults |-> 0]
  BY DEF Init, LoopInit
<1>2. \A l \in Lanes : l[1] \in Groups /\ l[2] \in Partitions
  BY DEF Lanes
<1>3. RelayOwed = [l \in Lanes |-> <<>>] /\ RelayAnswers = [l \in Lanes |-> <<>>]
  BY <1>1, <1>2 DEF RelayOwed, RelayAnswers
<1>4. RelaySettled = [l \in Lanes |-> 0] /\ trouble.faults = 0 /\ Disruptions = 0
  BY <1>1, <1>2 DEF RelaySettled, Disruptions
<1> QED
  BY <1>3, <1>4 DEF R!Init, RelayOwed, RelayAnswers, RelaySettled

(* An instance's copy of Cardinality is Cardinality.                       *)
LEMMA CardinalityIs == ASSUME NEW S PROVE R!Cardinality(S) = Cardinality(S)
BY DEF R!Cardinality, Cardinality

(* What Relay sees changes with the topics and the commits only.           *)
LEMMA RelaySees ==
  /\ UNCHANGED <<input, results>> => UNCHANGED <<RelayOwed, RelayAnswers>>
  /\ input' = input => RelayOwed' = RelayOwed
  /\ acked' = acked => RelaySettled' = RelaySettled
BY DEF RelayOwed, RelayAnswers, RelaySettled, AnswersTo

(* The loop's own steps settle a task, are trouble, or nothing.            *)
LEMMA RelayTurnStep ==
  ASSUME IInv, RelayInv, Afforded', NEW w \in Processes, Turn(w) \/ Upset(w),
         UNCHANGED <<input, results>>
  PROVE  R!Next \/ UNCHANGED R!vars
<1>1. LoopInv(Record, Result)
  BY DEF IInv
<1>2. /\ acked' = acked \/ (Commit(w) /\ UNCHANGED trouble)
      /\ \/ UNCHANGED <<trouble.faults, Disruptions>>
         \/ trouble'.faults = trouble.faults + 1 /\ UNCHANGED Disruptions
         \/ Disruptions' = Disruptions + 1 /\ UNCHANGED trouble.faults
  BY <1>1, TurnTrouble
<1>3. UNCHANGED <<RelayOwed, RelayAnswers>>
  BY RelaySees
<1>4. CASE acked' = acked
  <2>1. RelaySettled' = RelaySettled
    BY <1>4, RelaySees
  <2>2. CASE UNCHANGED <<trouble.faults, Disruptions>>
    BY <1>3, <2>1, <2>2 DEF R!vars, RelayOwed, RelayAnswers, RelaySettled
  <2>3. CASE trouble'.faults = trouble.faults + 1 /\ UNCHANGED Disruptions
    <3>1. R!Lose
      BY <1>3, <2>1, <2>3 DEF R!Lose, RelayOwed, RelayAnswers, RelaySettled
    <3> QED
      BY <3>1 DEF R!Next
  <2>4. CASE Disruptions' = Disruptions + 1 /\ UNCHANGED trouble.faults
    <3>1. R!Disrupt
      BY <1>3, <2>1, <2>4 DEF R!Disrupt, RelayOwed, RelayAnswers, RelaySettled
    <3> QED
      BY <3>1 DEF R!Next
  <2> QED
    BY <1>2, <2>2, <2>3, <2>4
<1>5. CASE Commit(w) /\ UNCHANGED trouble
  <2> DEFINE g == GroupOf[w]
             p == proc[w].msg.part
             off == proc[w].msg.off
  <2>1. /\ g \in Groups /\ p \in Partitions /\ off \in Nat /\ off < Len(input[p])
        /\ acked[g][p] = off /\ acked'[g][p] = off + 1
        /\ \A h \in Groups, q \in Partitions : h # g \/ q # p => acked'[h][q] = acked[h][q]
    BY <1>1, <1>5, CommitLemma
  <2>2. Len(input[p]) \in Nat
    BY <1>1, <2>1 DEF LoopInv
  <2> HIDE DEF g, p, off
  <2>3. PICK l \in Lanes : l = <<g, p>> /\ l[1] = g /\ l[2] = p
    <3>1. <<g, p>> \in Lanes /\ <<g, p>>[1] = g /\ <<g, p>>[2] = p
      BY <2>1 DEF Lanes
    <3> QED
      BY <3>1
  <2>4. RelaySettled[l] = off /\ RelaySettled[l] < Len(RelayOwed[l])
    <3>1. RelayOwed[l] = [i \in 1..Len(input[p]) |-> input[p][i] \in Task]
      BY <2>3 DEF RelayOwed
    <3>2. Len(RelayOwed[l]) = Len(input[p])
      BY <2>2, <3>1
    <3> QED
      BY <2>1, <2>3, <3>2 DEF RelaySettled
  <2>5. RelaySettled' = [RelaySettled EXCEPT ![l] = @ + 1]
    <3>1. \A k \in Lanes : k = <<k[1], k[2]>> /\ k[1] \in Groups /\ k[2] \in Partitions
      BY DEF Lanes
    <3>2. \A k \in Lanes : RelaySettled'[k] =
                             IF k = l THEN RelaySettled[k] + 1 ELSE RelaySettled[k]
      BY <2>1, <2>3, <3>1 DEF RelaySettled
    <3>3. /\ RelaySettled' = [k \in Lanes |-> RelaySettled'[k]]
          /\ RelaySettled = [k \in Lanes |-> RelaySettled[k]]
      BY DEF RelaySettled
    <3> QED
      BY <2>3, <3>2, <3>3
  <2>6. UNCHANGED <<trouble.faults, Disruptions>>
    BY <1>5 DEF Disruptions
  <2>7. R!Cardinality(R!Unanswered') <= trouble.faults
    BY <2>6, CardinalityIs DEF Afforded
  <2>8. R!Settle(l)
    BY <1>3, <2>4, <2>5, <2>6, <2>7 DEF R!Settle, RelayOwed, RelayAnswers, RelaySettled
  <2> QED
    BY <2>3, <2>8 DEF R!Next
<1> QED
  BY <1>2, <1>4, <1>5

(* Steps that leave the topics, the commits and the count of trouble alone *)
(* are nothing to Relay.                                                   *)
LEMMA RelayQuiet ==
  ASSUME UNCHANGED <<input, results, acked, trouble>>
  PROVE  UNCHANGED R!vars
<1>1. UNCHANGED <<RelayOwed, RelayAnswers, RelaySettled>>
  BY RelaySees
<1>2. UNCHANGED <<trouble.faults, Disruptions>>
  BY DEF Disruptions
<1> QED
  BY <1>1, <1>2 DEF R!vars, RelayOwed, RelayAnswers, RelaySettled

(* A delivery is one answer more to the task it reports on.                *)
LEMMA RelayDeliverStep ==
  ASSUME IInv, RelayInv, IInv', RelayInv', Afforded', NEW w \in Processes, Deliver(w)
  PROVE  R!Next
<1> DEFINE head == Head(proc[w].out)
           a == GroupOf[w]
           q == PartitionOf[head.claim]
<1>1. /\ head \in Result /\ q \in Partitions /\ head.round \in Nat
      /\ head.agent = a /\ ResultOK(head, input)
      /\ UNCHANGED <<input, owner, acked, trouble>>
      /\ results' = Published(results, head.claim, head)
  BY DeliverFacts
<1>2. a \in Groups /\ results \in [Partitions -> Seq(Result)]
  BY ProcFacts DEF IInv, LoopInv
<1> HIDE DEF a, q, head
<1>3. \A g \in Groups, p \in Partitions, m \in Nat :
        /\ g = a /\ p = q /\ m = head.round =>
             Reports(results', g, p, m) = Reports(results, g, p, m) \cup {Len(results[p]) + 1}
        /\ ~(g = a /\ p = q /\ m = head.round) =>
             Reports(results', g, p, m) = Reports(results, g, p, m)
  BY DeliverReports DEF a, q, head
<1>4. PICK l \in Lanes : l = <<a, q>> /\ l[1] = a /\ l[2] = q
  <2>1. <<a, q>> \in Lanes /\ <<a, q>>[1] = a /\ <<a, q>>[2] = q
    BY <1>1, <1>2 DEF Lanes
  <2> QED
    BY <2>1
<1>5. PICK i \in 1..Len(input[q]) :
        i = head.round /\ input[q][i] = [claim |-> head.claim, round |-> head.round]
  BY <1>1 DEF ResultOK, q
<1>6. i \in Nat
  BY <1>1, <1>5
<1>7. input[q][i] \in Task
  <2>1. head.claim \in Claims /\ head.round \in Round
    BY <1>1 DEF Result
  <2> QED
    BY <1>5, <2>1 DEF Task
<1>8. UNCHANGED <<RelayOwed, RelaySettled>>
  BY <1>1, RelaySees
<1>9. ASSUME NEW k \in Lanes, NEW j \in 1..Len(input[k[2]])
      PROVE  RelayAnswers'[k][j] =
               IF k = l /\ j = i THEN RelayAnswers[k][j] + 1 ELSE RelayAnswers[k][j]
  <2>1. /\ k = <<k[1], k[2]>> /\ k[1] \in Groups /\ k[2] \in Partitions /\ j \in Nat
        /\ Len(input[k[2]]) \in Nat
        /\ input[k[2]][j] \in Task =>
             RelayAnswers[k][j] = Cardinality(Reports(results, k[1], k[2], j))
        /\ input[k[2]][j] \notin Task => RelayAnswers[k][j] = 0
    BY AnswersFacts
  <2>2. /\ input[k[2]][j] \in Task =>
             RelayAnswers'[k][j] = Cardinality(Reports(results', k[1], k[2], j))
        /\ input[k[2]][j] \notin Task => RelayAnswers'[k][j] = 0
    <3>1. RelayAnswers'[k][j] =
            IF input[k[2]][j] \in Task THEN Cardinality(AnswersTo(input[k[2]][j], k[1])')
                                       ELSE 0
      BY <1>1 DEF RelayAnswers
    <3>2. input[k[2]][j] \in Task =>
            AnswersTo(input[k[2]][j], k[1])' = Reports(results', k[1], k[2], j)
      <4>1. ASSUME NEW task, task = input[k[2]][j], task \in Task
            PROVE  AnswersTo(task, k[1])' = Reports(results', k[1], k[2], j)
        <5>1. task.round = j /\ PartitionOf[task.claim] = k[2]
          BY <2>1, <4>1 DEF RelayInv, Placed
        <5>2. ASSUME NEW n \in 1..Len(results'[k[2]]), results'[k[2]][n].round = j
              PROVE  results'[k[2]][n].claim = task.claim
          <6>1. /\ PartitionOf[results'[k[2]][n].claim] = k[2]
                /\ ResultOK(results'[k[2]][n], input')
            BY <2>1 DEF RelayInv, LogOK
          <6>2. task = [claim |-> results'[k[2]][n].claim,
                        round |-> results'[k[2]][n].round]
            BY <1>1, <4>1, <5>2, <6>1 DEF ResultOK
          <6> QED
            BY <6>2
        <5> QED
          BY <5>1, <5>2 DEF AnswersTo, Answers, Reports
      <4> QED
        BY <1>1, <4>1
    <3> QED
      BY <3>1, <3>2
  <2>3. /\ k[1] = a /\ k[2] = q /\ j = i =>
             Reports(results', k[1], k[2], j) =
               Reports(results, k[1], k[2], j) \cup {Len(results[k[2]]) + 1}
        /\ ~(k[1] = a /\ k[2] = q /\ j = i) =>
             Reports(results', k[1], k[2], j) = Reports(results, k[1], k[2], j)
    BY <1>5, <1>3, <2>1
  <2>4. k = l <=> k[1] = a /\ k[2] = q
    BY <1>4, <2>1
  <2>5. CASE ~(k = l /\ j = i)
    BY <2>1, <2>2, <2>3, <2>4, <2>5
  <2>6. CASE k = l /\ j = i
    <3> DEFINE old == Reports(results, k[1], k[2], j)
               n == Len(results[k[2]])
    <3>1. IsFiniteSet(old)
      BY <1>2, <2>1, ReportsFinite
    <3>2. n + 1 \notin old
      <4>1. n \in Nat
        BY <1>2, <2>1
      <4> QED
        BY <4>1 DEF Reports
    <3> HIDE DEF old, n
    <3>3. Cardinality(old \cup {n + 1}) = Cardinality(old) + 1
      BY <3>1, <3>2, FS_AddElement
    <3>4. /\ RelayAnswers[k][j] = Cardinality(old)
          /\ RelayAnswers'[k][j] = Cardinality(old \cup {n + 1})
      BY <1>4, <1>7, <2>1, <2>2, <2>3, <2>4, <2>6 DEF old, n
    <3> QED
      BY <2>6, <3>3, <3>4
  <2> QED
    BY <2>5, <2>6
<1>10. RelayAnswers' = [RelayAnswers EXCEPT ![l][i] = @ + 1]
  <2>1. /\ RelayAnswers = [k \in Lanes |-> RelayAnswers[k]]
        /\ RelayAnswers' = [k \in Lanes |-> RelayAnswers'[k]]
        /\ \A k \in Lanes :
             /\ RelayAnswers[k] = [j \in 1..Len(input[k[2]]) |-> RelayAnswers[k][j]]
             /\ RelayAnswers'[k] = [j \in 1..Len(input[k[2]]) |-> RelayAnswers'[k][j]]
    BY <1>1 DEF RelayAnswers
  <2>2. \A k \in Lanes : k # l => RelayAnswers'[k] = RelayAnswers[k]
    BY <1>9, <2>1
  <2>3. RelayAnswers'[l] = [RelayAnswers[l] EXCEPT ![i] = @ + 1]
    <3> DEFINE D == 1..Len(input[l[2]])
               s == RelayAnswers[l]
               s2 == RelayAnswers'[l]
    <3>1. \A j \in D : s2[j] = IF j = i THEN s[j] + 1 ELSE s[j]
      BY <1>9
    <3>2. s = [j \in D |-> s[j]] /\ s2 = [j \in D |-> s2[j]] /\ i \in D
      BY <1>4, <1>5, <2>1
    <3> HIDE DEF D, s, s2
    <3>3. s2 = [s EXCEPT ![i] = @ + 1]
      BY <3>1, <3>2
    <3> QED
      BY <3>3 DEF s, s2
  <2> QED
    BY <2>1, <2>2, <2>3
<1>11. UNCHANGED <<trouble.faults, Disruptions>>
  BY <1>1 DEF Disruptions
<1>12. R!Cardinality(R!Repeats') <= Disruptions
  BY <1>11, CardinalityIs DEF Afforded
<1>13. i \in 1..Len(RelayOwed[l])
  <2>1. RelayOwed[l] = [j \in 1..Len(input[q]) |-> input[q][j] \in Task]
    BY <1>4 DEF RelayOwed
  <2>2. Len(input[q]) \in Nat
    BY <1>1 DEF IInv, LoopInv
  <2>3. Len(RelayOwed[l]) = Len(input[q])
    BY <2>1, <2>2
  <2> QED
    BY <1>5, <2>3
<1>14. R!Answer(l)
  BY <1>8, <1>10, <1>11, <1>12, <1>13 DEF R!Answer, RelayOwed, RelayAnswers, RelaySettled
<1> QED
  BY <1>14 DEF R!Next

(* A record that arrives is accepted in the lanes of its partition.        *)
LEMMA RelayFedStep ==
  ASSUME IInv, RelayInv, Fed
  PROVE  R!Next
<1>1. LoopInv(Record, Result) /\ input \in [Partitions -> Seq(Record)]
      /\ results \in [Partitions -> Seq(Result)]
  BY DEF IInv, LoopInv
<1>2. UNCHANGED <<owner, acked, proc, trouble, results>> /\ UNCHANGED loopVars
  BY DEF Fed, loopVars
<1>3. PICK p \in Partitions, rec \in Record :
        /\ input' = [input EXCEPT ![p] = Append(@, rec)]
        /\ rec \in Task => rec.round = Len(input[p]) + 1 /\ PartitionOf[rec.claim] = p
  BY DEF Fed
<1> DEFINE S == {l \in Lanes : l[2] = p}
           n == Len(input[p])
<1>4. n \in Nat /\ input[p] \in Seq(Record)
  BY <1>1
<1>5. /\ Len(input'[p]) = n + 1 /\ input'[p][n + 1] = rec
      /\ \A i \in 1..n : input'[p][i] = input[p][i]
      /\ \A q \in Partitions : q # p => input'[q] = input[q]
  <2>1. input'[p] = Append(input[p], rec)
    BY <1>1, <1>3
  <2> QED
    BY <1>1, <1>3, <1>4, <2>1
<1> HIDE DEF n
<1>6. ASSUME NEW l \in Lanes, l \notin S
      PROVE  RelayOwed'[l] = RelayOwed[l] /\ RelayAnswers'[l] = RelayAnswers[l]
  <2>1. l[2] \in Partitions /\ input'[l[2]] = input[l[2]]
    BY <1>5, <1>6 DEF Lanes
  <2> QED
    BY <1>2, <2>1 DEF RelayOwed, RelayAnswers, AnswersTo
<1>7. ASSUME NEW l \in S
      PROVE  RelayOwed'[l] = Append(RelayOwed[l], rec \in Task)
  <2>1. l \in Lanes /\ l[2] = p
    OBVIOUS
  <2>2. /\ RelayOwed[l] = [i \in 1..n |-> input[p][i] \in Task]
        /\ RelayOwed'[l] = [i \in 1..(n + 1) |-> input'[p][i] \in Task]
    BY <1>5, <2>1 DEF RelayOwed, n
  <2>3. RelayOwed[l] \in [1..n -> BOOLEAN] /\ RelayOwed'[l] \in [1..(n + 1) -> BOOLEAN]
    BY <2>2
  <2>4. \A i \in 1..n : RelayOwed'[l][i] = RelayOwed[l][i]
    <3>1. 1..n \subseteq 1..(n + 1)
      BY <1>4
    <3> QED
      BY <1>5, <2>2, <3>1
  <2>5. RelayOwed'[l][n + 1] = (rec \in Task)
    <3>1. n + 1 \in 1..(n + 1)
      BY <1>4
    <3> QED
      BY <1>5, <2>2, <3>1
  <2>6. (rec \in Task) \in BOOLEAN
    OBVIOUS
  <2> QED
    BY <1>4, <2>3, <2>4, <2>5, <2>6, AppendMap
<1>8. ASSUME NEW l \in S
      PROVE  RelayAnswers'[l] = Append(RelayAnswers[l], 0)
  <2>1. l \in Lanes /\ l[1] \in Groups /\ l[2] = p
    BY DEF Lanes
  <2>2. \A task : AnswersTo(task, l[1])' = AnswersTo(task, l[1])
    BY <1>2 DEF AnswersTo
  <2> DEFINE count(task) == IF task \in Task THEN Cardinality(AnswersTo(task, l[1])) ELSE 0
  <2>3. /\ RelayAnswers[l] = [i \in 1..n |-> count(input[p][i])]
        /\ RelayAnswers'[l] = [i \in 1..(n + 1) |-> count(input'[p][i])]
    BY <1>5, <2>1, <2>2 DEF RelayAnswers, n
  <2>4. \A i \in 1..n : count(input[p][i]) \in Nat
    <3> SUFFICES ASSUME NEW i \in 1..n PROVE count(input[p][i]) \in Nat
      OBVIOUS
    <3>1. RelayAnswers[l][i] \in Nat
      BY <2>1, AnswersFacts DEF n
    <3> QED
      BY <2>3, <3>1
  <2>5. count(rec) = 0
    <3> SUFFICES ASSUME rec \in Task PROVE Cardinality(AnswersTo(rec, l[1])) = 0
      OBVIOUS
    <3>1. AnswersTo(rec, l[1]) = {}
      <4> SUFFICES ASSUME NEW j \in AnswersTo(rec, l[1]) PROVE FALSE
        OBVIOUS
      <4>1. j \in 1..Len(results[p]) /\ results[p][j].round = n + 1
        BY <1>3 DEF AnswersTo, Answers, n
      <4>2. results[p][j].round \in 1..n
        BY <4>1 DEF RelayInv, LogOK, ResultOK, n
      <4> QED
        BY <1>4, <4>1, <4>2
    <3> QED
      BY <3>1, FS_EmptySet
  <2> HIDE DEF count
  <2>6. \A i \in 1..(n + 1) : count(input'[p][i]) \in Nat
    <3> SUFFICES ASSUME NEW i \in 1..(n + 1) PROVE count(input'[p][i]) \in Nat
      OBVIOUS
    <3>1. CASE i = n + 1
      <4>1. input'[p][i] = rec
        BY <1>5, <3>1
      <4>2. count(input'[p][i]) = count(rec)
        BY <4>1
      <4> QED
        BY <2>5, <4>2
    <3>2. CASE i # n + 1
      <4>1. i \in 1..n
        BY <1>4, <3>2
      <4>2. count(input'[p][i]) = count(input[p][i])
        BY <1>5, <4>1
      <4> QED
        BY <2>4, <4>1, <4>2
    <3> QED
      BY <3>1, <3>2
  <2>7. RelayAnswers[l] \in [1..n -> Nat] /\ RelayAnswers'[l] \in [1..(n + 1) -> Nat]
    BY <2>3, <2>4, <2>6
  <2>8. \A i \in 1..n : RelayAnswers'[l][i] = RelayAnswers[l][i]
    <3>1. 1..n \subseteq 1..(n + 1)
      BY <1>4
    <3> QED
      BY <1>5, <2>3, <3>1
  <2>9. RelayAnswers'[l][n + 1] = 0
    <3>1. n + 1 \in 1..(n + 1)
      BY <1>4
    <3> QED
      BY <1>5, <2>3, <2>5, <3>1
  <2> QED
    BY <1>4, <2>7, <2>8, <2>9, AppendMap
<1>9. /\ RelayOwed' = [l \in Lanes |-> RelayOwed'[l]]
      /\ RelayAnswers' = [l \in Lanes |-> RelayAnswers'[l]]
  BY DEF RelayOwed, RelayAnswers
<1>10. S \in SUBSET Lanes
  OBVIOUS
<1> HIDE DEF S
<1>11. PICK b \in BOOLEAN : b = (rec \in Task)
  <2>1. CASE rec \in Task
    <3>1. TRUE \in BOOLEAN /\ TRUE = (rec \in Task)
      BY <2>1
    <3> QED
      BY <3>1
  <2>2. CASE rec \notin Task
    <3>1. FALSE \in BOOLEAN /\ FALSE = (rec \in Task)
      BY <2>2
    <3> QED
      BY <3>1
  <2> QED
    BY <2>1, <2>2
<1>12. RelayOwed' = [l \in Lanes |-> IF l \in S THEN Append(RelayOwed[l], b) ELSE RelayOwed[l]]
  BY <1>6, <1>7, <1>9, <1>11
<1>13. RelayAnswers' =
         [l \in Lanes |-> IF l \in S THEN Append(RelayAnswers[l], 0) ELSE RelayAnswers[l]]
  BY <1>6, <1>8, <1>9
<1>14. UNCHANGED <<RelaySettled, trouble.faults, Disruptions>>
  BY <1>2, RelaySees DEF Disruptions
<1>15. R!Accept(S)
  BY <1>12, <1>13, <1>14 DEF R!Accept, RelayOwed, RelayAnswers, RelaySettled
<1> QED
  BY <1>10, <1>15 DEF R!Next

(* Every step is a step of Relay, or nothing to it.                        *)
LEMMA RelayStep ==
  IInv /\ RelayInv /\ IInv' /\ RelayInv' /\ Afforded' /\ [Next]_vars => [R!Next]_(R!vars)
<1> SUFFICES ASSUME IInv, RelayInv, IInv', RelayInv', Afforded', [Next]_vars
             PROVE  R!Next \/ UNCHANGED R!vars
  OBVIOUS
<1>1. ASSUME NEW w \in Processes, Progress(w) \/ Deliver(w) \/ Trouble(w)
      PROVE  R!Next \/ UNCHANGED R!vars
  <2>1. CASE (Turn(w) \/ Upset(w)) /\ UNCHANGED <<input, results>>
    BY <2>1, RelayTurnStep
  <2>2. ASSUME NEW p \in Partitions, Receive(w, p) PROVE UNCHANGED R!vars
    BY <2>2, RelayQuiet DEF Receive, Poll
  <2>3. CASE Handle(w)
    BY <2>3, RelayQuiet DEF Handle, Produce
  <2>4. CASE Raises(w)
    BY <2>4, RelayQuiet DEF Raises, Die
  <2>5. CASE Deliver(w)
    BY <2>5, RelayDeliverStep
  <2> QED
    BY <1>1, <2>1, <2>2, <2>3, <2>4, <2>5 DEF Progress, Trouble
<1>2. CASE Env
  BY <1>2, EnvFeeds, RelayFedStep DEF IInv
<1>3. CASE UNCHANGED vars
  BY <1>3, RelayQuiet DEF vars, loopVars
<1> QED
  BY <1>1, <1>2, <1>3 DEF Next, Step

(* The workers implement Relay: every task is answered before it is        *)
(* committed and not answered again, but for the price of a fault, a crash *)
(* or an eviction each.                                                    *)
THEOREM WorkersImplementRelay == Spec => ImplementsRelay
<1>1. IInv /\ RelayInv /\ [Next]_vars => IInv' /\ RelayInv'
  BY InvNext, RelayNext
<1>2. Init => IInv /\ RelayInv /\ R!Init
  BY InvInit, RelayInit, RelayStarts
<1> QED
  BY <1>1, <1>2, RelayAfforded, RelayStep, PTL DEF Spec, ImplementsRelay, R!Spec

-------------------------------------------------------------------------------
(* When nobody lags: lemmas for the swarm, where the next task of a        *)
(* partition is dispatched once the one before it is settled.              *)

(* The result answers the last task of its partition.                      *)
LastTask(res, topic) == res.round = Len(topic[PartitionOf[res.claim]])

(* Every agent is at the last task of every partition, or past it, and     *)
(* what is queued answers a last task.                                     *)
AtLast ==
  /\ HandsOwned(proc, owner)
  /\ \A a \in Groups, p \in Partitions : Len(input[p]) <= acked[a][p] + 1
  /\ \A w \in Processes : \A n \in 1..Len(proc[w].out) : LastTask(proc[w].out[n], input)

(* A process at work owns the partition, and nobody else's step takes it.  *)
LEMMA HandsKept ==
  ASSUME LoopTypeOK(Result), \A w \in Processes : HandOK(proc[w], input),
         HandsOwned(proc, owner),
         NEW w \in Processes, OthersRest(w), TakesOnlyOwn(w),
         proc'[w].pc \in Busy => owner'[GroupOf[w]][proc'[w].msg.part] = w
  PROVE  HandsOwned(proc', owner')
<1> SUFFICES ASSUME NEW v \in Processes, v # w, proc'[v].pc \in Busy
             PROVE  owner'[GroupOf[v]][proc'[v].msg.part] = v
  BY DEF HandsOwned
<1> DEFINE p == proc[v].msg.part
<1>1. proc'[v] = proc[v]
  BY DEF OthersRest
<1>2. p \in Partitions /\ owner[GroupOf[v]][p] = v /\ GroupOf[v] \in Groups /\ v # NoProcess
  BY <1>1, ProcFacts DEF HandsOwned, HandOK, Position
<1> HIDE DEF p
<1>3. owner'[GroupOf[v]][p] = v
  BY <1>2 DEF TakesOnlyOwn
<1> QED
  BY <1>1, <1>3 DEF p

(* A step of w leaves everybody at the last task.                          *)
LEMMA LastFrame ==
  ASSUME IInv, AtLast, NEW w \in Processes, OthersRest(w), input' = input,
         CommitsGrow, HandsOwned(proc', owner'),
         \A n \in 1..Len(proc'[w].out) : LastTask(proc'[w].out[n], input),
         acked' \in [Groups -> [Partitions -> Nat]]
  PROVE  AtLast'
<1>1. LoopTypeOK(Result) /\ input \in [Partitions -> Seq(Record)]
  BY DEF IInv, LoopInv
<1>2. ASSUME NEW a \in Groups, NEW p \in Partitions
      PROVE  Len(input'[p]) <= acked'[a][p] + 1
  <2>1. /\ acked[a][p] \in Nat /\ acked'[a][p] \in Nat /\ acked[a][p] <= acked'[a][p]
        /\ Len(input[p]) \in Nat /\ Len(input[p]) <= acked[a][p] + 1
    BY <1>1 DEF LoopTypeOK, CommitsGrow, AtLast
  <2> QED
    BY <2>1
<1>3. ASSUME NEW v \in Processes, NEW n \in 1..Len(proc'[v].out)
      PROVE  LastTask(proc'[v].out[n], input')
  BY DEF AtLast, OthersRest
<1> QED
  BY <1>2, <1>3 DEF AtLast

(* The queue of w when it gains nothing.                                   *)
LEMMA LastShrinks ==
  ASSUME IInv, AtLast, NEW w \in Processes,
         \/ proc'[w].out = <<>> \/ proc'[w].out = proc[w].out
         \/ proc[w].out # <<>> /\ proc'[w].out = Tail(proc[w].out)
  PROVE  \A n \in 1..Len(proc'[w].out) : LastTask(proc'[w].out[n], input)
<1>1. proc[w].out \in Seq(Result)
  BY ProcFacts DEF IInv, LoopInv
<1>2. CASE proc[w].out # <<>> /\ proc'[w].out = Tail(proc[w].out)
  <2>1. ASSUME NEW n \in 1..Len(proc'[w].out)
        PROVE  n + 1 \in 1..Len(proc[w].out) /\ proc'[w].out[n] = proc[w].out[n + 1]
    BY <1>1, <1>2
  <2> QED
    BY <2>1 DEF AtLast
<1>3. CASE proc'[w].out = <<>> \/ proc'[w].out = proc[w].out
  BY <1>3 DEF AtLast
<1> QED
  BY <1>2, <1>3

(* The loop's own steps, unless they evict.                                *)
LEMMA LastTurn ==
  ASSUME IInv, AtLast, NEW w \in Processes, Turn(w) \/ Upset(w),
         UNCHANGED <<input, results>>, trouble'.evictions = 0
  PROVE  AtLast'
<1>1. LoopInv(Record, Result)
  BY DEF IInv
<1>2. Effect(w) /\ OthersRest(w) /\ LoopInv(Record, Result)'
  BY <1>1, TurnStep DEF Effect
<1>3. HandsOwned(proc', owner')
  BY <1>1, TurnOwns DEF AtLast
<1>4. CommitsGrow
  BY <1>1, TurnSecures
<1>5. \/ proc'[w].out = <<>> \/ proc'[w].out = proc[w].out
      \/ proc[w].out # <<>> /\ proc'[w].out = Tail(proc[w].out)
  <2>1. Commit(w) => proc'[w].out = proc[w].out
    BY <1>1, CommitLemma
  <2> QED
    BY <1>2, <2>1 DEF Effect, Rests, Keeps, Flushes, Loses
<1>6. acked' \in [Groups -> [Partitions -> Nat]]
  BY <1>2 DEF LoopInv, LoopTypeOK
<1> QED
  BY <1>2, <1>3, <1>4, <1>5, <1>6, LastShrinks, LastFrame

(* A record that is received is of a partition of the process.             *)
LEMMA LastReceive ==
  ASSUME IInv, AtLast, NEW w \in Processes, NEW p \in Partitions, Receive(w, p)
  PROVE  AtLast'
<1>1. LoopInv(Record, Result) /\ LoopTypeOK(Result)
  BY DEF IInv, LoopInv
<1>2. PICK next \in {"work", "commit"} : Poll(w, p, next)
  BY DEF Receive
<1>3. /\ OthersRest(w) /\ UNCHANGED <<owner, acked>> /\ input' = input
      /\ proc'[w].msg = [part |-> p, off |-> proc[w].cursor[p]]
      /\ proc'[w].out = proc[w].out /\ owner[GroupOf[w]][p] = w
  BY <1>1, <1>2, PollLemma DEF Receive
<1>4. TakesOnlyOwn(w) /\ CommitsGrow /\ acked' \in [Groups -> [Partitions -> Nat]]
  BY <1>1, <1>3 DEF TakesOnlyOwn, CommitsGrow, LoopTypeOK
<1>5. HandsOwned(proc', owner')
  BY <1>1, <1>3, <1>4, HandsKept DEF LoopInv, AtLast
<1> QED
  BY <1>3, <1>4, <1>5, LastShrinks, LastFrame

(* Who has a task in hand owns its partition, and so has the last one.     *)
LEMMA LastHandle ==
  ASSUME IInv, RelayInv, AtLast, NEW w \in Processes, Handle(w)
  PROVE  AtLast'
<1> DEFINE task == InHand(w)
           a == GroupOf[w]
           p == proc[w].msg.part
           off == proc[w].msg.off
<1>1. LoopInv(Record, Result) /\ LoopTypeOK(Result)
  BY DEF IInv, LoopInv
<1>2. PICK res \in ReportsOf(task, a) : Produce(w, res)
  BY DEF Handle
<1>3. input' = input /\ task \in Task
  BY DEF Handle
<1>4. res \in Result /\ Answers(res, task, a)
  BY <1>1, <1>2, <1>3, ReportFacts
<1>5. /\ OthersRest(w) /\ proc[w].pc = "work" /\ proc'[w].pc = "flush"
      /\ proc'[w].msg = proc[w].msg /\ UNCHANGED <<owner, acked>>
      /\ Len(proc[w].out) + 1 \in 1..Len(proc'[w].out)
      /\ proc'[w].out[Len(proc[w].out) + 1] = res
      /\ \A i \in 1..Len(proc[w].out) : proc'[w].out[i] = proc[w].out[i]
  BY <1>1, <1>2, <1>4, ProduceLemma
<1>6. Len(proc'[w].out) = Len(proc[w].out) + 1 /\ Len(proc[w].out) \in Nat
  <2>1. proc[w].out \in Seq(Result) /\ proc'[w].out = Append(proc[w].out, res)
    BY <1>1, <1>2, ProcFacts DEF Produce, Process
  <2> QED
    BY <2>1
<1>7. /\ p \in Partitions /\ off \in Nat /\ off < Len(input[p]) /\ a \in Groups
      /\ off = acked[a][p] /\ Len(input[p]) \in Nat
  <2>1. /\ HandOK(proc[w], input) /\ CursorOK(w, proc[w], owner, acked)
        /\ owner[a][p] = w /\ input \in [Partitions -> Seq(Record)]
    BY <1>1, <1>5 DEF LoopInv, AtLast, HandsOwned, Busy
  <2>2. p \in Partitions /\ off \in Nat /\ off < Len(input[p])
    BY <1>5, <2>1 DEF HandOK, Position, Busy
  <2> QED
    BY <1>1, <1>5, <2>1, <2>2, ProcFacts DEF CursorOK, Busy
<1>8. off + 1 = Len(input[p])
  <2>1. Len(input[p]) <= acked[a][p] + 1
    BY <1>7 DEF AtLast
  <2> HIDE DEF p, off
  <2> QED
    BY <1>7, <2>1
<1>9. LastTask(res, input)
  <2>1. off + 1 \in 1..Len(input[p]) /\ task = input[p][off + 1]
    BY <1>7, <1>8 DEF InHand
  <2>2. task.round = off + 1 /\ PartitionOf[task.claim] = p
    BY <1>3, <1>7, <2>1 DEF RelayInv, Placed
  <2> QED
    BY <1>4, <1>8, <2>2 DEF Answers, LastTask
<1>10. ASSUME NEW n \in 1..Len(proc'[w].out) PROVE LastTask(proc'[w].out[n], input)
  <2>1. CASE n \in 1..Len(proc[w].out)
    BY <1>5, <2>1 DEF AtLast
  <2>2. CASE n \notin 1..Len(proc[w].out)
    <3>1. n = Len(proc[w].out) + 1
      BY <1>6, <2>2
    <3> QED
      BY <1>5, <1>9, <3>1
  <2> QED
    BY <2>1, <2>2
<1>11. TakesOnlyOwn(w) /\ CommitsGrow /\ acked' \in [Groups -> [Partitions -> Nat]]
  BY <1>1, <1>5 DEF TakesOnlyOwn, CommitsGrow, LoopTypeOK
<1>12. HandsOwned(proc', owner')
  <2>1. owner'[a][proc'[w].msg.part] = w
    BY <1>5 DEF AtLast, HandsOwned, Busy
  <2> QED
    BY <1>1, <1>5, <1>11, <2>1, HandsKept DEF LoopInv, AtLast
<1> QED
  BY <1>3, <1>5, <1>10, <1>11, <1>12, LastFrame

(* A process that a record kills gives up what it owns.                    *)
LEMMA LastRaises ==
  ASSUME IInv, AtLast, NEW w \in Processes, Raises(w)
  PROVE  AtLast'
<1>1. LoopInv(Record, Result) /\ LoopTypeOK(Result)
  BY DEF IInv, LoopInv
<1>2. Die(w) /\ input' = input
  BY DEF Raises
<1>3. /\ OthersRest(w) /\ proc'[w].pc = "down" /\ proc'[w].out = <<>>
      /\ acked' = acked /\ Released(w)
  BY <1>1, <1>2, DieLemma
<1>4. TakesOnlyOwn(w)
  BY <1>1, <1>3, ProcFacts DEF Released, TakesOnlyOwn
<1>5. CommitsGrow /\ acked' \in [Groups -> [Partitions -> Nat]]
  BY <1>1, <1>3 DEF CommitsGrow, LoopTypeOK
<1>6. HandsOwned(proc', owner')
  BY <1>1, <1>3, <1>4, HandsKept DEF LoopInv, AtLast, Busy
<1> QED
  BY <1>2, <1>3, <1>5, <1>6, LastShrinks, LastFrame

(* A result that is delivered leaves the queue.                            *)
LEMMA LastDeliver ==
  ASSUME IInv, AtLast, NEW w \in Processes, Deliver(w)
  PROVE  AtLast'
<1>1. LoopInv(Record, Result) /\ LoopTypeOK(Result)
  BY DEF IInv, LoopInv
<1>2. Unqueue(w) /\ input' = input
  BY DEF Deliver, Sent
<1>3. /\ OthersRest(w) /\ proc'[w].pc = proc[w].pc /\ proc'[w].msg = proc[w].msg
      /\ proc'[w].out = Tail(proc[w].out) /\ proc[w].out # <<>>
      /\ UNCHANGED <<owner, acked>>
  BY <1>1, <1>2, UnqueueLemma
<1>4. TakesOnlyOwn(w) /\ CommitsGrow /\ acked' \in [Groups -> [Partitions -> Nat]]
  BY <1>1, <1>3 DEF TakesOnlyOwn, CommitsGrow, LoopTypeOK
<1>5. HandsOwned(proc', owner')
  BY <1>1, <1>3, <1>4, HandsKept DEF LoopInv, AtLast, HandsOwned
<1> QED
  BY <1>2, <1>3, <1>4, <1>5, LastShrinks, LastFrame

(* Without an eviction everybody stays at the last task, whatever crashes. *)
LEMMA LastStep ==
  ASSUME IInv, RelayInv, AtLast, Step, trouble'.evictions = 0
  PROVE  AtLast'
<1>1. PICK w \in Processes : Progress(w) \/ Deliver(w) \/ Trouble(w)
  BY DEF Step
<1> QED
  BY <1>1, LastTurn, LastReceive, LastHandle, LastRaises, LastDeliver DEF Progress, Trouble

(* What is published answers a last task.                                  *)
LEMMA LastPublished ==
  ASSUME IInv, AtLast, Step
  PROVE  \/ results' = results
         \/ \E res \in Result : /\ results' = Published(results, res.claim, res)
                                /\ LastTask(res, input)
<1>1. PICK w \in Processes : Progress(w) \/ Deliver(w) \/ Trouble(w)
  BY DEF Step
<1>2. CASE Deliver(w)
  <2>1. proc[w].out # <<>> /\ proc[w].out \in Seq(Result)
    BY <1>2, ProcFacts DEF Deliver, Sent, Unqueue, IInv, LoopInv
  <2>2. Head(proc[w].out) = proc[w].out[1] /\ 1 \in 1..Len(proc[w].out)
        /\ Head(proc[w].out) \in Result
    BY <2>1
  <2>3. LastTask(Head(proc[w].out), input)
    BY <2>2 DEF AtLast
  <2> QED
    BY <1>2, <2>2, <2>3 DEF Deliver
<1>3. CASE Progress(w) \/ Trouble(w)
  BY <1>3 DEF Progress, Trouble, Receive, Handle, Raises
<1> QED
  BY <1>1, <1>2, <1>3

(* What has gone wrong stays so.                                           *)
LEMMA TroubleGrows ==
  ASSUME IInv, Step, Disruptions' = 0, trouble'.faults = 0
  PROVE  Disruptions = 0 /\ trouble.faults = 0 /\ trouble'.evictions = 0
<1>1. PICK w \in Processes : Progress(w) \/ Deliver(w) \/ Trouble(w)
  BY DEF Step
<1>2. LoopInv(Record, Result) /\ trouble \in [Kinds -> Nat]
  BY ProcFacts, <1>1 DEF IInv, LoopInv
<1>3. trouble' \in [Kinds -> Nat]
  <2>1. IInv'
    BY InvNext DEF Next
  <2> QED
    BY <2>1 DEF IInv, LoopInv, LoopTypeOK, Kinds
<1>4. /\ \A k \in Kinds : trouble[k] \in Nat /\ trouble'[k] \in Nat
      /\ Kinds = {"crashes", "evictions", "stops", "faults"}
  BY <1>2, <1>3 DEF Kinds
<1>5. Disruptions \in Nat /\ trouble.faults \in Nat /\ trouble'.evictions = 0
  BY <1>4 DEF Disruptions
<1>6. CASE (Turn(w) \/ Upset(w)) /\ UNCHANGED <<input, results>>
  <2>1. \/ UNCHANGED <<trouble.faults, Disruptions>>
        \/ trouble'.faults = trouble.faults + 1 /\ UNCHANGED Disruptions
        \/ Disruptions' = Disruptions + 1 /\ UNCHANGED trouble.faults
    BY <1>2, <1>6, TurnTrouble
  <2> HIDE DEF Disruptions
  <2> QED
    BY <1>5, <2>1
<1>7. CASE Deliver(w) \/ (\E p \in Partitions : Receive(w, p)) \/ Handle(w) \/ Raises(w)
  <2>1. UNCHANGED trouble
    BY <1>7 DEF Deliver, Sent, Receive, Poll, Handle, Produce, Raises
  <2> QED
    BY <1>5, <2>1 DEF Disruptions
<1> QED
  BY <1>1, <1>6, <1>7 DEF Progress, Trouble

(* Without a disruption an agent has one result for a task at most.        *)
LEMMA AnsweredOnce ==
  ASSUME IInv, RelayInv, Disruptions = 0, NEW p \in Partitions,
         NEW i \in 1..Len(results[p]), NEW j \in 1..Len(results[p]),
         results[p][i].agent = results[p][j].agent,
         results[p][i].round = results[p][j].round
  PROVE  i = j
<1> SUFFICES ASSUME i # j PROVE FALSE
  OBVIOUS
<1> DEFINE a == results[p][i].agent
           r == results[p][i].round
           mine == Reports(results, a, p, r)
           pots == Pots(Slot, Told(results), proc, owner, acked)
           E == Extra(Lane, pots)
<1>1. results \in [Partitions -> Seq(Result)]
  BY DEF IInv
<1>2. a \in Groups /\ r \in Nat
  <2>1. results[p][i] \in Result
    BY <1>1
  <2> QED
    BY <2>1, SlotType DEF RelayInv, LogOK
<1>3. i \in mine /\ j \in mine
  BY DEF Reports
<1>4. Told(results)[<<<<a, p>>, r>>] = Cardinality(mine)
      /\ IsFiniteSet(mine) /\ Cardinality(mine) \in Nat
  <2>1. \A g \in Groups, q \in Partitions, m \in Nat :
          /\ Told(results)[<<<<g, q>>, m>>] = Cardinality(Reports(results, g, q, m))
          /\ IsFiniteSet(Reports(results, g, q, m))
          /\ Cardinality(Reports(results, g, q, m)) \in Nat
    BY <1>1, ToldType, ReportsFinite
  <2> HIDE DEF a, r
  <2> QED
    BY <1>2, <2>1
<1>5. IsFiniteSet(E) /\ Cardinality(E) <= 0
  BY DEF RelayInv, SurplusBounded
<1> HIDE DEF a, r, mine
<1>6. Cardinality(mine) >= 2
  <2>1. Cardinality({i} \cup {j}) = 1 + 1
    <3>1. IsFiniteSet({i}) /\ Cardinality({i}) = 1 /\ j \notin {i}
      BY FS_Singleton
    <3> QED
      BY <3>1, FS_AddElement
  <2>2. {i} \cup {j} \subseteq mine
    BY <1>3
  <2> QED
    BY <1>4, <2>1, <2>2, FS_Subset
<1>7. <<<<a, p>>, r>> \in Lane \X Nat
  BY <1>2 DEF Lane
<1>8. pots[<<<<a, p>>, r>>] = Cardinality(mine) + Chances(Slot, a, p, r, proc, owner, acked)
  BY <1>4, <1>7 DEF Pots
<1>9. Chances(Slot, a, p, r, proc, owner, acked) \in Nat
  BY ChancesNat
<1> HIDE DEF pots
<1>10. 2 \in 2..pots[<<<<a, p>>, r>>]
  BY <1>4, <1>6, <1>8, <1>9
<1>11. <<<<a, p>>, r, 2>> \in E
  BY <1>2, <1>10 DEF Extra, Lane
<1> HIDE DEF E
<1>12. E = {}
  <2>1. Cardinality(E) \in Nat
    BY <1>5, FS_CardinalityType
  <2>2. Cardinality(E) = 0
    BY <1>5, <2>1
  <2> QED
    BY <1>5, <2>2, FS_EmptySet
<1> QED
  BY <1>11, <1>12

===============================================================================
