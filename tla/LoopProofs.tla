------------------------------ MODULE LoopProofs ------------------------------
(***************************************************************************)
(* What the loop guarantees whatever is done with a record: lemmas for the *)
(* theorems about Worker and Orchestrator, for every number of processes,  *)
(* groups and partitions and every bound on what goes wrong.               *)
(***************************************************************************)
EXTENDS Loop, FiniteSetTheorems, TLAPS

-------------------------------------------------------------------------------
(* The invariant of the loop.                                              *)

(* The record that a process with state r has in hand.                     *)
RecordOf(r, topic) == topic[r.msg.part][r.msg.off + 1]

(* A process at work has a record of the topic in hand.                    *)
HandOK(r, topic) ==
  r.pc \in Busy => r.msg \in Position /\ r.msg.off < Len(topic[r.msg.part])

(* An owner of a partition is at its committed offset, or one record past  *)
(* it with that record in hand: this is what makes commits contiguous.     *)
CursorOK(w, r, own, ack) ==
  \A p \in Partitions :
    own[GroupOf[w]][p] = w =>
      IF r.pc \in Busy /\ r.msg.part = p
        THEN r.msg.off = ack[GroupOf[w]][p] /\ r.cursor[p] = r.msg.off + 1
        ELSE r.cursor[p] = ack[GroupOf[w]][p]

(* No commit is past the end of the topic.                                 *)
CommitsBounded(ack, topic) ==
  \A g \in Groups, p \in Partitions : ack[g][p] <= Len(topic[p])

LoopInv(Record, Output) ==
  /\ input \in [Partitions -> Seq(Record)]
  /\ LoopTypeOK(Output)
  /\ CommitsBounded(acked, input)
  /\ \A w \in Processes : HandOK(proc[w], input) /\ CursorOK(w, proc[w], owner, acked)

Kinds == {"crashes", "evictions", "stops", "faults"}

(* The other processes do not notice a step of w.                          *)
OthersRest(w) == \A v \in Processes \ {w} : proc'[v] = proc[v]

-------------------------------------------------------------------------------
(* What the steps do to the process that takes them.                       *)

(* Everything about the state of w that a step of w may rely on.           *)
LEMMA ProcFacts ==
  ASSUME NEW Output, LoopTypeOK(Output), NEW w \in Processes
  PROVE  /\ proc \in [Processes -> Process(Output)]
         /\ proc[w] \in Process(Output)
         /\ proc[w].pc \in States /\ proc[w].stop \in BOOLEAN
         /\ proc[w].msg \in Position \cup {NoMsg}
         /\ proc[w].out \in Seq(Output)
         /\ proc[w].cursor \in [Partitions -> Nat]
         /\ owner \in [Groups -> [Partitions -> Processes \cup {NoProcess}]]
         /\ acked \in [Groups -> [Partitions -> Nat]]
         /\ trouble \in [Kinds -> Nat]
         /\ GroupOf[w] \in Groups /\ w # NoProcess
<1>1. /\ proc \in [Processes -> Process(Output)]
      /\ owner \in [Groups -> [Partitions -> Processes \cup {NoProcess}]]
      /\ acked \in [Groups -> [Partitions -> Nat]]
      /\ trouble \in [Kinds -> Nat]
  BY DEF LoopTypeOK, Kinds
<1>2. proc[w] \in Process(Output)
  BY <1>1
<1>3. GroupOf[w] \in Groups /\ w # NoProcess
  BY LoopAssumption DEF LoopAssumption
<1> QED
  BY <1>1, <1>2, <1>3 DEF Process

(* Goto moves the program counter of one process and nothing else.         *)
LEMMA GotoLemma ==
  ASSUME NEW Output, LoopTypeOK(Output), NEW w \in Processes, NEW pc \in States,
         Goto(w, pc)
  PROVE  /\ proc' \in [Processes -> Process(Output)] /\ OthersRest(w)
         /\ proc'[w].pc = pc /\ proc'[w].msg = proc[w].msg
         /\ proc'[w].out = proc[w].out /\ proc'[w].cursor = proc[w].cursor
<1> DEFINE r == [proc[w] EXCEPT !.pc = pc]
<1>1. /\ r \in Process(Output)
      /\ r.pc = pc /\ r.msg = proc[w].msg /\ r.out = proc[w].out /\ r.cursor = proc[w].cursor
  BY ProcFacts DEF Process
<1>2. proc' = [proc EXCEPT ![w] = r]
  BY DEF Goto
<1> HIDE DEF r
<1> QED
  BY <1>1, <1>2, ProcFacts DEF OthersRest

(* A process that ends is a fresh one that owns nothing.                   *)
LEMMA DieLemma ==
  ASSUME NEW Output, LoopTypeOK(Output), NEW w \in Processes, Die(w)
  PROVE  /\ proc' \in [Processes -> Process(Output)] /\ OthersRest(w)
         /\ proc'[w].pc = "down" /\ proc'[w].out = <<>>
         /\ acked' = acked /\ Released(w)
<1>1. Idle \in Process(Output) /\ Idle.pc = "down" /\ Idle.out = <<>>
  BY DEF Idle, Process, States
<1>2. proc' = [proc EXCEPT ![w] = Idle] /\ acked' = acked /\ Released(w)
  BY DEF Die
<1> QED
  BY <1>1, <1>2, ProcFacts DEF OthersRest

(* Releasing takes every partition from w and changes no other owner.      *)
LEMMA ReleasedLemma ==
  ASSUME NEW Output, LoopTypeOK(Output), NEW w \in Processes, Released(w)
  PROVE  /\ owner' \in [Groups -> [Partitions -> Processes \cup {NoProcess}]]
         /\ \A p \in Partitions : owner'[GroupOf[w]][p] # w
         /\ \A g \in Groups, p \in Partitions :
              owner'[g][p] = owner[g][p] \/ owner'[g][p] = NoProcess
<1>1. /\ owner \in [Groups -> [Partitions -> Processes \cup {NoProcess}]]
      /\ GroupOf[w] \in Groups /\ w # NoProcess
  BY ProcFacts
<1> QED
  BY <1>1 DEF Released

(* A count only grows, and a fault leaves its mark.                        *)
LEMMA CountLemma ==
  ASSUME NEW Output, LoopTypeOK(Output), NEW kind \in Kinds, Count(kind)
  PROVE  /\ trouble' \in [Kinds -> Nat]
         /\ kind = "faults" =>
              trouble'.faults # 0 /\ trouble'.faults = trouble.faults + 1
         /\ kind # "faults" => trouble'.faults = trouble.faults
  BY DEF LoopTypeOK, Count, Kinds

(* The queue of a producer loses its head.                                 *)
LEMMA UnqueueLemma ==
  ASSUME NEW Output, LoopTypeOK(Output), NEW w \in Processes, Unqueue(w)
  PROVE  /\ proc' \in [Processes -> Process(Output)] /\ OthersRest(w)
         /\ proc'[w].pc = proc[w].pc /\ proc'[w].msg = proc[w].msg
         /\ proc'[w].cursor = proc[w].cursor /\ proc'[w].out = Tail(proc[w].out)
         /\ proc[w].out \in Seq(Output) /\ proc[w].out # <<>>
         /\ UNCHANGED <<owner, acked>>
<1> DEFINE out == Tail(proc[w].out)
           r == [proc[w] EXCEPT !.out = out]
<1>1. /\ proc[w].out # <<>> /\ UNCHANGED <<owner, acked>>
      /\ proc' = [proc EXCEPT ![w] = r]
  BY DEF Unqueue
<1>2. /\ proc \in [Processes -> Process(Output)]
      /\ proc[w] \in Process(Output) /\ proc[w].out \in Seq(Output)
  BY ProcFacts
<1>3. out \in Seq(Output)
  BY <1>1, <1>2
<1> HIDE DEF out
<1>4. /\ r \in Process(Output) /\ r.pc = proc[w].pc /\ r.msg = proc[w].msg
      /\ r.cursor = proc[w].cursor /\ r.out = out
  BY <1>2, <1>3 DEF Process
<1> HIDE DEF r
<1> QED
  BY <1>1, <1>2, <1>4 DEF OthersRest, out

(* The queue of a producer gets a last record.                             *)
LEMMA ProduceLemma ==
  ASSUME NEW Output, LoopTypeOK(Output), NEW w \in Processes, NEW rec \in Output,
         Produce(w, rec)
  PROVE  /\ proc' \in [Processes -> Process(Output)] /\ OthersRest(w)
         /\ proc[w].pc = "work" /\ proc'[w].pc = "flush" /\ proc'[w].msg = proc[w].msg
         /\ proc'[w].cursor = proc[w].cursor
         /\ Len(proc[w].out) + 1 \in 1..Len(proc'[w].out)
         /\ proc'[w].out[Len(proc[w].out) + 1] = rec
         /\ \A i \in 1..Len(proc[w].out) :
              i \in 1..Len(proc'[w].out) /\ proc'[w].out[i] = proc[w].out[i]
         /\ UNCHANGED <<owner, acked, trouble>>
<1> DEFINE out == Append(proc[w].out, rec)
           r == [proc[w] EXCEPT !.out = out, !.pc = "flush"]
<1>1. /\ proc[w].pc = "work" /\ UNCHANGED <<owner, acked, trouble>>
      /\ proc' = [proc EXCEPT ![w] = r]
  BY DEF Produce
<1>2. /\ proc \in [Processes -> Process(Output)]
      /\ proc[w] \in Process(Output) /\ proc[w].out \in Seq(Output)
  BY ProcFacts
<1>3. /\ out \in Seq(Output)
      /\ Len(proc[w].out) + 1 \in 1..Len(out)
      /\ out[Len(proc[w].out) + 1] = rec
      /\ \A i \in 1..Len(proc[w].out) : i \in 1..Len(out) /\ out[i] = proc[w].out[i]
  BY <1>2
<1> HIDE DEF out
<1>4. /\ r \in Process(Output) /\ r.pc = "flush" /\ r.msg = proc[w].msg
      /\ r.cursor = proc[w].cursor /\ r.out = out
  BY <1>2, <1>3 DEF Process, States, Busy
<1> HIDE DEF r
<1> QED
  BY <1>1, <1>2, <1>3, <1>4 DEF OthersRest

(* A record that is polled is the next one of a partition of the process.  *)
LEMMA PollLemma ==
  ASSUME NEW Output, LoopTypeOK(Output), NEW w \in Processes, NEW p \in Partitions,
         NEW next \in {"work", "commit"}, Poll(w, p, next)
  PROVE  LET off == proc[w].cursor[p]
         IN  /\ proc' \in [Processes -> Process(Output)] /\ OthersRest(w)
             /\ proc[w].pc = "poll" /\ proc'[w].pc = next
             /\ proc'[w].msg = [part |-> p, off |-> off] /\ proc'[w].out = proc[w].out
             /\ off \in Nat /\ off < Len(input[p]) /\ proc'[w].cursor[p] = off + 1
             /\ \A q \in Partitions \ {p} : proc'[w].cursor[q] = proc[w].cursor[q]
             /\ owner[GroupOf[w]][p] = w
             /\ UNCHANGED <<owner, acked, trouble>>
<1> DEFINE off == proc[w].cursor[p]
           cur == [proc[w].cursor EXCEPT ![p] = off + 1]
           msg == [part |-> p, off |-> off]
           r == [proc[w] EXCEPT !.msg = msg, !.cursor = cur, !.pc = next]
<1>1. /\ proc[w].pc = "poll" /\ owner[GroupOf[w]][p] = w /\ off < Len(input[p])
      /\ proc' = [proc EXCEPT ![w] = r]
      /\ UNCHANGED <<owner, acked, trouble>>
  BY DEF Poll, Owns
<1>2. /\ proc \in [Processes -> Process(Output)] /\ proc[w] \in Process(Output)
      /\ proc[w].cursor \in [Partitions -> Nat]
  BY ProcFacts
<1>3. /\ cur \in [Partitions -> Nat] /\ cur[p] = off + 1 /\ off \in Nat
      /\ \A q \in Partitions \ {p} : cur[q] = proc[w].cursor[q]
  BY <1>2
<1>4. msg \in Position
  BY <1>3 DEF Position
<1> HIDE DEF cur, msg
<1>5. /\ r \in Process(Output) /\ r.pc = next /\ r.msg = msg /\ r.cursor = cur
      /\ r.out = proc[w].out
  BY <1>2, <1>3, <1>4 DEF Process, States, Busy
<1> HIDE DEF r
<1> QED
  BY <1>1, <1>2, <1>3, <1>5 DEF OthersRest, msg

(* A commit moves on by the record in hand.                                *)
LEMMA CommitLemma ==
  ASSUME NEW Record, NEW Output, LoopInv(Record, Output), NEW w \in Processes, Commit(w)
  PROVE  LET g == GroupOf[w]
             p == proc[w].msg.part
             off == proc[w].msg.off
         IN  /\ proc' \in [Processes -> Process(Output)] /\ OthersRest(w)
             /\ proc[w].pc = "commit" /\ proc'[w].pc \notin Busy /\ proc'[w].pc # "down"
             /\ proc'[w].out = proc[w].out /\ proc'[w].cursor = proc[w].cursor
             /\ g \in Groups /\ p \in Partitions /\ off \in Nat /\ off < Len(input[p])
             /\ owner[g][p] = w /\ acked[g][p] = off
             /\ acked' \in [Groups -> [Partitions -> Nat]] /\ acked'[g][p] = off + 1
             /\ \A h \in Groups, q \in Partitions :
                  h # g \/ q # p => acked'[h][q] = acked[h][q]
             /\ UNCHANGED <<owner, trouble>>
<1> DEFINE g == GroupOf[w]
           p == proc[w].msg.part
           off == proc[w].msg.off
           pc == IF proc[w].stop THEN "drain" ELSE "poll"
           r == [proc[w] EXCEPT !.msg = NoMsg, !.pc = pc]
<1>1. LoopTypeOK(Output)
  BY DEF LoopInv
<1>2. /\ proc[w].pc = "commit" /\ owner[g][p] = w
      /\ acked' = [acked EXCEPT ![g][p] = off + 1]
      /\ proc' = [proc EXCEPT ![w] = r]
      /\ UNCHANGED <<owner, trouble>>
  BY DEF Commit, Owns
<1>3. /\ proc \in [Processes -> Process(Output)] /\ proc[w] \in Process(Output)
      /\ g \in Groups /\ acked \in [Groups -> [Partitions -> Nat]]
  BY <1>1, ProcFacts
<1>4. HandOK(proc[w], input) /\ CursorOK(w, proc[w], owner, acked)
  BY DEF LoopInv
<1>5. p \in Partitions /\ off \in Nat /\ off < Len(input[p])
  BY <1>2, <1>4 DEF HandOK, Busy, Position
<1>6. off = acked[g][p]
  BY <1>2, <1>4, <1>5 DEF CursorOK, Busy
<1>7. pc \in States /\ pc \notin Busy /\ pc # "down"
  BY DEF States, Busy
<1> HIDE DEF pc
<1>8. /\ r \in Process(Output) /\ r.pc = pc /\ r.cursor = proc[w].cursor
      /\ r.out = proc[w].out
  BY <1>3, <1>7 DEF Process
<1> HIDE DEF r
<1>9. /\ proc' \in [Processes -> Process(Output)] /\ proc'[w] = r /\ OthersRest(w)
  BY <1>2, <1>3, <1>8 DEF OthersRest
<1> HIDE DEF off
<1>10. /\ acked' \in [Groups -> [Partitions -> Nat]]
       /\ acked'[g][p] = off + 1
       /\ \A h \in Groups, q \in Partitions :
            h # g \/ q # p => acked'[h][q] = acked[h][q]
  BY <1>2, <1>3, <1>5
<1> QED
  BY <1>2, <1>3, <1>5, <1>6, <1>7, <1>8, <1>9, <1>10 DEF off

-------------------------------------------------------------------------------
(* Every step of the loop keeps its invariant.                             *)

(* A step of w keeps the invariant of the loop if w itself does.           *)
LEMMA LoopFrame ==
  ASSUME NEW Record, NEW Output, LoopInv(Record, Output), NEW w \in Processes,
         input' = input, OthersRest(w),
         proc' \in [Processes -> Process(Output)],
         owner' \in [Groups -> [Partitions -> Processes \cup {NoProcess}]],
         acked' \in [Groups -> [Partitions -> Nat]],
         trouble' \in [Kinds -> Nat],
         \A g \in Groups, p \in Partitions :
           owner'[g][p] = owner[g][p] \/ owner'[g][p] = NoProcess \/ owner'[g][p] = w,
         \A g \in Groups, p \in Partitions :
           acked'[g][p] = acked[g][p] \/ owner[g][p] = w,
         HandOK(proc'[w], input),
         CursorOK(w, proc'[w], owner', acked'),
         CommitsBounded(acked', input)
  PROVE  LoopInv(Record, Output)'
<1>1. LoopTypeOK(Output)'
  BY DEF LoopTypeOK, Kinds
<1>2. ASSUME NEW v \in Processes \ {w}
      PROVE  HandOK(proc'[v], input) /\ CursorOK(v, proc'[v], owner', acked')
  <2>1. /\ HandOK(proc[v], input) /\ CursorOK(v, proc[v], owner, acked)
        /\ proc'[v] = proc[v]
    BY DEF LoopInv, OthersRest
  <2>2. GroupOf[v] \in Groups /\ v # NoProcess
    BY LoopAssumption DEF LoopAssumption
  <2>3. \A p \in Partitions : owner'[GroupOf[v]][p] = v =>
          /\ owner[GroupOf[v]][p] = v
          /\ acked'[GroupOf[v]][p] = acked[GroupOf[v]][p]
    BY <2>2
  <2> QED
    BY <2>1, <2>3 DEF CursorOK
<1> QED
  BY <1>1, <1>2 DEF LoopInv

(* What a step of the loop's own does to what is in hand.                  *)
Rests(w) ==
  /\ acked' = acked
  /\ \/ proc'[w].pc = "down" /\ proc'[w].out = <<>>
     \/ proc[w].pc \notin Busy /\ proc'[w].pc \notin Busy /\ proc'[w].out = proc[w].out

Keeps(w) ==
  /\ acked' = acked
  /\ proc'[w].pc = proc[w].pc /\ proc'[w].msg = proc[w].msg /\ proc'[w].out = proc[w].out

Flushes(w) ==
  /\ acked' = acked
  /\ proc[w].pc = "flush" /\ proc'[w].pc = "commit"
  /\ proc'[w].msg = proc[w].msg /\ proc'[w].out = proc[w].out
  /\ proc[w].out = <<>> \/ (trouble'.faults # 0 /\ trouble'.faults = trouble.faults + 1)

Loses(w) ==
  /\ acked' = acked /\ trouble'.faults # 0 /\ trouble'.faults = trouble.faults + 1
  /\ proc'[w].pc = proc[w].pc /\ proc'[w].msg = proc[w].msg
  /\ proc[w].out # <<>> /\ proc'[w].out = Tail(proc[w].out)

Effect(w) ==
  /\ OthersRest(w)
  /\ trouble'.faults = 0 => trouble.faults = 0
  /\ trouble.faults <= trouble'.faults
  /\ Rests(w) \/ Keeps(w) \/ Flushes(w) \/ Loses(w) \/ Commit(w)

(* A process that ends has nothing in hand and owns nothing.               *)
LEMMA DieStep ==
  ASSUME NEW Record, NEW Output, LoopInv(Record, Output), NEW w \in Processes,
         input' = input, Die(w), trouble' \in [Kinds -> Nat]
  PROVE  LoopInv(Record, Output)' /\ OthersRest(w) /\ proc'[w].pc = "down" /\ Rests(w)
<1>1. LoopTypeOK(Output) /\ CommitsBounded(acked, input)
  BY DEF LoopInv
<1>2. /\ proc' \in [Processes -> Process(Output)] /\ OthersRest(w)
      /\ proc'[w].pc = "down" /\ proc'[w].out = <<>>
      /\ acked' = acked /\ Released(w)
  BY <1>1, DieLemma
<1>3. /\ owner' \in [Groups -> [Partitions -> Processes \cup {NoProcess}]]
      /\ \A p \in Partitions : owner'[GroupOf[w]][p] # w
      /\ \A g \in Groups, p \in Partitions :
           owner'[g][p] = owner[g][p] \/ owner'[g][p] = NoProcess
  BY <1>1, <1>2, ReleasedLemma
<1>4. HandOK(proc'[w], input) /\ CursorOK(w, proc'[w], owner', acked')
  BY <1>2, <1>3 DEF HandOK, CursorOK, Busy
<1>5. acked' \in [Groups -> [Partitions -> Nat]]
  BY <1>1, <1>2, ProcFacts
<1> QED
  BY <1>1, <1>2, <1>3, <1>4, <1>5, LoopFrame DEF Rests

(* A step that leaves cursor, record and owners alone.                     *)
LEMMA MoveStep ==
  ASSUME NEW Record, NEW Output, LoopInv(Record, Output), NEW w \in Processes,
         input' = input, OthersRest(w), UNCHANGED <<owner, acked>>,
         proc' \in [Processes -> Process(Output)], trouble' \in [Kinds -> Nat],
         proc'[w].cursor = proc[w].cursor,
         \/ proc[w].pc \in Busy /\ proc'[w].pc \in Busy /\ proc'[w].msg = proc[w].msg
         \/ proc[w].pc \notin Busy /\ proc'[w].pc \notin Busy
  PROVE  LoopInv(Record, Output)'
<1>1. /\ LoopTypeOK(Output) /\ CommitsBounded(acked, input)
      /\ HandOK(proc[w], input) /\ CursorOK(w, proc[w], owner, acked)
  BY DEF LoopInv
<1>2. HandOK(proc'[w], input) /\ CursorOK(w, proc'[w], owner', acked')
  BY <1>1 DEF HandOK, CursorOK
<1>3. /\ owner \in [Groups -> [Partitions -> Processes \cup {NoProcess}]]
      /\ acked \in [Groups -> [Partitions -> Nat]]
  BY <1>1, ProcFacts
<1> QED
  BY <1>1, <1>2, <1>3, LoopFrame

(* A producer queue that loses its head moves nothing else.                *)
LEMMA SentStep ==
  ASSUME NEW Record, NEW Output, LoopInv(Record, Output), NEW w \in Processes,
         input' = input, Unqueue(w), trouble' \in [Kinds -> Nat]
  PROVE  LoopInv(Record, Output)'
<1>1. LoopTypeOK(Output)
  BY DEF LoopInv
<1>2. /\ proc' \in [Processes -> Process(Output)] /\ OthersRest(w)
      /\ proc'[w].pc = proc[w].pc /\ proc'[w].msg = proc[w].msg
      /\ proc'[w].cursor = proc[w].cursor /\ UNCHANGED <<owner, acked>>
  BY <1>1, UnqueueLemma
<1> QED
  BY <1>2, MoveStep

(* A record that is polled is the one after the last commit.               *)
LEMMA PollStep ==
  ASSUME NEW Record, NEW Output, LoopInv(Record, Output), NEW w \in Processes,
         input' = input, NEW p \in Partitions, NEW next \in {"work", "commit"},
         Poll(w, p, next)
  PROVE  LoopInv(Record, Output)'
<1> DEFINE off == proc[w].cursor[p]
<1>1. /\ LoopTypeOK(Output) /\ CommitsBounded(acked, input)
      /\ CursorOK(w, proc[w], owner, acked)
  BY DEF LoopInv
<1>2. /\ proc' \in [Processes -> Process(Output)] /\ OthersRest(w)
      /\ proc[w].pc = "poll" /\ proc'[w].pc = next
      /\ proc'[w].msg = [part |-> p, off |-> off]
      /\ off \in Nat /\ off < Len(input[p]) /\ proc'[w].cursor[p] = off + 1
      /\ \A q \in Partitions \ {p} : proc'[w].cursor[q] = proc[w].cursor[q]
      /\ owner[GroupOf[w]][p] = w
      /\ UNCHANGED <<owner, acked, trouble>>
  BY <1>1, PollLemma
<1>3. /\ owner \in [Groups -> [Partitions -> Processes \cup {NoProcess}]]
      /\ acked \in [Groups -> [Partitions -> Nat]] /\ trouble \in [Kinds -> Nat]
  BY <1>1, ProcFacts
<1>4. /\ off = acked[GroupOf[w]][p]
      /\ \A q \in Partitions \ {p} :
           owner[GroupOf[w]][q] = w => proc[w].cursor[q] = acked[GroupOf[w]][q]
  BY <1>1, <1>2 DEF CursorOK, Busy
<1> HIDE DEF off
<1>5. /\ proc'[w].msg \in Position /\ proc'[w].msg.part = p /\ proc'[w].msg.off = off
      /\ proc'[w].pc \in Busy
  BY <1>2 DEF Position, Busy
<1>6. HandOK(proc'[w], input)
  BY <1>2, <1>5 DEF HandOK
<1>7. CursorOK(w, proc'[w], owner', acked')
  BY <1>2, <1>4, <1>5 DEF CursorOK
<1> QED
  BY <1>1, <1>2, <1>3, <1>6, <1>7, LoopFrame

(* A record that is produced leaves the one in hand where it is.           *)
LEMMA ProduceStep ==
  ASSUME NEW Record, NEW Output, LoopInv(Record, Output), NEW w \in Processes,
         input' = input, NEW rec \in Output, Produce(w, rec)
  PROVE  LoopInv(Record, Output)'
<1>1. LoopTypeOK(Output)
  BY DEF LoopInv
<1>2. /\ proc' \in [Processes -> Process(Output)] /\ OthersRest(w)
      /\ proc[w].pc = "work" /\ proc'[w].pc = "flush" /\ proc'[w].msg = proc[w].msg
      /\ proc'[w].cursor = proc[w].cursor /\ UNCHANGED <<owner, acked, trouble>>
  BY <1>1, ProduceLemma
<1>3. trouble' \in [Kinds -> Nat]
  BY <1>1, <1>2, ProcFacts
<1> QED
  BY <1>2, <1>3, MoveStep DEF Busy

(* A record that is given up is committed like any other.                  *)
LEMMA GiveUpStep ==
  ASSUME NEW Record, NEW Output, LoopInv(Record, Output), NEW w \in Processes,
         input' = input, proc[w].pc \in Busy, Goto(w, "commit"),
         UNCHANGED <<owner, acked>>, trouble' \in [Kinds -> Nat]
  PROVE  /\ LoopInv(Record, Output)' /\ OthersRest(w)
         /\ proc'[w].pc = "commit" /\ proc'[w].msg = proc[w].msg
         /\ proc'[w].out = proc[w].out
<1>1. LoopTypeOK(Output)
  BY DEF LoopInv
<1>2. /\ proc' \in [Processes -> Process(Output)] /\ OthersRest(w)
      /\ proc'[w].pc = "commit" /\ proc'[w].msg = proc[w].msg
      /\ proc'[w].out = proc[w].out /\ proc'[w].cursor = proc[w].cursor
  BY <1>1, GotoLemma DEF States, Busy
<1> QED
  BY <1>2, MoveStep DEF Busy

(* A partition that is assigned is read from its committed offset on.      *)
LEMMA AssignStep ==
  ASSUME NEW Record, NEW Output, LoopInv(Record, Output), NEW w \in Processes,
         input' = input, NEW p \in Partitions, Assign(w, p)
  PROVE  LoopInv(Record, Output)' /\ OthersRest(w) /\ Keeps(w) /\ trouble' = trouble
<1> DEFINE g == GroupOf[w]
           cur == [proc[w].cursor EXCEPT ![p] = acked[g][p]]
           r == [proc[w] EXCEPT !.cursor = cur]
<1>1. /\ proc[w].pc = "poll"
      /\ owner' = [owner EXCEPT ![g][p] = w]
      /\ proc' = [proc EXCEPT ![w] = r]
      /\ UNCHANGED <<acked, trouble>>
  BY DEF Assign, AssignAt
<1>2. /\ LoopTypeOK(Output) /\ CommitsBounded(acked, input)
      /\ CursorOK(w, proc[w], owner, acked)
  BY DEF LoopInv
<1>3. /\ proc \in [Processes -> Process(Output)] /\ proc[w] \in Process(Output)
      /\ proc[w].cursor \in [Partitions -> Nat] /\ g \in Groups
      /\ owner \in [Groups -> [Partitions -> Processes \cup {NoProcess}]]
      /\ acked \in [Groups -> [Partitions -> Nat]] /\ trouble \in [Kinds -> Nat]
  BY <1>2, ProcFacts
<1>4. cur \in [Partitions -> Nat] /\ cur[p] = acked[g][p]
      /\ \A q \in Partitions \ {p} : cur[q] = proc[w].cursor[q]
  BY <1>3
<1> HIDE DEF cur
<1>5. /\ r \in Process(Output) /\ r.pc = proc[w].pc /\ r.msg = proc[w].msg
      /\ r.out = proc[w].out /\ r.cursor = cur
  BY <1>3, <1>4 DEF Process
<1> HIDE DEF r
<1>6. /\ proc' \in [Processes -> Process(Output)] /\ proc'[w] = r /\ OthersRest(w)
  BY <1>1, <1>3, <1>5 DEF OthersRest
<1>7. /\ owner' \in [Groups -> [Partitions -> Processes \cup {NoProcess}]]
      /\ \A h \in Groups, q \in Partitions :
           owner'[h][q] = owner[h][q] \/ owner'[h][q] = w
      /\ \A q \in Partitions \ {p} : owner'[g][q] = owner[g][q]
  BY <1>1, <1>3
<1>8. HandOK(proc'[w], input)
  BY <1>1, <1>5, <1>6 DEF HandOK, Busy
<1>9. CursorOK(w, proc'[w], owner', acked')
  BY <1>1, <1>2, <1>4, <1>5, <1>6, <1>7 DEF CursorOK, Busy
<1> QED
  BY <1>1, <1>2, <1>3, <1>5, <1>6, <1>7, <1>8, <1>9, LoopFrame DEF Keeps

(* A partition that is taken away leaves the loop where it is.             *)
LEMMA TakenStep ==
  ASSUME NEW Record, NEW Output, LoopInv(Record, Output), NEW w \in Processes,
         UNCHANGED <<input, acked, proc>>,
         owner' \in [Groups -> [Partitions -> Processes \cup {NoProcess}]],
         \A g \in Groups, p \in Partitions :
           owner'[g][p] = owner[g][p] \/ owner'[g][p] = NoProcess,
         trouble' \in [Kinds -> Nat]
  PROVE  LoopInv(Record, Output)' /\ OthersRest(w) /\ Keeps(w)
<1>1. /\ LoopTypeOK(Output) /\ CommitsBounded(acked, input)
      /\ HandOK(proc[w], input) /\ CursorOK(w, proc[w], owner, acked)
  BY DEF LoopInv
<1>2. /\ proc \in [Processes -> Process(Output)] /\ acked \in [Groups -> [Partitions -> Nat]]
      /\ GroupOf[w] \in Groups /\ w # NoProcess
  BY <1>1, ProcFacts
<1>3. CursorOK(w, proc'[w], owner', acked')
  BY <1>1, <1>2 DEF CursorOK
<1>4. OthersRest(w) /\ Keeps(w)
  BY DEF OthersRest, Keeps
<1> QED
  BY <1>1, <1>2, <1>3, <1>4, LoopFrame

(* request_stop only leaves a mark.                                        *)
LEMMA StopStep ==
  ASSUME NEW Record, NEW Output, LoopInv(Record, Output), NEW w \in Processes,
         input' = input, RequestStop(w), trouble' \in [Kinds -> Nat]
  PROVE  LoopInv(Record, Output)' /\ OthersRest(w) /\ Keeps(w)
<1> DEFINE r == [proc[w] EXCEPT !.stop = TRUE]
<1>1. proc' = [proc EXCEPT ![w] = r] /\ UNCHANGED <<owner, acked>>
  BY DEF RequestStop
<1>2. LoopTypeOK(Output)
  BY DEF LoopInv
<1>3. proc \in [Processes -> Process(Output)] /\ proc[w] \in Process(Output)
  BY <1>2, ProcFacts
<1>4. /\ r \in Process(Output) /\ r.pc = proc[w].pc /\ r.msg = proc[w].msg
      /\ r.out = proc[w].out /\ r.cursor = proc[w].cursor
  BY <1>3 DEF Process
<1> HIDE DEF r
<1>5. /\ proc' \in [Processes -> Process(Output)] /\ proc'[w] = r /\ OthersRest(w)
  BY <1>1, <1>3, <1>4 DEF OthersRest
<1> QED
  BY <1>1, <1>4, <1>5, MoveStep DEF Keeps, Busy

(* A commit moves its owner and the group on by one record.                *)
LEMMA CommitStep ==
  ASSUME NEW Record, NEW Output, LoopInv(Record, Output), NEW w \in Processes,
         input' = input, Commit(w)
  PROVE  LoopInv(Record, Output)' /\ OthersRest(w) /\ trouble' = trouble
<1> DEFINE g == GroupOf[w]
           p == proc[w].msg.part
           off == proc[w].msg.off
<1>1. /\ LoopTypeOK(Output) /\ CommitsBounded(acked, input)
      /\ CursorOK(w, proc[w], owner, acked)
      /\ input \in [Partitions -> Seq(Record)]
  BY DEF LoopInv
<1>2. /\ proc' \in [Processes -> Process(Output)] /\ OthersRest(w)
      /\ proc[w].pc = "commit" /\ proc'[w].pc \notin Busy
      /\ proc'[w].cursor = proc[w].cursor
      /\ g \in Groups /\ p \in Partitions /\ off \in Nat /\ off < Len(input[p])
      /\ owner[g][p] = w /\ acked[g][p] = off
      /\ acked' \in [Groups -> [Partitions -> Nat]] /\ acked'[g][p] = off + 1
      /\ \A h \in Groups, q \in Partitions :
           h # g \/ q # p => acked'[h][q] = acked[h][q]
      /\ UNCHANGED <<owner, trouble>>
  BY CommitLemma
<1>3. /\ proc[w].cursor[p] = off + 1
      /\ \A q \in Partitions \ {p} : owner[g][q] = w => proc[w].cursor[q] = acked[g][q]
  BY <1>1, <1>2 DEF CursorOK, Busy
<1>4. /\ owner \in [Groups -> [Partitions -> Processes \cup {NoProcess}]]
      /\ trouble \in [Kinds -> Nat]
  BY <1>1, ProcFacts
<1> HIDE DEF g, p, off
<1>5. CommitsBounded(acked', input)
  <2>1. Len(input[p]) \in Nat
    BY <1>1, <1>2
  <2>2. off + 1 <= Len(input[p])
    BY <1>2, <2>1
  <2> QED
    BY <1>1, <1>2, <2>2 DEF CommitsBounded
<1>6. HandOK(proc'[w], input)
  BY <1>2 DEF HandOK
<1>7. CursorOK(w, proc'[w], owner', acked')
  BY <1>2, <1>3 DEF CursorOK, g
<1>8. \A h \in Groups, q \in Partitions : acked'[h][q] = acked[h][q] \/ owner[h][q] = w
  BY <1>2
<1> QED
  BY <1>2, <1>4, <1>5, <1>6, <1>7, <1>8, LoopFrame

(* What a process does of its own accord, and what happens to it, keeps the*)
(* invariant of the loop and has one of five effects on what is in hand.   *)
LEMMA TurnStep ==
  ASSUME NEW Record, NEW Output, LoopInv(Record, Output), NEW w \in Processes,
         input' = input, Turn(w) \/ Upset(w)
  PROVE  LoopInv(Record, Output)' /\ Effect(w)
<1>1. LoopTypeOK(Output)
  BY DEF LoopInv
<1>2. trouble \in [Kinds -> Nat] /\ GroupOf[w] \in Groups
      /\ owner \in [Groups -> [Partitions -> Processes \cup {NoProcess}]]
  BY <1>1, ProcFacts
<1>3. ASSUME NEW kind \in Kinds, Count(kind)
      PROVE  /\ trouble' \in [Kinds -> Nat]
             /\ kind = "faults" =>
                  trouble'.faults # 0 /\ trouble'.faults = trouble.faults + 1
             /\ kind # "faults" => trouble'.faults = trouble.faults
             /\ trouble'.faults = 0 => trouble.faults = 0
             /\ trouble.faults <= trouble'.faults
  <2>1. /\ trouble' \in [Kinds -> Nat]
        /\ kind = "faults" =>
             trouble'.faults # 0 /\ trouble'.faults = trouble.faults + 1
        /\ kind # "faults" => trouble'.faults = trouble.faults
    BY <1>1, <1>3, CountLemma
  <2>2. trouble.faults \in Nat
    BY <1>2 DEF Kinds
  <2> QED
    BY <2>1, <2>2
<1> HIDE DEF LoopInv
<1>4. ASSUME Start(w) \/ PollEmpty(w)
      PROVE  LoopInv(Record, Output)' /\ OthersRest(w) /\ Rests(w) /\ trouble' = trouble
  <2>1. PICK pc \in {"poll", "drain"} : Goto(w, pc)
    BY <1>4 DEF Start, PollEmpty
  <2>2. UNCHANGED <<owner, acked, trouble>> /\ proc[w].pc \notin Busy
    BY <1>4 DEF Start, PollEmpty, Busy
  <2>3. /\ proc' \in [Processes -> Process(Output)] /\ OthersRest(w)
        /\ proc'[w].pc = pc /\ proc'[w].cursor = proc[w].cursor
        /\ proc'[w].out = proc[w].out
    BY <1>1, <2>1, GotoLemma DEF States
  <2>4. proc'[w].pc \notin Busy
    BY <2>3 DEF Busy
  <2> QED
    BY <1>2, <2>2, <2>3, <2>4, MoveStep DEF Rests
<1>5. ASSUME NEW p \in Partitions, Revoke(w, p)
      PROVE  LoopInv(Record, Output)' /\ OthersRest(w) /\ Keeps(w) /\ trouble' = trouble
  <2>1. /\ owner' = [owner EXCEPT ![GroupOf[w]][p] = NoProcess]
        /\ UNCHANGED <<acked, proc, trouble>>
    BY <1>5 DEF Revoke
  <2>2. /\ owner' \in [Groups -> [Partitions -> Processes \cup {NoProcess}]]
        /\ \A g \in Groups, q \in Partitions :
             owner'[g][q] = owner[g][q] \/ owner'[g][q] = NoProcess
    BY <1>2, <2>1
  <2> QED
    BY <1>2, <2>1, <2>2, TakenStep
<1>6. ASSUME Evict(w)
      PROVE  LoopInv(Record, Output)' /\ OthersRest(w) /\ Keeps(w)
             /\ trouble'.faults = trouble.faults
  <2>1. Released(w) /\ Count("evictions") /\ UNCHANGED <<acked, proc>>
    BY <1>6 DEF Evict, Disrupted
  <2>2. trouble' \in [Kinds -> Nat] /\ trouble'.faults = trouble.faults
    BY <1>3, <2>1 DEF Kinds
  <2> QED
    BY <1>1, <2>1, <2>2, ReleasedLemma, TakenStep
<1>7. ASSUME FlushDone(w) \/ FlushTimeout(w)
      PROVE  LoopInv(Record, Output)' /\ OthersRest(w) /\ Flushes(w)
             /\ (trouble'.faults = 0 => trouble.faults = 0)
             /\ trouble.faults <= trouble'.faults
  <2>1. /\ proc[w].pc = "flush" /\ Goto(w, "commit") /\ UNCHANGED <<owner, acked>>
        /\ \/ proc[w].out = <<>> /\ UNCHANGED trouble
           \/ Count("faults")
    BY <1>7 DEF FlushDone, FlushTimeout, Fault
  <2>2. /\ trouble' \in [Kinds -> Nat]
        /\ \/ proc[w].out = <<>> /\ trouble' = trouble
           \/ trouble'.faults # 0 /\ trouble'.faults = trouble.faults + 1
        /\ (trouble'.faults = 0 => trouble.faults = 0)
        /\ trouble.faults <= trouble'.faults
    BY <1>2, <1>3, <2>1 DEF Kinds
  <2>3. /\ LoopInv(Record, Output)' /\ OthersRest(w)
        /\ proc'[w].pc = "commit" /\ proc'[w].msg = proc[w].msg
        /\ proc'[w].out = proc[w].out
    BY <2>1, <2>2, GiveUpStep DEF Busy
  <2> QED
    BY <2>1, <2>2, <2>3 DEF Flushes
<1>8. ASSUME CommitRejected(w) \/ Close(w) \/ Crash(w)
      PROVE  LoopInv(Record, Output)' /\ OthersRest(w) /\ Rests(w)
             /\ (trouble'.faults = 0 => trouble.faults = 0)
             /\ trouble.faults <= trouble'.faults
  <2>1. Die(w) /\ (trouble' = trouble \/ \E kind \in Kinds : Count(kind))
    BY <1>8 DEF CommitRejected, Close, Crash, Fault, Disrupted, Kinds
  <2>2. /\ trouble' \in [Kinds -> Nat] /\ (trouble'.faults = 0 => trouble.faults = 0)
        /\ trouble.faults <= trouble'.faults
    BY <1>2, <1>3, <2>1 DEF Kinds
  <2> QED
    BY <2>1, <2>2, DieStep
<1>9. ASSUME RequestStop(w)
      PROVE  LoopInv(Record, Output)' /\ OthersRest(w) /\ Keeps(w)
             /\ trouble'.faults = trouble.faults
  <2>1. trouble' \in [Kinds -> Nat] /\ trouble'.faults = trouble.faults
    BY <1>3, <1>9 DEF Kinds, RequestStop
  <2> QED
    BY <1>9, <2>1, StopStep
<1>10. ASSUME DeliveryFails(w)
       PROVE  LoopInv(Record, Output)' /\ OthersRest(w) /\ Loses(w)
  <2>1. /\ Unqueue(w) /\ trouble' \in [Kinds -> Nat]
        /\ trouble'.faults # 0 /\ trouble'.faults = trouble.faults + 1
    BY <1>3, <1>10 DEF DeliveryFails, Fault, Kinds
  <2>2. /\ OthersRest(w) /\ acked' = acked
        /\ proc'[w].pc = proc[w].pc /\ proc'[w].msg = proc[w].msg
        /\ proc[w].out # <<>> /\ proc'[w].out = Tail(proc[w].out)
    BY <1>1, <2>1, UnqueueLemma
  <2> QED
    BY <2>1, <2>2, SentStep DEF Loses
<1>11. ASSUME Commit(w)
       PROVE  LoopInv(Record, Output)' /\ OthersRest(w) /\ trouble' = trouble
  BY <1>11, CommitStep
<1>12. ASSUME NEW p \in Partitions, Assign(w, p)
       PROVE  LoopInv(Record, Output)' /\ OthersRest(w) /\ Keeps(w) /\ trouble' = trouble
  BY <1>12, AssignStep
<1>13. trouble.faults \in Nat /\ (Loses(w) => trouble'.faults # 0)
  BY <1>2 DEF Loses, Kinds
<1>14. Loses(w) => trouble.faults <= trouble'.faults
  BY <1>13 DEF Loses
<1>15. CASE Turn(w)
  BY <1>4, <1>5, <1>7, <1>8, <1>11, <1>12, <1>13, <1>15 DEF Turn, Effect
<1>16. CASE Upset(w)
  BY <1>6, <1>7, <1>8, <1>9, <1>10, <1>13, <1>14, <1>16 DEF Upset, Effect
<1> QED
  BY <1>15, <1>16

(* New records go to the end of the topic: nothing in hand moves.          *)
LEMMA AppendStep ==
  ASSUME NEW Record, NEW Output, LoopInv(Record, Output),
         NEW p \in Partitions, NEW rec \in Record,
         input' = [input EXCEPT ![p] = Append(@, rec)], UNCHANGED loopVars
  PROVE  /\ LoopInv(Record, Output)'
         /\ \A q \in Partitions :
              /\ Len(input[q]) \in Nat
              /\ \A i \in 1..Len(input[q]) : input'[q][i] = input[q][i]
         /\ \A w \in Processes :
              proc[w].pc \in Busy => RecordOf(proc[w], input') = RecordOf(proc[w], input)
<1>1. UNCHANGED <<owner, acked, proc, trouble>>
  BY DEF loopVars
<1>2. /\ input \in [Partitions -> Seq(Record)] /\ LoopTypeOK(Output)
      /\ CommitsBounded(acked, input) /\ acked \in [Groups -> [Partitions -> Nat]]
  BY DEF LoopInv, LoopTypeOK
<1>3. /\ input' \in [Partitions -> Seq(Record)]
      /\ \A q \in Partitions :
           /\ Len(input[q]) \in Nat /\ Len(input'[q]) \in Nat
           /\ Len(input[q]) <= Len(input'[q])
           /\ \A i \in 1..Len(input[q]) : input'[q][i] = input[q][i]
  BY <1>2
<1>4. LoopTypeOK(Output)'
  BY <1>1, <1>2 DEF LoopTypeOK
<1>5. CommitsBounded(acked', input')
  <2> SUFFICES ASSUME NEW g \in Groups, NEW q \in Partitions
               PROVE  acked[g][q] <= Len(input'[q])
    BY <1>1 DEF CommitsBounded
  <2>1. acked[g][q] <= Len(input[q]) /\ acked[g][q] \in Nat
    BY <1>2 DEF CommitsBounded
  <2> QED
    BY <1>3, <2>1
<1>6. ASSUME NEW w \in Processes
      PROVE  /\ HandOK(proc[w], input') /\ CursorOK(w, proc[w], owner, acked)
             /\ proc[w].pc \in Busy => RecordOf(proc[w], input') = RecordOf(proc[w], input)
  <2>1. HandOK(proc[w], input) /\ CursorOK(w, proc[w], owner, acked)
    BY DEF LoopInv
  <2>2. ASSUME proc[w].pc \in Busy
        PROVE  /\ proc[w].msg.off < Len(input'[proc[w].msg.part])
               /\ RecordOf(proc[w], input') = RecordOf(proc[w], input)
    <3>1. /\ proc[w].msg.part \in Partitions /\ proc[w].msg.off \in Nat
          /\ proc[w].msg.off < Len(input[proc[w].msg.part])
      BY <2>1, <2>2 DEF HandOK, Position
    <3>2. proc[w].msg.off + 1 \in 1..Len(input[proc[w].msg.part])
      BY <1>3, <3>1
    <3> QED
      BY <1>3, <3>1, <3>2 DEF RecordOf
  <2> QED
    BY <2>1, <2>2 DEF HandOK
<1> QED
  BY <1>1, <1>3, <1>4, <1>5, <1>6 DEF LoopInv

(* Nothing is consumed and no process runs at first.                       *)
LEMMA LoopStart ==
  ASSUME NEW Record, NEW Output, LoopInit
  PROVE  /\ LoopInv(Record, Output)
         /\ \A w \in Processes : proc[w].pc = "down"
<1>1. /\ input = [p \in Partitions |-> <<>>]
      /\ owner = [g \in Groups |-> [p \in Partitions |-> NoProcess]]
      /\ acked = [g \in Groups |-> [p \in Partitions |-> 0]]
      /\ proc = [w \in Processes |-> Idle]
      /\ trouble = [crashes |-> 0, evictions |-> 0, stops |-> 0, faults |-> 0]
  BY DEF LoopInit
<1>2. /\ Idle \in Process(Output) /\ Idle.pc = "down"
      /\ \A p \in Partitions : Idle.cursor[p] = 0
  BY DEF Idle, Process, States
<1>3. LoopTypeOK(Output)
  BY <1>1, <1>2 DEF LoopTypeOK
<1>4. CommitsBounded(acked, input) /\ input \in [Partitions -> Seq(Record)]
  BY <1>1 DEF CommitsBounded
<1>5. ASSUME NEW w \in Processes
      PROVE  HandOK(proc[w], input) /\ CursorOK(w, proc[w], owner, acked)
  <2>1. proc[w].pc = "down" /\ \A p \in Partitions : proc[w].cursor[p] = 0
    BY <1>1, <1>2
  <2>2. \A p \in Partitions : acked[GroupOf[w]][p] = 0
    BY <1>1, <1>3, ProcFacts
  <2> QED
    BY <2>1, <2>2 DEF HandOK, CursorOK, Busy
<1> QED
  BY <1>1, <1>2, <1>3, <1>4, <1>5 DEF LoopInv

-------------------------------------------------------------------------------
(* Counting.                                                               *)

(* What a function f from lanes and offsets to numbers has beyond one each.*)
Extra(L, f) == {e \in L \X Nat \X Nat : e[3] \in 2..f[<<e[1], e[2]>>]}

(* A set that gains at most one element is finite and at most one larger.  *)
LEMMA OneMore ==
  ASSUME NEW S, NEW T, NEW x, IsFiniteSet(S), T \subseteq S \cup {x}
  PROVE  /\ IsFiniteSet(T) /\ Cardinality(T) \in Nat /\ Cardinality(S) \in Nat
         /\ Cardinality(T) <= Cardinality(S) + 1
<1>1. /\ IsFiniteSet(S \cup {x}) /\ Cardinality(S \cup {x}) <= Cardinality(S) + 1
      /\ Cardinality(S) \in Nat
  <2>1. Cardinality(S) \in Nat
    BY FS_CardinalityType
  <2> QED
    BY <2>1, FS_AddElement
<1>2. IsFiniteSet(T) /\ Cardinality(T) <= Cardinality(S \cup {x})
  BY <1>1, FS_Subset
<1>3. Cardinality(T) \in Nat /\ Cardinality(S \cup {x}) \in Nat
  BY <1>1, <1>2, FS_CardinalityType
<1> QED
  BY <1>1, <1>2, <1>3

(* A set that gains nothing is finite and no larger.                       *)
LEMMA NoMore ==
  ASSUME NEW S, NEW T, IsFiniteSet(S), T \subseteq S
  PROVE  /\ IsFiniteSet(T) /\ Cardinality(T) \in Nat /\ Cardinality(S) \in Nat
         /\ Cardinality(T) <= Cardinality(S)
BY FS_Subset, FS_CardinalityType

(* A set that another tells apart is no larger.                            *)
LEMMA AtMost ==
  ASSUME NEW S, NEW T, IsFiniteSet(T), NEW f \in [S -> T],
         \A x, y \in S : f[x] = f[y] => x = y
  PROVE  /\ IsFiniteSet(S) /\ Cardinality(S) \in Nat /\ Cardinality(T) \in Nat
         /\ Cardinality(S) <= Cardinality(T)
<1>1. f \in Injection(S, T)
  BY DEF Injection, IsInjective
<1>2. IsFiniteSet(S) /\ Cardinality(S) <= Cardinality(T)
  BY <1>1, FS_Injection
<1> QED
  BY <1>2, FS_CardinalityType

(* The size of two sets together.                                          *)
LEMMA TwoParts ==
  ASSUME NEW S, NEW T, IsFiniteSet(S), IsFiniteSet(T), S \cap T = {}
  PROVE  /\ IsFiniteSet(S \cup T) /\ Cardinality(S) \in Nat /\ Cardinality(T) \in Nat
         /\ Cardinality(S \cup T) = Cardinality(S) + Cardinality(T)
<1>1. Cardinality(S) \in Nat /\ Cardinality(T) \in Nat /\ Cardinality(S \cap T) = 0
  BY FS_CardinalityType, FS_EmptySet
<1>2. /\ IsFiniteSet(S \cup T)
      /\ Cardinality(S \cup T) = Cardinality(S) + Cardinality(T) - Cardinality(S \cap T)
  BY FS_Union
<1> QED
  BY <1>1, <1>2

(* A function that grows by one, at one point, has at most one more.       *)
LEMMA ExtraGrows ==
  ASSUME NEW L, NEW f \in [L \X Nat -> Nat], NEW f2 \in [L \X Nat -> Nat],
         NEW x \in L \X Nat,
         \A y \in L \X Nat : f2[y] <= f[y] \/ (y = x /\ f2[y] <= f[y] + 1)
  PROVE  Extra(L, f2) \subseteq Extra(L, f) \cup {<<x[1], x[2], f2[x]>>}
<1> SUFFICES ASSUME NEW e \in Extra(L, f2), e \notin Extra(L, f)
             PROVE  e = <<x[1], x[2], f2[x]>>
  OBVIOUS
<1>1. /\ e \in L \X Nat \X Nat /\ e[3] \in 2..f2[<<e[1], e[2]>>]
      /\ ~(e[3] \in 2..f[<<e[1], e[2]>>])
  BY DEF Extra
<1>2. /\ <<e[1], e[2]>> \in L \X Nat /\ e[3] \in Nat
      /\ e = <<e[1], e[2], e[3]>>
  BY <1>1
<1>3. f[<<e[1], e[2]>>] \in Nat /\ f2[<<e[1], e[2]>>] \in Nat
  BY <1>2
<1>4. f2[<<e[1], e[2]>>] > f[<<e[1], e[2]>>] /\ e[3] <= f2[<<e[1], e[2]>>]
      /\ e[3] > f[<<e[1], e[2]>>]
  BY <1>1, <1>2, <1>3
<1>5. x = <<e[1], e[2]>> /\ f2[x] <= f[x] + 1
  BY <1>2, <1>3, <1>4
<1>6. e[3] = f2[x]
  BY <1>2, <1>3, <1>4, <1>5
<1> QED
  BY <1>2, <1>5, <1>6

(* A function that does not grow has no more.                              *)
LEMMA ExtraStays ==
  ASSUME NEW L, NEW f \in [L \X Nat -> Nat], NEW f2 \in [L \X Nat -> Nat],
         \A y \in L \X Nat : f2[y] <= f[y]
  PROVE  Extra(L, f2) \subseteq Extra(L, f)
<1> SUFFICES ASSUME NEW e \in Extra(L, f2) PROVE e \in Extra(L, f)
  OBVIOUS
<1>1. e \in L \X Nat \X Nat /\ e[3] \in 2..f2[<<e[1], e[2]>>]
  BY DEF Extra
<1>2. /\ <<e[1], e[2]>> \in L \X Nat /\ e[3] \in Nat
      /\ f[<<e[1], e[2]>>] \in Nat /\ f2[<<e[1], e[2]>>] \in Nat
      /\ f2[<<e[1], e[2]>>] <= f[<<e[1], e[2]>>]
  BY <1>1
<1> QED
  BY <1>1, <1>2 DEF Extra

(* The elements of a set under one key.                                    *)
Under(S, key, d) == {s \in S : key[s] = d}

(* mark tells the elements beyond the first under each key apart, within   *)
(* E.                                                                      *)
Marks(S, D, key, E, mark) ==
  /\ \A d \in D : \A n \in 2..Cardinality(Under(S, key, d)) : mark[<<d, n>>] \in E
  /\ \A d, c \in D : \A n, m \in Nat :
       mark[<<d, n>>] = mark[<<c, m>>] => d = c /\ n = m

(* Counting by key: a finite set has no more elements than keys and, beyond*)
(* one for each key, marks.                                                *)
LEMMA CountByKey ==
  ASSUME NEW S, IsFiniteSet(S), NEW D, IsFiniteSet(D), NEW key \in [S -> D],
         NEW E, IsFiniteSet(E), NEW mark, Marks(S, D, key, E, mark)
  PROVE  Cardinality(S) <= Cardinality(D) + Cardinality(E)
<1> USE DEF Marks, Under
<1> DEFINE F(d) == Under(S, key, d)
           pos == [d \in D |-> CHOOSE b \in [1..Cardinality(F(d)) -> F(d)] :
                                b \in Bijection(1..Cardinality(F(d)), F(d))]
<1>1. ASSUME NEW d \in D
      PROVE  /\ IsFiniteSet(F(d)) /\ Cardinality(F(d)) \in Nat
             /\ pos[d] \in Surjection(1..Cardinality(F(d)), F(d))
  <2>1. IsFiniteSet(F(d))
    BY FS_Subset
  <2>2. Cardinality(F(d)) \in Nat /\ ExistsBijection(1..Cardinality(F(d)), F(d))
    BY <2>1, FS_CardinalityType
  <2>3. PICK b : b \in Bijection(1..Cardinality(F(d)), F(d))
    BY <2>2 DEF ExistsBijection
  <2>4. b \in [1..Cardinality(F(d)) -> F(d)]
    BY <2>3 DEF Bijection, Injection
  <2>5. pos[d] \in Bijection(1..Cardinality(F(d)), F(d))
    BY <2>3, <2>4
  <2> QED
    BY <2>1, <2>2, <2>5 DEF Bijection
<1> HIDE DEF pos
<1> DEFINE at == [s \in S |-> CHOOSE n \in 1..Cardinality(F(key[s])) : pos[key[s]][n] = s]
<1>2. ASSUME NEW s \in S
      PROVE  at[s] \in 1..Cardinality(F(key[s])) /\ pos[key[s]][at[s]] = s
  <2>1. key[s] \in D /\ s \in F(key[s])
    OBVIOUS
  <2>2. \E n \in 1..Cardinality(F(key[s])) : pos[key[s]][n] = s
    BY <1>1, <2>1 DEF Surjection
  <2> QED
    BY <2>2
<1>3. \A s, t \in S : key[s] = key[t] /\ at[s] = at[t] => s = t
  BY <1>2
<1> HIDE DEF at
<1> DEFINE One == {s \in S : at[s] = 1}
           Rest == {s \in S : at[s] # 1}
<1>4. IsFiniteSet(One) /\ IsFiniteSet(Rest)
  BY FS_Subset
<1>5. Cardinality(One) <= Cardinality(D)
  <2>1. [s \in One |-> key[s]] \in Injection(One, D)
    BY <1>3 DEF Injection, IsInjective
  <2> QED
    BY <2>1, FS_Injection
<1>6. Cardinality(Rest) <= Cardinality(E)
  <2> DEFINE g == [s \in Rest |-> mark[<<key[s], at[s]>>]]
  <2>1. ASSUME NEW s \in Rest
        PROVE  key[s] \in D /\ at[s] \in Nat /\ at[s] \in 2..Cardinality(F(key[s]))
    <3>1. at[s] \in 1..Cardinality(F(key[s])) /\ Cardinality(F(key[s])) \in Nat
      BY <1>1, <1>2
    <3> QED
      BY <3>1
  <2>2. \A s \in Rest : g[s] \in E
    BY <2>1
  <2>3. \A s, t \in Rest : g[s] = g[t] => s = t
    <3> SUFFICES ASSUME NEW s \in Rest, NEW t \in Rest,
                        mark[<<key[s], at[s]>>] = mark[<<key[t], at[t]>>]
                 PROVE  s = t
      OBVIOUS
    <3>1. key[s] \in D /\ key[t] \in D /\ at[s] \in Nat /\ at[t] \in Nat
      BY <2>1
    <3>2. key[s] = key[t] /\ at[s] = at[t]
      BY <3>1
    <3> QED
      BY <1>3, <3>2
  <2>4. g \in Injection(Rest, E)
    BY <2>2, <2>3 DEF Injection, IsInjective
  <2> QED
    BY <2>4, FS_Injection
<1>7. S = One \cup Rest /\ One \cap Rest = {}
  OBVIOUS
<1>8. Cardinality(S) = Cardinality(One) + Cardinality(Rest)
  <2>1. Cardinality(One \cap Rest) = 0
    BY <1>7, FS_EmptySet
  <2>2. Cardinality(One) \in Nat /\ Cardinality(Rest) \in Nat
    BY <1>4, FS_CardinalityType
  <2>3. Cardinality(S) = Cardinality(One) + Cardinality(Rest) - Cardinality(One \cap Rest)
    BY <1>4, <1>7, FS_Union
  <2> QED
    BY <2>1, <2>2, <2>3
<1>9. /\ Cardinality(One) \in Nat /\ Cardinality(Rest) \in Nat
      /\ Cardinality(D) \in Nat /\ Cardinality(E) \in Nat
  BY <1>4, FS_CardinalityType
<1> QED
  BY <1>5, <1>6, <1>8, <1>9

(* A sequence that has one element more is the old one with it appended.   *)
LEMMA AppendMap ==
  ASSUME NEW T, NEW n \in Nat, NEW s, NEW s2, NEW e \in T,
         s \in [1..n -> T], s2 \in [1..(n + 1) -> T],
         \A i \in 1..n : s2[i] = s[i], s2[n + 1] = e
  PROVE  s2 = Append(s, e)
<1>1. s \in Seq(T) /\ Len(s) = n
  OBVIOUS
<1>2. Append(s, e) \in [1..(n + 1) -> T]
  <2>1. Append(s, e) \in Seq(T) /\ Len(Append(s, e)) = n + 1
    BY <1>1
  <2> HIDE DEF Append
  <2>2. \A t \in Seq(T) : t \in [1..Len(t) -> T]
    OBVIOUS
  <2> QED
    BY <2>1, <2>2
<1>3. \A i \in 1..(n + 1) : Append(s, e)[i] = s2[i]
  BY <1>1
<1> QED
  BY <1>2, <1>3

-------------------------------------------------------------------------------
(* How often a record may still be answered.                               *)

(* The record that a process with state r has in hand, as partition and    *)
(* number (its offset and one).                                            *)
Hand(r) == <<r.msg.part, r.msg.off + 1>>

(* The group cannot take record i of partition p from w: it is the owner's *)
(* to commit.                                                              *)
Secured(w, p, i, pr, own) ==
  own[GroupOf[w]][p] = w /\ pr[w].pc \in Busy /\ Hand(pr[w]) = <<p, i>>

(* A record is open when an owner of its partition will poll it.           *)
Open(g, p, i, pr, own, ack) ==
  /\ ack[g][p] < i
  /\ \A w \in Processes : GroupOf[w] = g => ~Secured(w, p, i, pr, own)

(* The record a result or decision answers: at.                            *)
InQueue(r, at, p, i) == \E n \in 1..Len(r.out) : at[r.out[n]] = <<p, i>>

(* r will publish an answer, or has it in the queue.                       *)
Holds(r, at, p, i) ==
  InQueue(r, at, p, i) \/ (r.pc = "work" /\ Hand(r) = <<p, i>>)

(* The processes of group g that will publish an answer to the record.     *)
Holders(at, g, p, i, pr) == {w \in Processes : GroupOf[w] = g /\ Holds(pr[w], at, p, i)}

(* A condition, counted.                                                   *)
Bit(b) == IF b THEN 1 ELSE 0

(* How often the record may still be answered: once for each process that  *)
(* holds it, and once more while it is open.                               *)
Chances(at, g, p, i, pr, own, ack) ==
  Cardinality(Holders(at, g, p, i, pr)) + Bit(Open(g, p, i, pr, own, ack))

(* What a step of w takes: partitions of its own or free ones.             *)
TakesOnlyOwn(w) ==
  \A g \in Groups, p \in Partitions :
    owner'[g][p] = owner[g][p] \/ owner[g][p] = w \/ owner[g][p] = NoProcess

(* What a group has committed stays committed.                             *)
CommitsGrow ==
  \A g \in Groups, p \in Partitions : acked[g][p] <= acked'[g][p]

(* A step of w changes who holds a record in w only.                       *)
LEMMA HoldersStep ==
  ASSUME NEW w \in Processes, OthersRest(w), NEW at, NEW g, NEW p, NEW i
  PROVE  LET n == Cardinality(Holders(at, g, p, i, proc))
             n2 == Cardinality(Holders(at, g, p, i, proc'))
             was == g = GroupOf[w] /\ Holds(proc[w], at, p, i)
             is == g = GroupOf[w] /\ Holds(proc'[w], at, p, i)
         IN  /\ n \in Nat /\ n2 \in Nat
             /\ n2 + Bit(was) = n + Bit(is)
<1> DEFINE H == Holders(at, g, p, i, proc)
           H2 == Holders(at, g, p, i, proc')
           was == g = GroupOf[w] /\ Holds(proc[w], at, p, i)
           is == g = GroupOf[w] /\ Holds(proc'[w], at, p, i)
<1>1. IsFiniteSet(Processes)
  BY LoopAssumption DEF LoopAssumption
<1>2. IsFiniteSet(H) /\ IsFiniteSet(H2)
  <2>1. H \subseteq Processes /\ H2 \subseteq Processes
    BY DEF Holders
  <2> QED
    BY <1>1, <2>1, FS_Subset
<1>3. Cardinality(H) \in Nat /\ Cardinality(H2) \in Nat
  BY <1>2, FS_CardinalityType
<1>4. \A v \in Processes \ {w} : v \in H <=> v \in H2
  BY DEF OthersRest, Holders
<1>5. (w \in H <=> was) /\ (w \in H2 <=> is) /\ H \subseteq Processes /\ H2 \subseteq Processes
  BY DEF Holders
<1> HIDE DEF H, H2, was, is
<1>6. H \ {w} = H2 \ {w}
  BY <1>4, <1>5
<1>7. /\ Cardinality(H \ {w}) = IF w \in H THEN Cardinality(H) - 1 ELSE Cardinality(H)
      /\ Cardinality(H2 \ {w}) = IF w \in H2 THEN Cardinality(H2) - 1 ELSE Cardinality(H2)
  BY <1>2, FS_RemoveElement
<1>8. (IF w \in H THEN 1 ELSE 0) = Bit(was) /\ (IF w \in H2 THEN 1 ELSE 0) = Bit(is)
  BY <1>5 DEF Bit
<1>9. Cardinality(H2) + Bit(was) = Cardinality(H) + Bit(is)
  <2>1. Cardinality(H \ {w}) = Cardinality(H2 \ {w})
    BY <1>6
  <2> DEFINE h == Cardinality(H)
             h2 == Cardinality(H2)
  <2>2. h = Cardinality(H \ {w}) + Bit(was) /\ h2 = Cardinality(H2 \ {w}) + Bit(is)
    BY <1>3, <1>7, <1>8
  <2>3. Bit(was) \in Nat /\ Bit(is) \in Nat /\ h \in Nat /\ h2 \in Nat
    BY <1>3 DEF Bit
  <2>4. Cardinality(H \ {w}) \in Int
    BY <1>3, <1>7
  <2> HIDE DEF h, h2
  <2> QED
    BY <2>1, <2>2, <2>3, <2>4 DEF h, h2
<1> QED
  BY <1>3, <1>9 DEF H, H2, was, is

(* ... and opens no record but the one that w has secured.                 *)
LEMMA OpenStep ==
  ASSUME NEW Output, LoopTypeOK(Output), LoopTypeOK(Output)',
         NEW w \in Processes, OthersRest(w), TakesOnlyOwn(w), CommitsGrow,
         NEW g \in Groups, NEW p \in Partitions, NEW i \in Nat,
         Open(g, p, i, proc', owner', acked'), ~Open(g, p, i, proc, owner, acked)
  PROVE  g = GroupOf[w] /\ Secured(w, p, i, proc, owner)
<1>1. acked[g][p] \in Nat /\ acked'[g][p] \in Nat
  BY DEF LoopTypeOK
<1>2. acked[g][p] < i
  BY <1>1 DEF Open, CommitsGrow
<1>3. PICK v \in Processes : GroupOf[v] = g /\ Secured(v, p, i, proc, owner)
  BY <1>2 DEF Open
<1>4. ASSUME v # w PROVE FALSE
  <2>1. v # NoProcess /\ owner[g][p] = v
    BY <1>3, LoopAssumption DEF LoopAssumption, Secured
  <2>2. owner'[g][p] = v /\ proc'[v] = proc[v]
    BY <1>4, <2>1 DEF TakesOnlyOwn, OthersRest
  <2>3. Secured(v, p, i, proc', owner')
    BY <1>3, <2>1, <2>2 DEF Secured
  <2> QED
    BY <1>3, <2>3 DEF Open
<1> QED
  BY <1>3, <1>4

(* Who neither takes more nor lets go: the chances of a record do not grow *)
(* when w holds it no longer, or held it before and has not let it go; they*)
(* grow by one at most.                                                    *)
LEMMA ChancesStep ==
  ASSUME NEW Output, LoopTypeOK(Output), LoopTypeOK(Output)',
         NEW w \in Processes, OthersRest(w), TakesOnlyOwn(w), CommitsGrow,
         NEW at, NEW g \in Groups, NEW p \in Partitions, NEW i \in Nat,
         g = GroupOf[w] /\ Holds(proc'[w], at, p, i) => Holds(proc[w], at, p, i)
  PROVE  LET c == Chances(at, g, p, i, proc, owner, acked)
             c2 == Chances(at, g, p, i, proc', owner', acked')
             opened == /\ Open(g, p, i, proc', owner', acked')
                       /\ g = GroupOf[w] /\ Secured(w, p, i, proc, owner)
             dropped == g = GroupOf[w] /\ Holds(proc[w], at, p, i)
                          /\ ~Holds(proc'[w], at, p, i)
         IN  /\ c \in Nat /\ c2 \in Nat
             /\ c2 + Bit(dropped) <= c + Bit(opened)
<1> DEFINE n == Cardinality(Holders(at, g, p, i, proc))
           n2 == Cardinality(Holders(at, g, p, i, proc'))
           was == g = GroupOf[w] /\ Holds(proc[w], at, p, i)
           is == g = GroupOf[w] /\ Holds(proc'[w], at, p, i)
           open == Open(g, p, i, proc, owner, acked)
           open2 == Open(g, p, i, proc', owner', acked')
           secured == g = GroupOf[w] /\ Secured(w, p, i, proc, owner)
<1>1. n \in Nat /\ n2 \in Nat /\ n2 + Bit(was) = n + Bit(is)
  BY HoldersStep
<1>2. open2 => open \/ secured
  BY OpenStep
<1>3. is => was
  OBVIOUS
<1>4. /\ Chances(at, g, p, i, proc, owner, acked) = n + Bit(open)
      /\ Chances(at, g, p, i, proc', owner', acked') = n2 + Bit(open2)
  BY DEF Chances
<1> HIDE DEF n, n2, was, is, open, open2, secured
<1>5. n + Bit(open) \in Nat /\ n2 + Bit(open2) \in Nat
  BY <1>1 DEF Bit
<1>6. n2 + Bit(open2) + Bit(was /\ ~is) <= n + Bit(open) + Bit(open2 /\ secured)
  BY <1>1, <1>2, <1>3 DEF Bit
<1> QED
  BY <1>4, <1>5, <1>6 DEF was, is, open2, secured, Bit

(* Of the loop's own steps only a crash and an eviction take a record that *)
(* is secured from w without its being committed.                          *)
LEMMA TurnSecures ==
  ASSUME NEW Record, NEW Output, LoopInv(Record, Output), NEW w \in Processes,
         Turn(w) \/ Upset(w)
  PROVE  /\ TakesOnlyOwn(w) /\ CommitsGrow
         /\ Disruptions \in Nat /\ Disruptions' \in Nat
         /\ \/ Disruptions' = Disruptions + 1
            \/ /\ Disruptions' = Disruptions
               /\ \A p \in Partitions, i \in Nat :
                    Secured(w, p, i, proc, owner) =>
                      i <= acked'[GroupOf[w]][p] \/ Secured(w, p, i, proc', owner')
<1>1. LoopTypeOK(Output)
  BY DEF LoopInv
<1>2. /\ trouble \in [Kinds -> Nat] /\ GroupOf[w] \in Groups
      /\ owner \in [Groups -> [Partitions -> Processes \cup {NoProcess}]]
      /\ acked \in [Groups -> [Partitions -> Nat]]
  BY <1>1, ProcFacts
<1>3. Disruptions \in Nat
  BY <1>2 DEF Disruptions, Kinds
<1>4. ASSUME NEW kind \in Kinds, Count(kind)
      PROVE  /\ Disruptions' \in Nat
             /\ kind \in {"crashes", "evictions"} => Disruptions' = Disruptions + 1
             /\ kind \notin {"crashes", "evictions"} => Disruptions' = Disruptions
  <2>1. trouble' = [trouble EXCEPT ![kind] = @ + 1]
    BY <1>4 DEF Count
  <2>2. \A k \in Kinds : /\ trouble[k] \in Nat
                         /\ trouble'[k] = IF k = kind THEN trouble[k] + 1 ELSE trouble[k]
    BY <1>2, <2>1
  <2>3. /\ trouble.crashes \in Nat /\ trouble.evictions \in Nat
        /\ trouble'.crashes = IF kind = "crashes" THEN trouble.crashes + 1
                                                 ELSE trouble.crashes
        /\ trouble'.evictions = IF kind = "evictions" THEN trouble.evictions + 1
                                                     ELSE trouble.evictions
    BY <2>2 DEF Kinds
  <2> QED
    BY <2>3 DEF Disruptions
<1>5. trouble' = trouble => Disruptions' = Disruptions
  BY DEF Disruptions
<1>6. UNCHANGED acked => CommitsGrow
  BY <1>2 DEF CommitsGrow
<1>7. UNCHANGED owner => TakesOnlyOwn(w)
  BY DEF TakesOnlyOwn
<1>8. ASSUME Released(w) PROVE TakesOnlyOwn(w)
  <2> SUFFICES ASSUME NEW g \in Groups, NEW p \in Partitions, owner[g][p] # w
               PROVE  owner'[g][p] = owner[g][p]
    BY DEF TakesOnlyOwn
  <2> QED
    BY <1>2, <1>8 DEF Released
<1>9. \A p \in Partitions, i \in Nat : Secured(w, p, i, proc, owner) => proc[w].pc \in Busy
  BY DEF Secured
<1> DEFINE Goal ==
             /\ TakesOnlyOwn(w) /\ CommitsGrow
             /\ Disruptions' \in Nat
             /\ \/ Disruptions' = Disruptions + 1
                \/ /\ Disruptions' = Disruptions
                   /\ \A p \in Partitions, i \in Nat :
                        Secured(w, p, i, proc, owner) =>
                          \/ i <= acked'[GroupOf[w]][p]
                          \/ Secured(w, p, i, proc', owner')
<1> HIDE DEF LoopInv, LoopTypeOK
<1>10. ASSUME Start(w) \/ PollEmpty(w) PROVE Goal
  <2>1. proc[w].pc \notin Busy /\ UNCHANGED <<owner, acked, trouble>>
    BY <1>10 DEF Start, PollEmpty, Busy
  <2> QED
    BY <1>3, <1>5, <1>6, <1>7, <1>9, <2>1
<1>11. ASSUME NEW p \in Partitions, Assign(w, p) \/ Revoke(w, p) PROVE Goal
  <2>1. proc[w].pc \notin Busy /\ UNCHANGED <<acked, trouble>>
    BY <1>11 DEF Assign, AssignAt, Revoke, Busy
  <2>2. TakesOnlyOwn(w)
    <3>1. CASE Assign(w, p)
      BY <1>2, <3>1 DEF Assign, AssignAt, TakesOnlyOwn
    <3>2. CASE Revoke(w, p)
      BY <1>2, <3>2 DEF Revoke, TakesOnlyOwn, Owns
    <3> QED
      BY <1>11, <3>1, <3>2
  <2> QED
    BY <1>3, <1>5, <1>6, <1>9, <2>1, <2>2
<1>12. ASSUME FlushDone(w) \/ FlushTimeout(w) PROVE Goal
  <2>1. /\ proc[w].pc = "flush" /\ Goto(w, "commit") /\ UNCHANGED <<owner, acked>>
        /\ trouble' = trouble \/ Count("faults")
    BY <1>12 DEF FlushDone, FlushTimeout, Fault
  <2>2. proc'[w].pc = "commit" /\ proc'[w].msg = proc[w].msg
    BY <1>1, <2>1, GotoLemma DEF States, Busy
  <2>3. \A p \in Partitions, i \in Nat :
          Secured(w, p, i, proc, owner) => Secured(w, p, i, proc', owner')
    BY <2>1, <2>2 DEF Secured, Hand, Busy
  <2>4. Disruptions' = Disruptions
    BY <1>4, <1>5, <2>1 DEF Kinds
  <2> QED
    BY <1>3, <1>6, <1>7, <2>1, <2>3, <2>4
<1>13. ASSUME Commit(w) PROVE Goal
  <2>1. LET g == GroupOf[w]
            p == proc[w].msg.part
            off == proc[w].msg.off
        IN  /\ g \in Groups /\ p \in Partitions /\ off \in Nat /\ acked[g][p] = off
            /\ acked'[g][p] = off + 1
            /\ \A h \in Groups, q \in Partitions :
                 h # g \/ q # p => acked'[h][q] = acked[h][q]
            /\ UNCHANGED <<owner, trouble>>
    BY <1>13, CommitLemma
  <2>2. CommitsGrow
    BY <1>2, <2>1 DEF CommitsGrow
  <2>3. \A p \in Partitions, i \in Nat :
          Secured(w, p, i, proc, owner) => i <= acked'[GroupOf[w]][p]
    BY <2>1 DEF Secured, Hand
  <2> QED
    BY <1>3, <1>5, <1>7, <2>1, <2>2, <2>3
<1>14. ASSUME CommitRejected(w) PROVE Goal
  <2>1. /\ ~Owns(w, proc[w].msg.part) /\ Released(w) /\ UNCHANGED <<acked, trouble>>
    BY <1>14 DEF CommitRejected, Die
  <2>2. \A p \in Partitions, i \in Nat : ~Secured(w, p, i, proc, owner)
    BY <2>1 DEF Secured, Hand, Owns
  <2> QED
    BY <1>3, <1>5, <1>6, <1>8, <2>1, <2>2
<1>15. ASSUME Close(w) PROVE Goal
  <2>1. /\ proc[w].pc \notin Busy /\ Released(w) /\ UNCHANGED acked
        /\ trouble' = trouble \/ Count("faults")
    BY <1>15 DEF Close, Fault, Die, Busy
  <2>2. Disruptions' = Disruptions
    BY <1>4, <1>5, <2>1 DEF Kinds
  <2> QED
    BY <1>3, <1>6, <1>8, <1>9, <2>1, <2>2
<1>16. ASSUME Evict(w) \/ Crash(w) PROVE Goal
  <2>1. /\ Released(w) /\ UNCHANGED acked
        /\ \E kind \in {"crashes", "evictions"} : Count(kind)
    BY <1>16 DEF Evict, Crash, Disrupted, Die
  <2>2. Disruptions' = Disruptions + 1 /\ Disruptions' \in Nat
    BY <1>4, <2>1 DEF Kinds
  <2> QED
    BY <1>6, <1>8, <2>1, <2>2
<1>17. ASSUME RequestStop(w) PROVE Goal
  <2>1. /\ proc' = [proc EXCEPT ![w].stop = TRUE] /\ Count("stops")
        /\ UNCHANGED <<owner, acked>>
    BY <1>17 DEF RequestStop
  <2>2. proc'[w].pc = proc[w].pc /\ proc'[w].msg = proc[w].msg
    BY <1>1, <2>1, ProcFacts DEF Process
  <2>3. \A p \in Partitions, i \in Nat :
          Secured(w, p, i, proc, owner) => Secured(w, p, i, proc', owner')
    BY <2>1, <2>2 DEF Secured, Hand
  <2>4. Disruptions' = Disruptions
    BY <1>4, <2>1 DEF Kinds
  <2> QED
    BY <1>3, <1>6, <1>7, <2>1, <2>3, <2>4
<1>18. ASSUME DeliveryFails(w) PROVE Goal
  <2>1. Unqueue(w) /\ Count("faults")
    BY <1>18 DEF DeliveryFails, Fault
  <2>2. /\ proc'[w].pc = proc[w].pc /\ proc'[w].msg = proc[w].msg
        /\ UNCHANGED <<owner, acked>>
    BY <1>1, <2>1, UnqueueLemma
  <2>3. \A p \in Partitions, i \in Nat :
          Secured(w, p, i, proc, owner) => Secured(w, p, i, proc', owner')
    BY <2>2 DEF Secured, Hand
  <2>4. Disruptions' = Disruptions
    BY <1>4, <2>1 DEF Kinds
  <2> QED
    BY <1>3, <1>6, <1>7, <2>2, <2>3, <2>4
<1>19. Turn(w) => Goal
  <2> HIDE DEF Goal
  <2> QED
    BY <1>10, <1>11, <1>12, <1>13, <1>14, <1>15 DEF Turn
<1>20. Upset(w) => Goal
  <2> HIDE DEF Goal
  <2> QED
    BY <1>12, <1>16, <1>17, <1>18 DEF Upset
<1> QED
  BY <1>3, <1>19, <1>20

(* The loop's own steps give w no answer to hold.                          *)
LEMMA TurnHolds ==
  ASSUME NEW Record, NEW Output, LoopInv(Record, Output), NEW w \in Processes,
         Effect(w), NEW at, NEW p, NEW i, Holds(proc'[w], at, p, i)
  PROVE  Holds(proc[w], at, p, i)
<1>1. proc[w].out \in Seq(Output)
  BY ProcFacts DEF LoopInv
<1>2. CASE Rests(w)
  BY <1>2 DEF Rests, Holds, InQueue, Busy
<1>3. CASE Keeps(w)
  BY <1>3 DEF Keeps, Holds, InQueue, Hand
<1>4. CASE Flushes(w)
  BY <1>4 DEF Flushes, Holds, InQueue
<1>5. CASE Loses(w)
  <2>1. /\ proc'[w].pc = proc[w].pc /\ proc'[w].msg = proc[w].msg
        /\ proc[w].out # <<>> /\ proc'[w].out = Tail(proc[w].out)
    BY <1>5 DEF Loses
  <2>2. ASSUME NEW n \in 1..Len(proc'[w].out)
        PROVE  n + 1 \in 1..Len(proc[w].out) /\ proc'[w].out[n] = proc[w].out[n + 1]
    BY <1>1, <2>1
  <2>3. InQueue(proc'[w], at, p, i) => InQueue(proc[w], at, p, i)
    BY <2>2 DEF InQueue
  <2> QED
    BY <2>1, <2>3 DEF Holds, Hand
<1>6. CASE Commit(w)
  <2>1. proc'[w].pc \notin Busy /\ proc'[w].out = proc[w].out
    BY <1>6, CommitLemma
  <2> QED
    BY <2>1 DEF Holds, InQueue, Busy
<1> QED
  BY <1>2, <1>3, <1>4, <1>5, <1>6 DEF Effect

(* ... and no record a chance to be answered again, but for the one that a *)
(* crash or an eviction takes out of w's hand.                             *)
LEMMA TurnChances ==
  ASSUME NEW Record, NEW Output, LoopInv(Record, Output), NEW w \in Processes,
         input' = input, Turn(w) \/ Upset(w),
         NEW at, NEW g \in Groups, NEW p \in Partitions, NEW i \in Nat
  PROVE  LET c == Chances(at, g, p, i, proc, owner, acked)
             c2 == Chances(at, g, p, i, proc', owner', acked')
         IN  /\ c \in Nat /\ c2 \in Nat
             /\ \/ c2 <= c
                \/ /\ c2 <= c + 1 /\ Disruptions' = Disruptions + 1
                   /\ g = GroupOf[w] /\ <<p, i>> = Hand(proc[w])
<1>1. LoopTypeOK(Output) /\ LoopTypeOK(Output)' /\ Effect(w) /\ OthersRest(w)
  <2>1. LoopInv(Record, Output)' /\ Effect(w)
    BY TurnStep
  <2> QED
    BY <2>1 DEF LoopInv, Effect
<1>2. /\ TakesOnlyOwn(w) /\ CommitsGrow
      /\ \/ Disruptions' = Disruptions + 1
         \/ Secured(w, p, i, proc, owner) =>
              i <= acked'[GroupOf[w]][p] \/ Secured(w, p, i, proc', owner')
  BY TurnSecures
<1>3. Holds(proc'[w], at, p, i) => Holds(proc[w], at, p, i)
  BY <1>1, TurnHolds
<1> DEFINE c == Chances(at, g, p, i, proc, owner, acked)
           c2 == Chances(at, g, p, i, proc', owner', acked')
           opened == /\ Open(g, p, i, proc', owner', acked')
                     /\ g = GroupOf[w] /\ Secured(w, p, i, proc, owner)
           dropped == g = GroupOf[w] /\ Holds(proc[w], at, p, i)
                        /\ ~Holds(proc'[w], at, p, i)
<1>4. c \in Nat /\ c2 \in Nat /\ c2 + Bit(dropped) <= c + Bit(opened)
  BY <1>1, <1>2, <1>3, ChancesStep
<1>5. opened => Disruptions' = Disruptions + 1 /\ g = GroupOf[w] /\ <<p, i>> = Hand(proc[w])
  <2>1. acked'[g][p] \in Nat
    BY <1>1 DEF LoopTypeOK
  <2>2. opened => ~(i <= acked'[g][p]) /\ ~Secured(w, p, i, proc', owner')
    BY <2>1 DEF Open
  <2> QED
    BY <1>2, <2>2 DEF Secured
<1> HIDE DEF c, c2, opened, dropped
<1>6. c2 <= c + Bit(opened)
  BY <1>4 DEF Bit
<1> QED
  BY <1>4, <1>5, <1>6 DEF c, c2, Bit

(* A record has finitely many chances.                                     *)
LEMMA ChancesNat ==
  ASSUME NEW at, NEW g, NEW p, NEW i
  PROVE  Chances(at, g, p, i, proc, owner, acked) \in Nat
<1>1. IsFiniteSet(Processes) /\ Holders(at, g, p, i, proc) \subseteq Processes
  BY LoopAssumption DEF LoopAssumption, Holders
<1>2. Cardinality(Holders(at, g, p, i, proc)) \in Nat
  BY <1>1, NoMore
<1>3. Bit(Open(g, p, i, proc, owner, acked)) \in Nat
  BY DEF Bit
<1> QED
  BY <1>2, <1>3 DEF Chances

(* The queue of a producer answers different records, all of them passed   *)
(* by the group or being flushed or committed; never the one at work.      *)
QueueOK(at, r, g, ack) ==
  /\ \A m, n \in 1..Len(r.out) : at[r.out[m]] = at[r.out[n]] => m = n
  /\ \A n \in 1..Len(r.out) :
       \/ at[r.out[n]][2] <= ack[g][at[r.out[n]][1]]
       \/ r.pc \in {"flush", "commit"} /\ at[r.out[n]] = Hand(r)
  /\ r.pc = "work" => \A n \in 1..Len(r.out) : at[r.out[n]] # Hand(r)

(* The queues of all processes are in order.                               *)
QueuesOK(at) == \A w \in Processes : QueueOK(at, proc[w], GroupOf[w], acked)

(* The queues of the others stay in order as the group moves on.           *)
LEMMA QueueFrame ==
  ASSUME NEW Output, NEW at \in [Output -> Partitions \X Nat],
         LoopTypeOK(Output), acked' \in [Groups -> [Partitions -> Nat]],
         QueuesOK(at), NEW w \in Processes, OthersRest(w), CommitsGrow,
         QueueOK(at, proc'[w], GroupOf[w], acked')
  PROVE  QueuesOK(at)'
<1> SUFFICES ASSUME NEW v \in Processes \ {w}
             PROVE  QueueOK(at, proc[v], GroupOf[v], acked')
  BY DEF QueuesOK, OthersRest
<1>1. QueueOK(at, proc[v], GroupOf[v], acked)
  BY DEF QueuesOK
<1>2. /\ proc[v].out \in Seq(Output) /\ GroupOf[v] \in Groups
      /\ acked \in [Groups -> [Partitions -> Nat]]
  BY ProcFacts
<1>3. ASSUME NEW n \in 1..Len(proc[v].out),
             at[proc[v].out[n]][2] <= acked[GroupOf[v]][at[proc[v].out[n]][1]]
      PROVE  at[proc[v].out[n]][2] <= acked'[GroupOf[v]][at[proc[v].out[n]][1]]
  <2> DEFINE q == at[proc[v].out[n]][1]
             j == at[proc[v].out[n]][2]
  <2>1. at[proc[v].out[n]] \in Partitions \X Nat
    BY <1>2
  <2>2. q \in Partitions /\ j \in Nat
    BY <2>1
  <2>3. acked[GroupOf[v]][q] <= acked'[GroupOf[v]][q] /\ j <= acked[GroupOf[v]][q]
    BY <1>2, <1>3, <2>2 DEF CommitsGrow
  <2>4. acked[GroupOf[v]][q] \in Nat /\ acked'[GroupOf[v]][q] \in Nat
    BY <1>2, <2>2
  <2> HIDE DEF q, j
  <2>5. j <= acked'[GroupOf[v]][q]
    BY <2>2, <2>3, <2>4
  <2> QED
    BY <2>5 DEF q, j
<1> QED
  BY <1>1, <1>3 DEF QueueOK

(* A queue that loses its head, or does not change, stays in order.        *)
LEMMA QueueTail ==
  ASSUME NEW Output, NEW at, NEW r, NEW r2, NEW g, NEW ack,
         QueueOK(at, r, g, ack), r.out \in Seq(Output), r.out # <<>>,
         r2.out = Tail(r.out), r2.pc = r.pc, r2.msg = r.msg
  PROVE  /\ QueueOK(at, r2, g, ack)
         /\ \A n \in 1..Len(r2.out) : at[r2.out[n]] # at[Head(r.out)]
<1>1. ASSUME NEW n \in 1..Len(r2.out)
      PROVE  n + 1 \in 1..Len(r.out) /\ r2.out[n] = r.out[n + 1]
  OBVIOUS
<1>2. Hand(r2) = Hand(r) /\ Head(r.out) = r.out[1] /\ 1 \in 1..Len(r.out)
  BY DEF Hand
<1>3. \A n \in 1..Len(r2.out) : at[r2.out[n]] # at[Head(r.out)]
  <2> SUFFICES ASSUME NEW n \in 1..Len(r2.out) PROVE at[r.out[n + 1]] # at[r.out[1]]
    BY <1>1, <1>2
  <2>1. n + 1 \in 1..Len(r.out) /\ n + 1 # 1
    BY <1>1
  <2> QED
    BY <1>2, <2>1 DEF QueueOK
<1>4. ASSUME NEW m \in 1..Len(r2.out), NEW n \in 1..Len(r2.out),
             at[r2.out[m]] = at[r2.out[n]]
      PROVE  m = n
  <2>1. /\ m + 1 \in 1..Len(r.out) /\ n + 1 \in 1..Len(r.out)
        /\ at[r.out[m + 1]] = at[r.out[n + 1]]
    BY <1>1, <1>4
  <2>2. m + 1 = n + 1
    BY <2>1 DEF QueueOK
  <2> QED
    BY <2>2
<1>5. ASSUME NEW n \in 1..Len(r2.out)
      PROVE  /\ \/ at[r2.out[n]][2] <= ack[g][at[r2.out[n]][1]]
                \/ r2.pc \in {"flush", "commit"} /\ at[r2.out[n]] = Hand(r2)
             /\ r2.pc = "work" => at[r2.out[n]] # Hand(r2)
  BY <1>1, <1>2 DEF QueueOK
<1> QED
  BY <1>3, <1>4, <1>5 DEF QueueOK

(* The loop's own steps keep the queues in order.                          *)
LEMMA TurnQueues ==
  ASSUME NEW Record, NEW Output, LoopInv(Record, Output), NEW w \in Processes,
         NEW at \in [Output -> Partitions \X Nat], QueuesOK(at),
         input' = input, Turn(w) \/ Upset(w)
  PROVE  QueuesOK(at)'
<1>1. LoopInv(Record, Output)' /\ Effect(w) /\ CommitsGrow
  BY TurnStep, TurnSecures
<1>2. /\ LoopTypeOK(Output) /\ OthersRest(w) /\ proc[w].out \in Seq(Output)
      /\ acked' \in [Groups -> [Partitions -> Nat]]
  BY <1>1, ProcFacts DEF LoopInv, Effect, LoopTypeOK
<1>3. QueueOK(at, proc[w], GroupOf[w], acked)
  BY DEF QueuesOK
<1>4. QueueOK(at, proc'[w], GroupOf[w], acked')
  <2>1. CASE Rests(w)
    BY <1>3, <2>1 DEF Rests, QueueOK, Busy
  <2>2. CASE Keeps(w)
    BY <1>3, <2>2 DEF Keeps, QueueOK, Hand
  <2>3. CASE Flushes(w)
    BY <1>3, <2>3 DEF Flushes, QueueOK, Hand
  <2>4. CASE Loses(w)
    BY <1>2, <1>3, <2>4, QueueTail DEF Loses
  <2>5. CASE Commit(w)
    <3> DEFINE g == GroupOf[w]
               p == proc[w].msg.part
               off == proc[w].msg.off
    <3>1. /\ proc'[w].pc \notin Busy /\ proc'[w].out = proc[w].out
          /\ g \in Groups /\ p \in Partitions /\ off \in Nat
          /\ acked'[g][p] = off + 1 /\ acked[g][p] = off
          /\ \A h \in Groups, q \in Partitions :
               h # g \/ q # p => acked'[h][q] = acked[h][q]
      BY <2>5, CommitLemma
    <3>2. ASSUME NEW n \in 1..Len(proc[w].out)
          PROVE  at[proc[w].out[n]][2] <= acked'[g][at[proc[w].out[n]][1]]
      <4> DEFINE s == at[proc[w].out[n]]
      <4>1. s \in Partitions \X Nat
        BY <1>2
      <4>2. s[2] <= acked[g][s[1]] \/ s = <<p, off + 1>>
        BY <1>3 DEF QueueOK, Hand
      <4> HIDE DEF s, p, off, g
      <4>3. s[1] \in Partitions /\ s[2] \in Nat
        BY <4>1
      <4>4. s[2] <= acked'[g][s[1]]
        <5>1. CASE s[1] = p
          BY <3>1, <4>2, <4>3, <5>1
        <5>2. CASE s[1] # p
          BY <3>1, <4>2, <4>3, <5>2
        <5> QED
          BY <5>1, <5>2
      <4> QED
        BY <4>4 DEF s
    <3> QED
      BY <1>3, <3>1, <3>2 DEF QueueOK, Busy
  <2> QED
    BY <1>1, <2>1, <2>2, <2>3, <2>4, <2>5 DEF Effect
<1> QED
  BY <1>1, <1>2, <1>4, QueueFrame

(* The chances of no record grow.                                          *)
NoNewChance(at) ==
  \A g \in Groups, p \in Partitions, i \in Nat :
    /\ Chances(at, g, p, i, proc, owner, acked) \in Nat
    /\ Chances(at, g, p, i, proc', owner', acked') \in Nat
    /\ Chances(at, g, p, i, proc', owner', acked') <=
         Chances(at, g, p, i, proc, owner, acked)

(* A record that is polled was open, and is secured, in no queue yet.      *)
LEMMA PollAnswers ==
  ASSUME NEW Record, NEW Output, LoopInv(Record, Output), NEW w \in Processes,
         NEW at \in [Output -> Partitions \X Nat], QueuesOK(at), input' = input,
         NEW p \in Partitions, NEW next \in {"work", "commit"}, Poll(w, p, next)
  PROVE  NoNewChance(at) /\ QueuesOK(at)'
<1> DEFINE off == proc[w].cursor[p]
           g == GroupOf[w]
<1>1. LoopTypeOK(Output) /\ CursorOK(w, proc[w], owner, acked) /\ QueueOK(at, proc[w], g, acked)
  BY DEF LoopInv, QueuesOK
<1>2. /\ proc' \in [Processes -> Process(Output)] /\ OthersRest(w)
      /\ proc[w].pc = "poll" /\ proc'[w].pc = next
      /\ proc'[w].msg = [part |-> p, off |-> off] /\ proc'[w].out = proc[w].out
      /\ off \in Nat /\ owner[g][p] = w
      /\ UNCHANGED <<owner, acked, trouble>>
  BY <1>1, PollLemma
<1>3. /\ acked \in [Groups -> [Partitions -> Nat]] /\ g \in Groups /\ proc[w].out \in Seq(Output)
  BY <1>1, ProcFacts
<1>4. acked[g][p] = off
  BY <1>1, <1>2 DEF CursorOK, Busy
<1> HIDE DEF off
<1>5. Hand(proc'[w]) = <<p, off + 1>>
  BY <1>2 DEF Hand
<1>6. CommitsGrow /\ TakesOnlyOwn(w) /\ LoopTypeOK(Output)'
  BY <1>1, <1>2, <1>3 DEF CommitsGrow, TakesOnlyOwn, LoopTypeOK
<1>7. \A n \in 1..Len(proc[w].out) :
        /\ at[proc[w].out[n]][2] <= acked[g][at[proc[w].out[n]][1]]
        /\ at[proc[w].out[n]] # <<p, off + 1>>
  <2> SUFFICES ASSUME NEW n \in 1..Len(proc[w].out)
               PROVE  /\ at[proc[w].out[n]][2] <= acked[g][at[proc[w].out[n]][1]]
                      /\ at[proc[w].out[n]] # <<p, off + 1>>
    OBVIOUS
  <2>1. at[proc[w].out[n]][2] <= acked[g][at[proc[w].out[n]][1]]
    BY <1>1, <1>2 DEF QueueOK
  <2>2. ~(off + 1 <= acked[g][p])
    BY <1>2, <1>4
  <2> QED
    BY <2>1, <2>2
<1>8. QueueOK(at, proc'[w], g, acked')
  BY <1>1, <1>2, <1>5, <1>7 DEF QueueOK
<1>9. QueuesOK(at)'
  BY <1>1, <1>2, <1>3, <1>6, <1>8, QueueFrame
<1>10. ASSUME NEW h \in Groups, NEW q \in Partitions, NEW i \in Nat,
              ~(h = g /\ <<q, i>> = <<p, off + 1>>)
       PROVE  /\ Chances(at, h, q, i, proc, owner, acked) \in Nat
              /\ Chances(at, h, q, i, proc', owner', acked') \in Nat
              /\ Chances(at, h, q, i, proc', owner', acked') <=
                   Chances(at, h, q, i, proc, owner, acked)
  <2>1. h = g /\ Holds(proc'[w], at, q, i) => Holds(proc[w], at, q, i)
    BY <1>2, <1>5, <1>10 DEF Holds, InQueue
  <2>2. ~Secured(w, q, i, proc, owner)
    BY <1>2 DEF Secured, Busy
  <2> DEFINE c == Chances(at, h, q, i, proc, owner, acked)
             c2 == Chances(at, h, q, i, proc', owner', acked')
  <2>3. PICK d \in {0, 1} : c \in Nat /\ c2 \in Nat /\ c2 + d <= c + 0
    BY <1>1, <1>2, <1>6, <2>1, <2>2, ChancesStep DEF Bit
  <2> HIDE DEF c, c2
  <2>4. c2 <= c
    BY <2>3
  <2> QED
    BY <2>3, <2>4 DEF c, c2
<1>11. /\ Chances(at, g, p, off + 1, proc, owner, acked) \in Nat
       /\ Chances(at, g, p, off + 1, proc', owner', acked') \in Nat
       /\ Chances(at, g, p, off + 1, proc', owner', acked') <=
            Chances(at, g, p, off + 1, proc, owner, acked)
  <2> DEFINE n == Cardinality(Holders(at, g, p, off + 1, proc))
             n2 == Cardinality(Holders(at, g, p, off + 1, proc'))
  <2>1. n \in Nat /\ n2 \in Nat /\ n2 <= n + 1
    BY <1>2, HoldersStep DEF Bit
  <2>2. Open(g, p, off + 1, proc, owner, acked)
    <3>1. \A v \in Processes : GroupOf[v] = g => ~Secured(v, p, off + 1, proc, owner)
      BY <1>2 DEF Secured, Busy
    <3> QED
      BY <1>2, <1>4, <3>1 DEF Open
  <2>3. ~Open(g, p, off + 1, proc', owner', acked')
    <3>1. Secured(w, p, off + 1, proc', owner')
      BY <1>2, <1>5 DEF Secured, Busy
    <3> QED
      BY <3>1 DEF Open
  <2>4. /\ Chances(at, g, p, off + 1, proc, owner, acked) = n + 1
        /\ Chances(at, g, p, off + 1, proc', owner', acked') = n2 + 0
    BY <2>2, <2>3 DEF Chances, Bit
  <2> HIDE DEF n, n2
  <2> QED
    BY <2>1, <2>4
<1>12. NoNewChance(at)
  <2> SUFFICES ASSUME NEW h \in Groups, NEW q \in Partitions, NEW i \in Nat
               PROVE  /\ Chances(at, h, q, i, proc, owner, acked) \in Nat
                      /\ Chances(at, h, q, i, proc', owner', acked') \in Nat
                      /\ Chances(at, h, q, i, proc', owner', acked') <=
                           Chances(at, h, q, i, proc, owner, acked)
    BY DEF NoNewChance
  <2>1. CASE h = g /\ <<q, i>> = <<p, off + 1>>
    <3>1. h = g /\ q = p /\ i = off + 1
      BY <2>1
    <3> QED
      BY <1>11, <3>1
  <2> QED
    BY <1>10, <2>1
<1> QED
  BY <1>9, <1>12

(* A step of w that ends its work, keeps the record or drops it unanswered,*)
(* gives no record a new chance.                                           *)
LEMMA WorkAnswers ==
  ASSUME NEW Record, NEW Output, LoopInv(Record, Output), LoopTypeOK(Output)',
         NEW w \in Processes, NEW at \in [Output -> Partitions \X Nat],
         OthersRest(w), TakesOnlyOwn(w), acked' = acked,
         \A p, i : Holds(proc'[w], at, p, i) => Holds(proc[w], at, p, i),
         \A p \in Partitions, i \in Nat :
            Secured(w, p, i, proc, owner) =>
              \/ Secured(w, p, i, proc', owner')
              \/ Holds(proc[w], at, p, i) /\ ~Holds(proc'[w], at, p, i)
  PROVE  NoNewChance(at)
<1> SUFFICES ASSUME NEW g \in Groups, NEW p \in Partitions, NEW i \in Nat
             PROVE  /\ Chances(at, g, p, i, proc, owner, acked) \in Nat
                    /\ Chances(at, g, p, i, proc', owner', acked') \in Nat
                    /\ Chances(at, g, p, i, proc', owner', acked') <=
                         Chances(at, g, p, i, proc, owner, acked)
  BY DEF NoNewChance
<1>1. LoopTypeOK(Output) /\ CommitsGrow
  BY DEF LoopInv, LoopTypeOK, CommitsGrow
<1> DEFINE c == Chances(at, g, p, i, proc, owner, acked)
           c2 == Chances(at, g, p, i, proc', owner', acked')
           opened == /\ Open(g, p, i, proc', owner', acked')
                     /\ g = GroupOf[w] /\ Secured(w, p, i, proc, owner)
           dropped == g = GroupOf[w] /\ Holds(proc[w], at, p, i)
                        /\ ~Holds(proc'[w], at, p, i)
<1>2. c \in Nat /\ c2 \in Nat /\ c2 + Bit(dropped) <= c + Bit(opened)
  BY <1>1, ChancesStep
<1>3. opened => dropped
  BY DEF Open
<1> HIDE DEF c, c2, opened, dropped
<1>4. c2 <= c
  BY <1>2, <1>3 DEF Bit
<1> QED
  BY <1>2, <1>4 DEF c, c2

(* Producing the answer to the record at work.                             *)
LEMMA ProduceAnswers ==
  ASSUME NEW Record, NEW Output, LoopInv(Record, Output), NEW w \in Processes,
         NEW at \in [Output -> Partitions \X Nat], QueuesOK(at), input' = input,
         NEW rec \in Output, at[rec] = Hand(proc[w]), Produce(w, rec)
  PROVE  NoNewChance(at) /\ QueuesOK(at)'
<1>1. LoopTypeOK(Output) /\ LoopTypeOK(Output)'
  <2>1. LoopInv(Record, Output)'
    BY ProduceStep
  <2> QED
    BY <2>1 DEF LoopInv
<1>2. /\ OthersRest(w)
      /\ proc[w].pc = "work" /\ proc'[w].pc = "flush" /\ proc'[w].msg = proc[w].msg
      /\ proc'[w].out = Append(proc[w].out, rec) /\ proc[w].out \in Seq(Output)
      /\ UNCHANGED <<owner, acked>>
  <2>1. proc \in [Processes -> Process(Output)] /\ proc[w] \in Process(Output)
        /\ proc[w].out \in Seq(Output)
    BY <1>1, ProcFacts
  <2>2. proc'[w].out = Append(proc[w].out, rec)
    BY <2>1 DEF Produce, Process
  <2> QED
    BY <1>1, <2>1, <2>2, ProduceLemma
<1>3. Hand(proc'[w]) = Hand(proc[w])
  BY <1>2 DEF Hand
<1>4. ASSUME NEW n \in 1..Len(proc'[w].out)
      PROVE  \/ n \in 1..Len(proc[w].out) /\ proc'[w].out[n] = proc[w].out[n]
             \/ n = Len(proc[w].out) + 1 /\ proc'[w].out[n] = rec
  BY <1>2
<1>5. TakesOnlyOwn(w) /\ CommitsGrow /\ acked' \in [Groups -> [Partitions -> Nat]]
  BY <1>1, <1>2 DEF TakesOnlyOwn, CommitsGrow, LoopTypeOK
<1>6. \A p, i : Holds(proc'[w], at, p, i) => Holds(proc[w], at, p, i)
  BY <1>2, <1>4 DEF Holds, InQueue
<1>7. \A p \in Partitions, i \in Nat :
        Secured(w, p, i, proc, owner) => Secured(w, p, i, proc', owner')
  BY <1>2, <1>3 DEF Secured, Busy
<1>8. QueueOK(at, proc'[w], GroupOf[w], acked')
  <2>1. QueueOK(at, proc[w], GroupOf[w], acked)
    BY DEF QueuesOK
  <2>2. ASSUME NEW m \in 1..Len(proc'[w].out), NEW n \in 1..Len(proc'[w].out),
               at[proc'[w].out[m]] = at[proc'[w].out[n]]
        PROVE  m = n
    BY <1>2, <1>4, <2>1, <2>2 DEF QueueOK
  <2>3. ASSUME NEW n \in 1..Len(proc'[w].out)
        PROVE  \/ at[proc'[w].out[n]][2] <= acked[GroupOf[w]][at[proc'[w].out[n]][1]]
               \/ at[proc'[w].out[n]] = Hand(proc'[w])
    BY <1>2, <1>3, <1>4, <2>1 DEF QueueOK
  <2> QED
    BY <1>2, <2>2, <2>3 DEF QueueOK
<1>9. QueuesOK(at)'
  BY <1>1, <1>2, <1>5, <1>8, QueueFrame
<1>10. NoNewChance(at)
  BY <1>1, <1>2, <1>5, <1>6, <1>7, WorkAnswers
<1> QED
  BY <1>9, <1>10

(* Giving the record at work up, with the process or without.              *)
LEMMA GiveUpAnswers ==
  ASSUME NEW Record, NEW Output, LoopInv(Record, Output), NEW w \in Processes,
         NEW at \in [Output -> Partitions \X Nat], QueuesOK(at), input' = input,
         proc[w].pc = "work", trouble' \in [Kinds -> Nat],
         Die(w) \/ (Goto(w, "commit") /\ UNCHANGED <<owner, acked>>)
  PROVE  NoNewChance(at) /\ QueuesOK(at)'
<1>1. LoopTypeOK(Output)
  BY DEF LoopInv
<1>2. LoopInv(Record, Output)' /\ OthersRest(w)
  BY DieStep, GiveUpStep DEF Busy
<1>3. LoopTypeOK(Output)'
  BY <1>2 DEF LoopInv
<1>4. acked' = acked /\ TakesOnlyOwn(w)
  <2>1. CASE Die(w)
    <3>1. acked' = acked /\ Released(w)
      BY <2>1 DEF Die
    <3>2. GroupOf[w] \in Groups
          /\ owner \in [Groups -> [Partitions -> Processes \cup {NoProcess}]]
      BY <1>1, ProcFacts
    <3> QED
      BY <3>1, <3>2 DEF Released, TakesOnlyOwn
  <2> QED
    BY <2>1 DEF TakesOnlyOwn
<1>5. CommitsGrow /\ acked' \in [Groups -> [Partitions -> Nat]]
  BY <1>1, <1>4 DEF CommitsGrow, LoopTypeOK
<1>6. \/ proc'[w].pc = "down" /\ proc'[w].out = <<>>
      \/ /\ proc'[w].pc = "commit" /\ proc'[w].msg = proc[w].msg
         /\ proc'[w].out = proc[w].out /\ owner' = owner
  BY <1>1, DieLemma, GotoLemma DEF States, Busy
<1>7. \A p, i : Holds(proc'[w], at, p, i) => Holds(proc[w], at, p, i)
  BY <1>6 DEF Holds, InQueue
<1>8. QueueOK(at, proc[w], GroupOf[w], acked)
  BY DEF QueuesOK
<1>9. ASSUME NEW p \in Partitions, NEW i \in Nat, Secured(w, p, i, proc, owner)
      PROVE  Holds(proc[w], at, p, i) /\ ~Holds(proc'[w], at, p, i)
  BY <1>6, <1>8, <1>9 DEF Secured, Holds, InQueue, QueueOK
<1>10. QueueOK(at, proc'[w], GroupOf[w], acked')
  BY <1>4, <1>6, <1>8 DEF QueueOK
<1>11. QueuesOK(at)'
  BY <1>1, <1>2, <1>5, <1>10, QueueFrame
<1>12. NoNewChance(at)
  BY <1>2, <1>3, <1>4, <1>7, <1>9, WorkAnswers
<1> QED
  BY <1>11, <1>12

(* An answer that leaves the queue was a chance of its record.             *)
LEMMA SentAnswers ==
  ASSUME NEW Record, NEW Output, LoopInv(Record, Output), NEW w \in Processes,
         NEW at \in [Output -> Partitions \X Nat], QueuesOK(at), input' = input,
         trouble' \in [Kinds -> Nat], Unqueue(w)
  PROVE  /\ NoNewChance(at) /\ QueuesOK(at)'
         /\ LET g == GroupOf[w]
                p == at[Head(proc[w].out)][1]
                i == at[Head(proc[w].out)][2]
            IN  Chances(at, g, p, i, proc', owner', acked') + 1 <=
                  Chances(at, g, p, i, proc, owner, acked)
<1>1. LoopTypeOK(Output) /\ LoopTypeOK(Output)'
  <2>1. LoopInv(Record, Output)'
    BY SentStep
  <2> QED
    BY <2>1 DEF LoopInv
<1>2. /\ OthersRest(w)
      /\ proc'[w].pc = proc[w].pc /\ proc'[w].msg = proc[w].msg
      /\ proc'[w].out = Tail(proc[w].out)
      /\ proc[w].out \in Seq(Output) /\ proc[w].out # <<>>
      /\ UNCHANGED <<owner, acked>>
  BY <1>1, UnqueueLemma
<1>3. QueueOK(at, proc[w], GroupOf[w], acked)
  BY DEF QueuesOK
<1>4. /\ QueueOK(at, proc'[w], GroupOf[w], acked)
      /\ \A n \in 1..Len(proc'[w].out) : at[proc'[w].out[n]] # at[Head(proc[w].out)]
  BY <1>2, <1>3, QueueTail
<1>5. TakesOnlyOwn(w) /\ CommitsGrow /\ acked' \in [Groups -> [Partitions -> Nat]]
  BY <1>1, <1>2 DEF TakesOnlyOwn, CommitsGrow, LoopTypeOK
<1>6. \A p, i : Holds(proc'[w], at, p, i) => Holds(proc[w], at, p, i)
  <2>1. ASSUME NEW n \in 1..Len(proc'[w].out)
        PROVE  n + 1 \in 1..Len(proc[w].out) /\ proc'[w].out[n] = proc[w].out[n + 1]
    BY <1>2
  <2> QED
    BY <1>2, <2>1 DEF Holds, InQueue, Hand
<1>7. \A p \in Partitions, i \in Nat :
        Secured(w, p, i, proc, owner) => Secured(w, p, i, proc', owner')
  BY <1>2 DEF Secured, Hand
<1>8. QueuesOK(at)'
  BY <1>1, <1>2, <1>4, <1>5, QueueFrame
<1>9. NoNewChance(at)
  BY <1>1, <1>2, <1>5, <1>6, <1>7, WorkAnswers
<1> DEFINE g == GroupOf[w]
           p == at[Head(proc[w].out)][1]
           i == at[Head(proc[w].out)][2]
<1>10. /\ Head(proc[w].out) = proc[w].out[1] /\ 1 \in 1..Len(proc[w].out)
       /\ at[Head(proc[w].out)] \in Partitions \X Nat
  BY <1>2
<1>11. /\ p \in Partitions /\ i \in Nat /\ at[Head(proc[w].out)] = <<p, i>>
       /\ g \in Groups
  BY <1>1, <1>10, ProcFacts
<1> HIDE DEF p, i
<1>12. Holds(proc[w], at, p, i) /\ ~Holds(proc'[w], at, p, i)
  BY <1>2, <1>3, <1>4, <1>10, <1>11 DEF Holds, InQueue, QueueOK, Hand
<1>13. ~(Open(g, p, i, proc', owner', acked') /\ Secured(w, p, i, proc, owner))
  BY <1>7, <1>11 DEF Open
<1> DEFINE c == Chances(at, g, p, i, proc, owner, acked)
           c2 == Chances(at, g, p, i, proc', owner', acked')
<1>14. c2 + 1 <= c + 0
  BY <1>1, <1>2, <1>5, <1>11, <1>12, <1>13, ChancesStep DEF Bit
<1>15. c \in Nat /\ c2 \in Nat
  BY <1>9, <1>11 DEF NoNewChance
<1> HIDE DEF c, c2
<1>16. c2 + 1 <= c
  BY <1>14, <1>15
<1> QED
  BY <1>8, <1>9, <1>16 DEF c, c2, p, i

(* A group and a partition of its topic: each record is owed an answer by  *)
(* every group.                                                            *)
Lane == Groups \X Partitions

(* How often each record was answered, or still may be.                    *)
Pots(at, told, pr, own, ack) ==
  [x \in Lane \X Nat |-> told[x] + Chances(at, x[1][1], x[1][2], x[2], pr, own, ack)]

(* The answers beyond the first are no more than d.                        *)
SurplusBounded(at, told, pr, own, ack, d) ==
  LET surplus == Extra(Lane, Pots(at, told, pr, own, ack))
  IN  IsFiniteSet(surplus) /\ Cardinality(surplus) <= d

(* A step that gives no record more answers and chances.                   *)
LEMMA SurplusStays ==
  ASSUME NEW at, NEW told \in [Lane \X Nat -> Nat], NEW told2 \in [Lane \X Nat -> Nat],
         NEW d \in Nat, NEW d2 \in Nat, d <= d2,
         SurplusBounded(at, told, proc, owner, acked, d),
         \A g \in Groups, p \in Partitions, i \in Nat :
           LET c == Chances(at, g, p, i, proc, owner, acked)
               c2 == Chances(at, g, p, i, proc', owner', acked')
           IN  /\ c \in Nat /\ c2 \in Nat
               /\ told2[<<<<g, p>>, i>>] + c2 <= told[<<<<g, p>>, i>>] + c
  PROVE  SurplusBounded(at, told2, proc', owner', acked', d2)
<1> DEFINE f == Pots(at, told, proc, owner, acked)
           f2 == Pots(at, told2, proc', owner', acked')
<1>1. ASSUME NEW x \in Lane \X Nat
      PROVE  f[x] \in Nat /\ f2[x] \in Nat /\ f2[x] <= f[x]
  <2> DEFINE g == x[1][1]
             p == x[1][2]
             i == x[2]
  <2>1. g \in Groups /\ p \in Partitions /\ i \in Nat /\ x = <<<<g, p>>, i>>
    BY DEF Lane
  <2> HIDE DEF g, p, i
  <2>2. /\ f[x] = told[x] + Chances(at, g, p, i, proc, owner, acked)
        /\ f2[x] = told2[x] + Chances(at, g, p, i, proc', owner', acked')
    BY DEF Pots, g, p, i
  <2>3. told[x] \in Nat /\ told2[x] \in Nat
    OBVIOUS
  <2>4. /\ Chances(at, g, p, i, proc, owner, acked) \in Nat
        /\ Chances(at, g, p, i, proc', owner', acked') \in Nat
        /\ told2[x] + Chances(at, g, p, i, proc', owner', acked') <=
             told[x] + Chances(at, g, p, i, proc, owner, acked)
    BY <2>1
  <2> HIDE DEF f, f2
  <2> QED
    BY <2>2, <2>3, <2>4
<1>2. f \in [Lane \X Nat -> Nat] /\ f2 \in [Lane \X Nat -> Nat]
  <2>1. f = [x \in Lane \X Nat |-> f[x]] /\ f2 = [x \in Lane \X Nat |-> f2[x]]
    BY DEF Pots
  <2> HIDE DEF f, f2
  <2> QED
    BY <1>1, <2>1
<1> HIDE DEF f, f2
<1>3. Extra(Lane, f2) \subseteq Extra(Lane, f)
  BY <1>1, <1>2, ExtraStays
<1>4. IsFiniteSet(Extra(Lane, f)) /\ Cardinality(Extra(Lane, f)) <= d
  BY DEF SurplusBounded, f
<1>5. /\ IsFiniteSet(Extra(Lane, f2)) /\ Cardinality(Extra(Lane, f2)) \in Nat
      /\ Cardinality(Extra(Lane, f)) \in Nat
      /\ Cardinality(Extra(Lane, f2)) <= Cardinality(Extra(Lane, f))
  BY <1>3, <1>4, NoMore
<1>6. Cardinality(Extra(Lane, f2)) <= d2
  BY <1>4, <1>5
<1> QED
  BY <1>5, <1>6 DEF SurplusBounded, f2

(* The loop's own steps repeat an answer by a disruption only.             *)
LEMMA TurnSurplus ==
  ASSUME NEW Record, NEW Output, LoopInv(Record, Output), NEW w \in Processes,
         input' = input, Turn(w) \/ Upset(w),
         NEW at, NEW told \in [Lane \X Nat -> Nat],
         SurplusBounded(at, told, proc, owner, acked, Disruptions)
  PROVE  SurplusBounded(at, told, proc', owner', acked', Disruptions')
<1>1. /\ Disruptions \in Nat /\ Disruptions' \in Nat /\ Disruptions <= Disruptions'
      /\ Disruptions' = Disruptions + 1 \/ Disruptions' = Disruptions
  BY TurnSecures
<1>2. \A g \in Groups, p \in Partitions, i \in Nat :
         LET c == Chances(at, g, p, i, proc, owner, acked)
             c2 == Chances(at, g, p, i, proc', owner', acked')
         IN  /\ c \in Nat /\ c2 \in Nat
             /\ \/ c2 <= c
                \/ /\ c2 <= c + 1 /\ Disruptions' = Disruptions + 1
                   /\ g = GroupOf[w] /\ <<p, i>> = Hand(proc[w])
  BY TurnChances
<1>3. \A g \in Groups, p \in Partitions, i \in Nat : told[<<<<g, p>>, i>>] \in Nat
  BY DEF Lane
<1> HIDE DEF Disruptions
<1>4. CASE \A g \in Groups, p \in Partitions, i \in Nat :
             Chances(at, g, p, i, proc', owner', acked') <=
               Chances(at, g, p, i, proc, owner, acked)
  <2>1. ASSUME NEW g \in Groups, NEW p \in Partitions, NEW i \in Nat
        PROVE  LET c == Chances(at, g, p, i, proc, owner, acked)
                   c2 == Chances(at, g, p, i, proc', owner', acked')
               IN  /\ c \in Nat /\ c2 \in Nat
                   /\ told[<<<<g, p>>, i>>] + c2 <= told[<<<<g, p>>, i>>] + c
    <3> DEFINE c == Chances(at, g, p, i, proc, owner, acked)
               c2 == Chances(at, g, p, i, proc', owner', acked')
    <3>1. told[<<<<g, p>>, i>>] \in Nat /\ c \in Nat /\ c2 \in Nat /\ c2 <= c
      BY <1>2, <1>3, <1>4
    <3> HIDE DEF c, c2
    <3> QED
      BY <3>1 DEF c, c2
  <2> QED
    BY <1>1, <2>1, SurplusStays
<1>5. ASSUME NEW g \in Groups, NEW p \in Partitions, NEW i \in Nat,
             ~(Chances(at, g, p, i, proc', owner', acked') <=
                 Chances(at, g, p, i, proc, owner, acked))
      PROVE  SurplusBounded(at, told, proc', owner', acked', Disruptions')
  <2> DEFINE y == <<<<g, p>>, i>>
             f == Pots(at, told, proc, owner, acked)
             f2 == Pots(at, told, proc', owner', acked')
  <2>1. /\ g = GroupOf[w] /\ <<p, i>> = Hand(proc[w])
        /\ Disruptions' = Disruptions + 1
    BY <1>2, <1>5
  <2>2. ASSUME NEW x \in Lane \X Nat
        PROVE  /\ f[x] \in Nat /\ f2[x] \in Nat
               /\ f2[x] <= f[x] \/ (x = y /\ f2[x] <= f[x] + 1)
    <3> DEFINE h == x[1][1]
               q == x[1][2]
               j == x[2]
    <3>1. h \in Groups /\ q \in Partitions /\ j \in Nat /\ x = <<<<h, q>>, j>>
      BY DEF Lane
    <3> HIDE DEF h, q, j
    <3>2. /\ f[x] = told[x] + Chances(at, h, q, j, proc, owner, acked)
          /\ f2[x] = told[x] + Chances(at, h, q, j, proc', owner', acked')
      BY DEF Pots, h, q, j
    <3> DEFINE c == Chances(at, h, q, j, proc, owner, acked)
               c2 == Chances(at, h, q, j, proc', owner', acked')
    <3>3. /\ c \in Nat /\ c2 \in Nat
          /\ \/ c2 <= c
             \/ c2 <= c + 1 /\ h = GroupOf[w] /\ <<q, j>> = Hand(proc[w])
      BY <1>2, <3>1
    <3>4. h = GroupOf[w] /\ <<q, j>> = Hand(proc[w]) => x = y
      <4>1. SUFFICES ASSUME h = g, <<q, j>> = <<p, i>> PROVE x = y
        BY <2>1
      <4>2. h = g /\ q = p /\ j = i
        BY <4>1
      <4> QED
        BY <3>1, <4>2
    <3>5. told[x] \in Nat
      OBVIOUS
    <3> HIDE DEF c, c2, f, f2
    <3> QED
      BY <3>2, <3>3, <3>4, <3>5 DEF c, c2
  <2>3. f \in [Lane \X Nat -> Nat] /\ f2 \in [Lane \X Nat -> Nat]
    <3>1. f = [x \in Lane \X Nat |-> f[x]] /\ f2 = [x \in Lane \X Nat |-> f2[x]]
      BY DEF Pots
    <3> HIDE DEF f, f2
    <3> QED
      BY <2>2, <3>1
  <2>4. y \in Lane \X Nat
    BY DEF Lane
  <2> HIDE DEF f, f2, y
  <2>5. Extra(Lane, f2) \subseteq Extra(Lane, f) \cup {<<y[1], y[2], f2[y]>>}
    BY <2>2, <2>3, <2>4, ExtraGrows
  <2>6. IsFiniteSet(Extra(Lane, f)) /\ Cardinality(Extra(Lane, f)) <= Disruptions
    BY DEF SurplusBounded, f
  <2>7. /\ IsFiniteSet(Extra(Lane, f2)) /\ Cardinality(Extra(Lane, f2)) \in Nat
        /\ Cardinality(Extra(Lane, f)) \in Nat
        /\ Cardinality(Extra(Lane, f2)) <= Cardinality(Extra(Lane, f)) + 1
    BY <2>5, <2>6, OneMore
  <2>8. Cardinality(Extra(Lane, f2)) <= Disruptions'
    BY <1>1, <2>1, <2>6, <2>7
  <2> QED
    BY <2>7, <2>8 DEF SurplusBounded, f2
<1> QED
  BY <1>4, <1>5

(* Other steps that give no record a new chance or answer.                 *)
LEMMA RestSurplus ==
  ASSUME NEW Output, LoopTypeOK(Output), NEW at, NEW told \in [Lane \X Nat -> Nat],
         SurplusBounded(at, told, proc, owner, acked, Disruptions),
         NoNewChance(at), UNCHANGED trouble
  PROVE  SurplusBounded(at, told, proc', owner', acked', Disruptions')
<1>1. Disruptions \in Nat /\ Disruptions' = Disruptions
  BY DEF LoopTypeOK, Disruptions
<1>2. \A g \in Groups, p \in Partitions, i \in Nat : told[<<<<g, p>>, i>>] \in Nat
  BY DEF Lane
<1> HIDE DEF Disruptions
<1>3. ASSUME NEW g \in Groups, NEW p \in Partitions, NEW i \in Nat
      PROVE  LET c == Chances(at, g, p, i, proc, owner, acked)
                 c2 == Chances(at, g, p, i, proc', owner', acked')
             IN  /\ c \in Nat /\ c2 \in Nat
                 /\ told[<<<<g, p>>, i>>] + c2 <= told[<<<<g, p>>, i>>] + c
  <2> DEFINE c == Chances(at, g, p, i, proc, owner, acked)
             c2 == Chances(at, g, p, i, proc', owner', acked')
  <2>1. told[<<<<g, p>>, i>>] \in Nat /\ c \in Nat /\ c2 \in Nat /\ c2 <= c
    BY <1>2 DEF NoNewChance
  <2> HIDE DEF c, c2
  <2> QED
    BY <2>1 DEF c, c2
<1>4. Disruptions <= Disruptions'
  BY <1>1
<1> QED
  BY <1>1, <1>3, <1>4, SurplusStays

(* No record has more answers than before but the one that the head of w's *)
(* queue answers, and that one has one more at most.                       *)
HeadTold(w, at, told, told2) ==
  \A g \in Groups, p \in Partitions, i \in Nat :
    \/ told2[<<<<g, p>>, i>>] <= told[<<<<g, p>>, i>>]
    \/ /\ g = GroupOf[w] /\ <<p, i>> = at[Head(proc[w].out)]
       /\ told2[<<<<g, p>>, i>>] <= told[<<<<g, p>>, i>>] + 1

(* An answer that is published costs its chance.                           *)
LEMMA SentSurplus ==
  ASSUME NEW Record, NEW Output, LoopInv(Record, Output), NEW w \in Processes,
         NEW at \in [Output -> Partitions \X Nat], QueuesOK(at), input' = input,
         Sent(w), NEW told \in [Lane \X Nat -> Nat], NEW told2 \in [Lane \X Nat -> Nat],
         SurplusBounded(at, told, proc, owner, acked, Disruptions),
         HeadTold(w, at, told, told2)
  PROVE  SurplusBounded(at, told2, proc', owner', acked', Disruptions') /\ QueuesOK(at)'
<1>1. Disruptions \in Nat /\ Disruptions' = Disruptions /\ trouble' \in [Kinds -> Nat]
  BY DEF LoopInv, LoopTypeOK, Disruptions, Sent, Kinds
<1>2. /\ NoNewChance(at) /\ QueuesOK(at)'
      /\ LET g == GroupOf[w]
             p == at[Head(proc[w].out)][1]
             i == at[Head(proc[w].out)][2]
         IN  Chances(at, g, p, i, proc', owner', acked') + 1 <=
               Chances(at, g, p, i, proc, owner, acked)
  BY <1>1, SentAnswers DEF Sent
<1> HIDE DEF Disruptions
<1>3. ASSUME NEW g \in Groups, NEW p \in Partitions, NEW i \in Nat
      PROVE  LET c == Chances(at, g, p, i, proc, owner, acked)
                 c2 == Chances(at, g, p, i, proc', owner', acked')
             IN  /\ c \in Nat /\ c2 \in Nat
                 /\ told2[<<<<g, p>>, i>>] + c2 <= told[<<<<g, p>>, i>>] + c
  <2> DEFINE c == Chances(at, g, p, i, proc, owner, acked)
             c2 == Chances(at, g, p, i, proc', owner', acked')
             t == told[<<<<g, p>>, i>>]
             t2 == told2[<<<<g, p>>, i>>]
  <2>1. t \in Nat /\ t2 \in Nat
    BY DEF Lane
  <2>2. c \in Nat /\ c2 \in Nat /\ c2 <= c
    BY <1>2 DEF NoNewChance
  <2>3. g = GroupOf[w] /\ <<p, i>> = at[Head(proc[w].out)] => c2 + 1 <= c
    BY <1>2
  <2>4. t2 <= t \/ (t2 <= t + 1 /\ g = GroupOf[w] /\ <<p, i>> = at[Head(proc[w].out)])
    BY DEF HeadTold
  <2> HIDE DEF c, c2, t, t2
  <2>5. t2 + c2 <= t + c
    BY <2>1, <2>2, <2>3, <2>4
  <2> QED
    BY <2>2, <2>5 DEF c, c2, t, t2
<1>4. Disruptions <= Disruptions'
  BY <1>1
<1> QED
  BY <1>1, <1>2, <1>3, <1>4, SurplusStays

(* At first every record has one chance at most, and no queue a record.    *)
LEMMA SurplusStart ==
  ASSUME LoopInit, NEW at, NEW told \in [Lane \X Nat -> Nat],
         \A x \in Lane \X Nat : told[x] = 0
  PROVE  SurplusBounded(at, told, proc, owner, acked, Disruptions) /\ QueuesOK(at)
<1>1. \A w \in Processes : proc[w].pc = "down" /\ proc[w].out = <<>>
  BY DEF LoopInit, Idle
<1>2. QueuesOK(at)
  BY <1>1 DEF QueuesOK, QueueOK
<1>3. ASSUME NEW g \in Groups, NEW p \in Partitions, NEW i \in Nat
      PROVE  Chances(at, g, p, i, proc, owner, acked) \in {0, 1}
  <2>1. Holders(at, g, p, i, proc) = {}
    BY <1>1 DEF Holders, Holds, InQueue
  <2> QED
    BY <2>1, FS_EmptySet DEF Chances, Bit
<1> DEFINE f == Pots(at, told, proc, owner, acked)
<1>4. Extra(Lane, f) = {}
  <2> SUFFICES ASSUME NEW e \in Lane \X Nat \X Nat, e[3] \in 2..f[<<e[1], e[2]>>]
               PROVE  FALSE
    BY DEF Extra
  <2> DEFINE x == <<e[1], e[2]>>
  <2>1. x \in Lane \X Nat /\ e[1][1] \in Groups /\ e[1][2] \in Partitions /\ e[2] \in Nat
    BY DEF Lane
  <2>2. f[x] = told[x] + Chances(at, e[1][1], e[1][2], e[2], proc, owner, acked)
    BY <2>1 DEF Pots
  <2>3. f[x] \in {0, 1}
    BY <1>3, <2>1, <2>2
  <2> QED
    BY <2>3
<1>5. Disruptions = 0
  BY DEF LoopInit, Disruptions
<1> QED
  BY <1>2, <1>4, <1>5, FS_EmptySet DEF SurplusBounded

-------------------------------------------------------------------------------
(* What is passed without an answer.                                       *)

(* The record in hand is committed next, with no answer in the queue.      *)
Done(r, at, p, i) ==
  /\ Hand(r) = <<p, i>>
  /\ r.pc = "commit" \/ (r.pc = "flush" /\ ~InQueue(r, at, p, i))

(* The group has passed record i of partition p, or is about to.           *)
Passed(at, g, p, i, pr, ack) ==
  i <= ack[g][p] \/ \E w \in Processes : GroupOf[w] = g /\ Done(pr[w], at, p, i)

(* The records that are due an answer and have been passed without one are *)
(* no more than d.                                                         *)
LossesBounded(at, due, pr, ack, d) ==
  LET lost == {x \in due : Passed(at, x[1][1], x[1][2], x[2], pr, ack)}
  IN  IsFiniteSet(lost) /\ Cardinality(lost) <= d

(* A step that passes no record that is due.                               *)
LEMMA LossesStay ==
  ASSUME NEW at, NEW due, NEW due2, NEW d \in Nat, NEW d2 \in Nat, d <= d2,
         LossesBounded(at, due, proc, acked, d),
         \A x \in due2 : Passed(at, x[1][1], x[1][2], x[2], proc', acked') =>
           x \in due /\ Passed(at, x[1][1], x[1][2], x[2], proc, acked)
  PROVE  LossesBounded(at, due2, proc', acked', d2)
<1> DEFINE lost == {x \in due : Passed(at, x[1][1], x[1][2], x[2], proc, acked)}
           lost2 == {x \in due2 : Passed(at, x[1][1], x[1][2], x[2], proc', acked')}
<1>1. lost2 \subseteq lost
  OBVIOUS
<1>2. IsFiniteSet(lost) /\ Cardinality(lost) <= d
  BY DEF LossesBounded
<1> HIDE DEF lost, lost2
<1>3. /\ IsFiniteSet(lost2) /\ Cardinality(lost2) \in Nat /\ Cardinality(lost) \in Nat
      /\ Cardinality(lost2) <= Cardinality(lost)
  BY <1>1, <1>2, NoMore
<1>4. Cardinality(lost2) <= d2
  BY <1>2, <1>3
<1> QED
  BY <1>3, <1>4 DEF LossesBounded, lost2

(* ... or one at the price of something gone wrong.                        *)
LEMMA LossesGrow ==
  ASSUME NEW at, NEW due, NEW d \in Nat, NEW y,
         LossesBounded(at, due, proc, acked, d),
         \A x \in due : Passed(at, x[1][1], x[1][2], x[2], proc', acked') =>
           x = y \/ Passed(at, x[1][1], x[1][2], x[2], proc, acked)
  PROVE  LossesBounded(at, due, proc', acked', d + 1)
<1> DEFINE lost == {x \in due : Passed(at, x[1][1], x[1][2], x[2], proc, acked)}
           lost2 == {x \in due : Passed(at, x[1][1], x[1][2], x[2], proc', acked')}
<1>1. lost2 \subseteq lost \cup {y}
  OBVIOUS
<1>2. IsFiniteSet(lost) /\ Cardinality(lost) <= d
  BY DEF LossesBounded
<1> HIDE DEF lost, lost2
<1>3. /\ IsFiniteSet(lost2) /\ Cardinality(lost2) \in Nat /\ Cardinality(lost) \in Nat
      /\ Cardinality(lost2) <= Cardinality(lost) + 1
  BY <1>1, <1>2, OneMore
<1>4. Cardinality(lost2) <= d + 1
  BY <1>2, <1>3
<1> QED
  BY <1>3, <1>4 DEF LossesBounded, lost2

(* A step of w passes what w is done with.                                 *)
LEMMA PassedStep ==
  ASSUME NEW w \in Processes, OthersRest(w), acked' = acked,
         NEW at, NEW g, NEW p, NEW i,
         Passed(at, g, p, i, proc', acked'), ~Passed(at, g, p, i, proc, acked)
  PROVE  g = GroupOf[w] /\ Done(proc'[w], at, p, i) /\ ~Done(proc[w], at, p, i)
BY DEF Passed, OthersRest

(* The loop's own steps pass a record by a fault only.                     *)
LEMMA TurnPasses ==
  ASSUME NEW Record, NEW Output, LoopInv(Record, Output), NEW w \in Processes,
         Effect(w), NEW at, NEW g \in Groups, NEW p \in Partitions, NEW i \in Nat,
         Passed(at, g, p, i, proc', acked'), ~Passed(at, g, p, i, proc, acked)
  PROVE  trouble'.faults = trouble.faults + 1 /\ g = GroupOf[w] /\ Hand(proc[w]) = <<p, i>>
<1>1. OthersRest(w) /\ (Rests(w) \/ Keeps(w) \/ Flushes(w) \/ Loses(w) \/ Commit(w))
  BY DEF Effect
<1>2. acked' = acked =>
        g = GroupOf[w] /\ Done(proc'[w], at, p, i) /\ ~Done(proc[w], at, p, i)
  BY <1>1, PassedStep
<1>3. CASE Rests(w)
  BY <1>2, <1>3 DEF Rests, Done, Busy
<1>4. CASE Keeps(w)
  BY <1>2, <1>4 DEF Keeps, Done, Hand, InQueue
<1>5. CASE Flushes(w)
  BY <1>2, <1>5 DEF Flushes, Done, Hand, InQueue
<1>6. CASE Loses(w)
  BY <1>2, <1>6 DEF Loses, Done, Hand
<1>7. CASE Commit(w)
  <2> DEFINE h == GroupOf[w]
             q == proc[w].msg.part
             off == proc[w].msg.off
  <2>1. /\ proc[w].pc = "commit" /\ proc'[w].pc \notin Busy
        /\ h \in Groups /\ q \in Partitions /\ off \in Nat
        /\ acked[h][q] = off /\ acked'[h][q] = off + 1
        /\ \A k \in Groups, r \in Partitions :
             k # h \/ r # q => acked'[k][r] = acked[k][r]
    BY <1>7, CommitLemma
  <2> HIDE DEF h, q, off
  <2>2. i <= acked'[g][p]
    <3>1. \A v \in Processes : GroupOf[v] = g => ~Done(proc'[v], at, p, i)
      BY <1>1, <2>1 DEF Passed, Done, OthersRest, Busy
    <3> QED
      BY <3>1 DEF Passed
  <2>3. ~(i <= acked[g][p])
    BY DEF Passed
  <2>4. g = h /\ p = q
    BY <2>1, <2>2, <2>3
  <2>5. i = off + 1
    BY <2>1, <2>2, <2>3, <2>4
  <2>6. Done(proc[w], at, p, i)
    BY <2>1, <2>4, <2>5 DEF Done, Hand, q, off
  <2> QED
    BY <2>4, <2>6 DEF Passed, h
<1> QED
  BY <1>1, <1>3, <1>4, <1>5, <1>6, <1>7

(* ... so the records that are passed unanswered are no more than the      *)
(* faults, and what more they had cost before.                             *)
LEMMA TurnLosses ==
  ASSUME NEW Record, NEW Output, LoopInv(Record, Output), NEW w \in Processes,
         input' = input, Turn(w) \/ Upset(w), NEW at, NEW due, due \subseteq Lane \X Nat,
         NEW more \in Nat,
         LossesBounded(at, due, proc, acked, trouble.faults + more)
  PROVE  LossesBounded(at, due, proc', acked', trouble'.faults + more)
<1>1. Effect(w) /\ LoopTypeOK(Output)'
  <2>1. LoopInv(Record, Output)' /\ Effect(w)
    BY TurnStep
  <2> QED
    BY <2>1 DEF LoopInv
<1>2. trouble.faults \in Nat /\ trouble'.faults \in Nat /\ trouble.faults <= trouble'.faults
  BY <1>1 DEF LoopInv, LoopTypeOK, Effect
<1>3. ASSUME NEW x \in due,
             Passed(at, x[1][1], x[1][2], x[2], proc', acked'),
             ~Passed(at, x[1][1], x[1][2], x[2], proc, acked)
      PROVE  /\ trouble'.faults = trouble.faults + 1
             /\ x = <<<<GroupOf[w], Hand(proc[w])[1]>>, Hand(proc[w])[2]>>
  <2>1. /\ x[1][1] \in Groups /\ x[1][2] \in Partitions /\ x[2] \in Nat
        /\ x = <<<<x[1][1], x[1][2]>>, x[2]>>
    BY DEF Lane
  <2>2. /\ trouble'.faults = trouble.faults + 1 /\ x[1][1] = GroupOf[w]
        /\ Hand(proc[w]) = <<x[1][2], x[2]>>
    BY <1>1, <1>3, <2>1, TurnPasses
  <2>3. Hand(proc[w])[1] = x[1][2] /\ Hand(proc[w])[2] = x[2]
    BY <2>2
  <2> QED
    BY <2>1, <2>2, <2>3
<1> DEFINE f == trouble.faults
           f2 == trouble'.faults
<1>4. CASE f2 = f + 1
  <2>1. LossesBounded(at, due, proc', acked', (f + more) + 1)
    <3>1. f + more \in Nat
      BY <1>2
    <3> DEFINE y == <<<<GroupOf[w], Hand(proc[w])[1]>>, Hand(proc[w])[2]>>
    <3>2. \A x \in due : Passed(at, x[1][1], x[1][2], x[2], proc', acked') =>
            x = y \/ Passed(at, x[1][1], x[1][2], x[2], proc, acked)
      BY <1>3
    <3> HIDE DEF y, f, f2
    <3> QED
      BY <3>1, <3>2, LossesGrow DEF f
  <2>2. (f + more) + 1 = f2 + more
    BY <1>2, <1>4
  <2> QED
    BY <2>1, <2>2
<1>5. CASE f2 # f + 1
  <2>1. f + more \in Nat /\ f2 + more \in Nat /\ f + more <= f2 + more
    BY <1>2
  <2>2. \A x \in due : Passed(at, x[1][1], x[1][2], x[2], proc', acked') =>
          x \in due /\ Passed(at, x[1][1], x[1][2], x[2], proc, acked)
    BY <1>3, <1>5
  <2> QED
    BY <2>1, <2>2, LossesStay
<1> QED
  BY <1>4, <1>5

(* No record that the group has not reached has been passed.               *)
LEMMA PassedOld ==
  ASSUME NEW Record, NEW Output, LoopInv(Record, Output),
         NEW at, NEW g \in Groups, NEW p \in Partitions, NEW i \in Nat,
         Passed(at, g, p, i, proc, acked)
  PROVE  i <= Len(input[p])
<1>1. acked[g][p] \in Nat /\ Len(input[p]) \in Nat /\ acked[g][p] <= Len(input[p])
  BY DEF LoopInv, LoopTypeOK, CommitsBounded
<1>2. CASE i <= acked[g][p]
  BY <1>1, <1>2
<1>3. ASSUME NEW w \in Processes, Done(proc[w], at, p, i) PROVE i <= Len(input[p])
  <2>1. HandOK(proc[w], input) /\ proc[w].pc \in Busy /\ Hand(proc[w]) = <<p, i>>
    BY <1>3 DEF LoopInv, Done, Busy
  <2>2. /\ proc[w].msg.part = p /\ proc[w].msg.off + 1 = i
        /\ proc[w].msg.off < Len(input[p]) /\ proc[w].msg.off \in Nat
    BY <2>1 DEF HandOK, Hand, Position
  <2> QED
    BY <1>1, <2>2
<1> QED
  BY <1>2, <1>3 DEF Passed

(* Each step of the loop's own counts at most one thing gone wrong.        *)
LEMMA TurnTrouble ==
  ASSUME NEW Record, NEW Output, LoopInv(Record, Output), NEW w \in Processes,
         input' = input, Turn(w) \/ Upset(w)
  PROVE  /\ acked' = acked \/ (Commit(w) /\ UNCHANGED trouble)
         /\ \/ UNCHANGED <<trouble.faults, Disruptions>>
            \/ trouble'.faults = trouble.faults + 1 /\ UNCHANGED Disruptions
            \/ Disruptions' = Disruptions + 1 /\ UNCHANGED trouble.faults
<1>1. trouble \in [Kinds -> Nat]
  BY DEF LoopInv, LoopTypeOK, Kinds
<1>2. Effect(w)
  BY TurnStep
<1>3. acked' = acked \/ (Commit(w) /\ UNCHANGED trouble)
  BY <1>2 DEF Effect, Rests, Keeps, Flushes, Loses, Commit
<1>4. UNCHANGED trouble \/ \E kind \in Kinds : Count(kind)
  BY DEF Turn, Upset, Start, Assign, AssignAt, Revoke, PollEmpty, FlushDone, Commit,
         CommitRejected, Close, Evict, Crash, RequestStop, DeliveryFails, FlushTimeout,
         Disrupted, Fault, Kinds
<1>5. ASSUME NEW kind \in Kinds, Count(kind)
      PROVE  \/ UNCHANGED <<trouble.faults, Disruptions>>
             \/ trouble'.faults = trouble.faults + 1 /\ UNCHANGED Disruptions
             \/ Disruptions' = Disruptions + 1 /\ UNCHANGED trouble.faults
  <2>1. trouble' = [trouble EXCEPT ![kind] = @ + 1]
    BY <1>5 DEF Count
  <2>2. \A k \in Kinds : trouble'[k] = IF k = kind THEN trouble[k] + 1 ELSE trouble[k]
    BY <1>1, <2>1
  <2>3. \A k \in Kinds : trouble[k] \in Nat
    BY <1>1
  <2>4. /\ trouble'.faults = IF kind = "faults" THEN trouble.faults + 1 ELSE trouble.faults
        /\ trouble'.crashes = IF kind = "crashes" THEN trouble.crashes + 1
                                                 ELSE trouble.crashes
        /\ trouble'.evictions = IF kind = "evictions" THEN trouble.evictions + 1
                                                     ELSE trouble.evictions
    BY <2>2 DEF Kinds
  <2>5. trouble.faults \in Nat /\ trouble.crashes \in Nat /\ trouble.evictions \in Nat
    BY <2>3 DEF Kinds
  <2> QED
    BY <2>4, <2>5 DEF Disruptions
<1>6. UNCHANGED trouble => UNCHANGED <<trouble.faults, Disruptions>>
  BY DEF Disruptions
<1> QED
  BY <1>3, <1>4, <1>5, <1>6

-------------------------------------------------------------------------------
(* Who has a record in hand.                                               *)

(* A process at work owns the partition of the record in hand.             *)
HandsOwned(pr, own) ==
  \A v \in Processes : pr[v].pc \in Busy => own[GroupOf[v]][pr[v].msg.part] = v

(* Only an eviction takes a partition from under a process at work.        *)
LEMMA TurnOwns ==
  ASSUME NEW Record, NEW Output, LoopInv(Record, Output), NEW w \in Processes,
         input' = input, Turn(w) \/ Upset(w), HandsOwned(proc, owner)
  PROVE  /\ trouble.evictions \in Nat /\ trouble'.evictions \in Nat
         /\ trouble.evictions <= trouble'.evictions
         /\ trouble'.evictions = 0 => HandsOwned(proc', owner')
<1>1. /\ LoopTypeOK(Output) /\ OthersRest(w) /\ TakesOnlyOwn(w)
  BY TurnStep, TurnSecures DEF LoopInv, Effect
<1>2. /\ trouble \in [Kinds -> Nat] /\ GroupOf[w] \in Groups /\ GroupOf \in [Processes -> Groups]
      /\ owner \in [Groups -> [Partitions -> Processes \cup {NoProcess}]]
      /\ NoProcess \notin Processes
  BY <1>1, ProcFacts, LoopAssumption DEF LoopAssumption
<1>3. ASSUME NEW kind \in Kinds, Count(kind)
      PROVE  /\ trouble'.evictions \in Nat /\ trouble.evictions <= trouble'.evictions
             /\ kind = "evictions" => trouble'.evictions # 0
  <2>1. trouble' = [trouble EXCEPT ![kind] = @ + 1]
    BY <1>3 DEF Count
  <2>2. \A k \in Kinds : /\ trouble[k] \in Nat
                         /\ trouble'[k] = IF k = kind THEN trouble[k] + 1 ELSE trouble[k]
    BY <1>2, <2>1
  <2>3. /\ trouble.evictions \in Nat
        /\ trouble'.evictions = IF kind = "evictions" THEN trouble.evictions + 1
                                                     ELSE trouble.evictions
    BY <2>2 DEF Kinds
  <2> QED
    BY <2>3
<1>4. UNCHANGED trouble \/ \E kind \in Kinds : Count(kind)
  BY DEF Turn, Upset, Start, Assign, AssignAt, Revoke, PollEmpty, FlushDone, Commit,
         CommitRejected, Close, Evict, Crash, RequestStop, DeliveryFails, FlushTimeout,
         Disrupted, Fault, Kinds
<1>5. trouble.evictions \in Nat
  BY <1>2 DEF Kinds
<1>6. /\ trouble'.evictions \in Nat
      /\ trouble.evictions <= trouble'.evictions
  BY <1>3, <1>4, <1>5
<1>7. ASSUME trouble'.evictions = 0, proc'[w].pc \in Busy
      PROVE  /\ proc[w].pc \in Busy /\ proc'[w].msg = proc[w].msg
             /\ owner' = owner
  <2> DEFINE Goal == /\ proc[w].pc \in Busy /\ proc'[w].msg = proc[w].msg
                     /\ owner' = owner
  <2>1. ASSUME NEW pc \in States \ Busy, Goto(w, pc) PROVE FALSE
    BY <1>1, <1>7, <2>1, GotoLemma
  <2>2. ~Start(w) /\ ~PollEmpty(w)
    BY <2>1 DEF Start, PollEmpty, States, Busy
  <2>3. ASSUME NEW p \in Partitions, Assign(w, p) \/ Revoke(w, p) PROVE FALSE
    <3>1. proc[w].pc = "poll"
      BY <2>3 DEF Assign, AssignAt, Revoke
    <3>2. proc'[w].pc = proc[w].pc
      <4>1. CASE Assign(w, p)
        BY <4>1, AssignStep DEF Keeps
      <4>2. CASE Revoke(w, p)
        BY <4>2 DEF Revoke
      <4> QED
        BY <2>3, <4>1, <4>2
    <3> QED
      BY <1>7, <3>1, <3>2 DEF Busy
  <2>4. ~Die(w)
    BY <1>1, <1>7, DieLemma DEF Busy
  <2>5. ~CommitRejected(w) /\ ~Close(w) /\ ~Crash(w)
    BY <2>4 DEF CommitRejected, Close, Crash
  <2>6. ~Commit(w)
    BY <1>7, CommitLemma
  <2>7. ASSUME FlushDone(w) \/ FlushTimeout(w) PROVE Goal
    <3>1. proc[w].pc = "flush" /\ Goto(w, "commit") /\ owner' = owner
      BY <2>7 DEF FlushDone, FlushTimeout
    <3> QED
      BY <1>1, <3>1, GotoLemma DEF States, Busy
  <2>8. ~Evict(w)
    BY <1>3, <1>7 DEF Evict, Disrupted, Kinds
  <2>9. ASSUME RequestStop(w) PROVE Goal
    <3>1. proc' = [proc EXCEPT ![w].stop = TRUE] /\ owner' = owner
      BY <2>9 DEF RequestStop
    <3>2. proc'[w].pc = proc[w].pc /\ proc'[w].msg = proc[w].msg
      BY <1>1, <3>1, ProcFacts DEF Process
    <3> QED
      BY <1>7, <3>1, <3>2
  <2>10. ASSUME DeliveryFails(w) PROVE Goal
    <3>1. Unqueue(w)
      BY <2>10 DEF DeliveryFails
    <3> QED
      BY <1>1, <1>7, <3>1, UnqueueLemma
  <2>11. Turn(w) => Goal
    <3> HIDE DEF Goal
    <3> QED
      BY <2>2, <2>3, <2>5, <2>6, <2>7 DEF Turn
  <2>12. Upset(w) => Goal
    <3> HIDE DEF Goal
    <3> QED
      BY <2>5, <2>7, <2>8, <2>9, <2>10 DEF Upset
  <2> QED
    BY <2>11, <2>12
<1>8. ASSUME trouble'.evictions = 0, NEW v \in Processes, proc'[v].pc \in Busy
      PROVE  owner'[GroupOf[v]][proc'[v].msg.part] = v
  <2>1. CASE v = w
    BY <1>7, <1>8, <2>1 DEF HandsOwned
  <2>2. CASE v # w
    <3> DEFINE p == proc[v].msg.part
    <3>1. proc'[v] = proc[v]
      BY <1>1, <2>2 DEF OthersRest
    <3>2. owner[GroupOf[v]][p] = v /\ GroupOf[v] \in Groups
      BY <1>2, <1>8, <3>1 DEF HandsOwned
    <3>3. p \in Partitions
      BY <1>8, <3>1 DEF LoopInv, HandOK, Position
    <3> HIDE DEF p
    <3>4. owner'[GroupOf[v]][p] = v
      BY <1>1, <1>2, <2>2, <3>2, <3>3 DEF TakesOnlyOwn
    <3> QED
      BY <3>1, <3>4 DEF p
  <2> QED
    BY <2>1, <2>2
<1> QED
  BY <1>5, <1>6, <1>8 DEF HandsOwned

===============================================================================
