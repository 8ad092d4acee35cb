---------------------------------- MODULE Loop --------------------------------
(***************************************************************************)
(* The loop that GenericSwarmWorker.start and OrchestratorService.start    *)
(* share: poll a record, work on it, flush the producer, commit, look at   *)
(* _stop.  Any number of processes run it, in consumer groups; what a      *)
(* process does with a record is for the module that extends this one.     *)
(*                                                                         *)
(* External: the broker's side of a consumer group (cooperative-sticky     *)
(* assignment, commits fenced by membership) and librdkafka's producer     *)
(* queue with idempotent, ordered delivery, as flinkswarm/kafka.py sets    *)
(* them up.                                                                *)
(***************************************************************************)
EXTENDS Events

CONSTANTS
  Processes,        \* every process that may run the loop
  Groups,           \* the consumer groups
  GroupOf,          \* process -> the group it joins
  NoProcess,        \* owner of an unassigned partition
  NoMsg,            \* a process with no message in hand
  MaxDisruptions,   \* bound: process crashes and group evictions
  MaxStops,         \* bound: SIGTERM / SIGINT
  MaxFaults,        \* bound: failed deliveries and flush(10) timeouts
  MaxTrouble        \* bound: all of these together

ASSUME LoopAssumption ==
  /\ IsFiniteSet(Processes)
  /\ GroupOf \in [Processes -> Groups]
  /\ NoProcess \notin Processes
  /\ NoMsg \notin Position
  /\ MaxDisruptions \in Nat /\ MaxStops \in Nat /\ MaxFaults \in Nat
  /\ MaxTrouble \in Nat

VARIABLES
  input,     \* the consumed topic: partition -> sequence of records
  owner,     \* group -> partition -> the process it is assigned to
  acked,     \* group -> partition -> the committed offset
  proc,      \* process -> its state, see Process
  trouble    \* what went wrong so far, a count per kind (history)

loopVars == <<owner, acked, proc, trouble>>

(* "poll": inside consumer.poll; "work": awaiting the model; "flush":      *)
(* inside producer.flush(10); "commit": inside consumer.commit; "drain":   *)
(* the loop has seen _stop and the last flush runs; "down": no process.    *)
Busy == {"work", "flush", "commit"}
States == {"down", "poll", "drain"} \cup Busy

(* The message in hand, the records produced and not yet delivered, the    *)
(* _stop event and, per partition, the offset to fetch next.               *)
Process(Output) ==
  [pc : States, msg : Position \cup {NoMsg}, out : Seq(Output),
   stop : BOOLEAN, cursor : [Partitions -> Nat]]

Idle ==
  [pc |-> "down", msg |-> NoMsg, out |-> <<>>, stop |-> FALSE,
   cursor |-> [p \in Partitions |-> 0]]

LoopInit ==
  /\ input = [p \in Partitions |-> <<>>]
  /\ owner = [g \in Groups |-> [p \in Partitions |-> NoProcess]]
  /\ acked = [g \in Groups |-> [p \in Partitions |-> 0]]
  /\ proc = [w \in Processes |-> Idle]
  /\ trouble = [crashes |-> 0, evictions |-> 0, stops |-> 0, faults |-> 0]

LoopTypeOK(Output) ==
  /\ owner \in [Groups -> [Partitions -> Processes \cup {NoProcess}]]
  /\ acked \in [Groups -> [Partitions -> Nat]]
  /\ proc \in [Processes -> Process(Output)]
  /\ trouble \in [{"crashes", "evictions", "stops", "faults"} -> Nat]

-------------------------------------------------------------------------------
(* The consumer group.                                                     *)

Owns(w, p) == owner[GroupOf[w]][p] = w

Owned(w) == {p \in Partitions : Owns(w, p)}

(* A live process is a member unless it was evicted with a message in hand.*)
Member(w) ==
  proc[w].pc # "down" /\ (proc[w].pc \in Busy => Owns(w, proc[w].msg.part))

Fellows(w) == {v \in Processes : GroupOf[v] = GroupOf[w] /\ Member(v)}

Disruptions == trouble.crashes + trouble.evictions

Count(kind) ==
  /\ Disruptions + trouble.stops + trouble.faults < MaxTrouble
  /\ trouble' = [trouble EXCEPT ![kind] = @ + 1]

Disrupted(kind) == Disruptions < MaxDisruptions /\ Count(kind)

Fault == trouble.faults < MaxFaults /\ Count("faults")

Goto(w, pc) == proc' = [proc EXCEPT ![w].pc = pc]

Released(w) ==
  owner' = [owner EXCEPT ![GroupOf[w]] =
              [p \in Partitions |-> IF @[p] = w THEN NoProcess ELSE @[p]]]

(* A new process joins the group and polls.                                *)
Start(w) ==
  /\ proc[w].pc = "down"
  /\ Goto(w, "poll")
  /\ UNCHANGED <<owner, acked, trouble>>

AssignAt(w, p, offset) ==
  /\ proc[w].pc = "poll"
  /\ owner[GroupOf[w]][p] = NoProcess
  /\ \A v \in Fellows(w) : Cardinality(Owned(w)) <= Cardinality(Owned(v))
  /\ owner' = [owner EXCEPT ![GroupOf[w]][p] = w]
  /\ proc' = [proc EXCEPT ![w].cursor[p] = offset]
  /\ UNCHANGED <<acked, trouble>>

(* Mutant: a new owner starts at the beginning.                            *)
AssignEarliest(w, p) == AssignAt(w, p, 0)

(* A free partition goes to a least loaded member, inside its poll; it     *)
(* resumes at the committed offset (auto.offset.reset is "earliest").      *)
Assign(w, p) == AssignAt(w, p, acked[GroupOf[w]][p])

(* Rebalancing takes a partition from a member with two more than another; *)
(* the member gives it up in its poll, never with a message in hand.       *)
Revoke(w, p) ==
  /\ proc[w].pc = "poll"
  /\ Owns(w, p)
  /\ \E v \in Fellows(w) : Cardinality(Owned(v)) + 1 < Cardinality(Owned(w))
  /\ owner' = [owner EXCEPT ![GroupOf[w]][p] = NoProcess]
  /\ UNCHANGED <<acked, proc, trouble>>

(* A model run longer than max.poll.interval.ms: the group goes on without *)
(* the process, which does not know yet.                                   *)
Evict(w) ==
  /\ proc[w].pc \in Busy
  /\ Member(w)
  /\ Disrupted("evictions")
  /\ Released(w)
  /\ UNCHANGED <<acked, proc>>

-------------------------------------------------------------------------------
(* The loop.                                                               *)

(* The record poll may return, and the record in hand.                     *)
Peek(w, p) == input[p][proc[w].cursor[p] + 1]
InHand(w) == input[proc[w].msg.part][proc[w].msg.off + 1]

(* Mutant: a record that is skipped is not committed.                      *)
PollForgets(w, p, next) ==
  /\ proc[w].pc = "poll"
  /\ Owns(w, p)
  /\ proc[w].cursor[p] < Len(input[p])
  /\ proc' = [proc EXCEPT
       ![w].msg = IF next = "commit" THEN @
                                     ELSE [part |-> p, off |-> proc[w].cursor[p]],
       ![w].cursor[p] = @ + 1,
       ![w].pc = IF next = "commit" THEN @ ELSE next]
  /\ UNCHANGED <<owner, acked, trouble>>

(* poll returns a message: the loop works on it, or only commits it.       *)
Poll(w, p, next) ==
  /\ proc[w].pc = "poll"
  /\ Owns(w, p)
  /\ proc[w].cursor[p] < Len(input[p])
  /\ proc' = [proc EXCEPT
       ![w].msg = [part |-> p, off |-> proc[w].cursor[p]],
       ![w].cursor[p] = @ + 1,
       ![w].pc = next]
  /\ UNCHANGED <<owner, acked, trouble>>

(* poll returns nothing and the loop sees _stop.                           *)
PollEmpty(w) ==
  /\ proc[w].pc = "poll"
  /\ proc[w].stop
  /\ Goto(w, "drain")
  /\ UNCHANGED <<owner, acked, trouble>>

(* The work on the record in hand is done, and one record was produced.    *)
Produce(w, rec) ==
  /\ proc[w].pc = "work"
  /\ proc' = [proc EXCEPT ![w].out = Append(@, rec), ![w].pc = "flush"]
  /\ UNCHANGED <<owner, acked, trouble>>

(* The producer's background thread takes the oldest record off the queue, *)
(* delivered or, with only a line in the log, not.                         *)
Unqueue(w) ==
  /\ proc[w].out # <<>>
  /\ proc' = [proc EXCEPT ![w].out = Tail(@)]
  /\ UNCHANGED <<owner, acked>>

Sent(w) == Unqueue(w) /\ UNCHANGED trouble
DeliveryFails(w) == Unqueue(w) /\ Fault

(* Mutants: nothing is flushed before the commit; _stop is looked at       *)
(* between the two.                                                        *)
FlushSkipped(w) ==
  /\ proc[w].pc = "flush"
  /\ Goto(w, "commit")
  /\ UNCHANGED <<owner, acked, trouble>>

FlushThenStop(w) ==
  /\ proc[w].pc = "flush"
  /\ proc[w].out = <<>>
  /\ Goto(w, IF proc[w].stop THEN "drain" ELSE "commit")
  /\ UNCHANGED <<owner, acked, trouble>>

(* flush(10) returns with an empty queue ...                               *)
FlushDone(w) ==
  /\ proc[w].pc = "flush"
  /\ proc[w].out = <<>>
  /\ Goto(w, "commit")
  /\ UNCHANGED <<owner, acked, trouble>>

(* ... or after ten seconds, and what it returns is ignored.               *)
FlushTimeout(w) ==
  /\ proc[w].pc = "flush"
  /\ proc[w].out # <<>>
  /\ Fault
  /\ Goto(w, "commit")
  /\ UNCHANGED <<owner, acked>>

(* commit(msg): offset + 1; then the loop looks at _stop.                  *)
Commit(w) ==
  /\ proc[w].pc = "commit"
  /\ Owns(w, proc[w].msg.part)
  /\ acked' = [acked EXCEPT ![GroupOf[w]][proc[w].msg.part] = proc[w].msg.off + 1]
  /\ proc' = [proc EXCEPT ![w].msg = NoMsg,
                          ![w].pc = IF proc[w].stop THEN "drain" ELSE "poll"]
  /\ UNCHANGED <<owner, trouble>>

(* The process ends: what its producer has not delivered is gone, and the  *)
(* group takes its partitions back.                                        *)
Die(w) == proc' = [proc EXCEPT ![w] = Idle] /\ Released(w) /\ UNCHANGED acked

(* The commit of an evicted process raises, and nothing in start() catches *)
(* it.                                                                     *)
CommitRejected(w) ==
  /\ proc[w].pc = "commit"
  /\ ~Owns(w, proc[w].msg.part)
  /\ Die(w)
  /\ UNCHANGED trouble

(* request_stop.                                                           *)
RequestStop(w) ==
  /\ proc[w].pc # "down"
  /\ ~proc[w].stop
  /\ trouble.stops < MaxStops
  /\ Count("stops")
  /\ proc' = [proc EXCEPT ![w].stop = TRUE]
  /\ UNCHANGED <<owner, acked>>

(* The last flush returns, and the consumer leaves the group.              *)
Close(w) ==
  /\ proc[w].pc = "drain"
  /\ \/ proc[w].out = <<>> /\ UNCHANGED trouble
     \/ proc[w].out # <<>> /\ Fault
  /\ Die(w)

(* The process is killed anywhere, or raises outside every try.            *)
Crash(w) ==
  /\ proc[w].pc # "down"
  /\ Disrupted("crashes")
  /\ Die(w)

-------------------------------------------------------------------------------

(* What process w does of its own accord, its group included, beyond the   *)
(* work on a record ...                                                    *)
Turn(w) ==
  \/ Start(w)
  \/ \E p \in Partitions : Assign(w, p) \/ Revoke(w, p)
  \/ PollEmpty(w) \/ FlushDone(w) \/ Commit(w) \/ CommitRejected(w) \/ Close(w)

(* ... and what may happen to it.                                          *)
Upset(w) ==
  \/ Evict(w) \/ Crash(w) \/ RequestStop(w)
  \/ DeliveryFails(w) \/ FlushTimeout(w)

===============================================================================
