# flinkswarm: a TLA+ model

This directory models flinkswarm, a swarm of LLM agents that adjudicates
insurance claims over Kafka topics with a Flink barrier in the middle. It
contains TLA+ modules translated from the Python, Java and shell sources, TLC
configurations that check them on small instances, and TLAPS proofs of what can
be proved for all instances. `PROJECT.json` maps every definition to the lines
it stands for and lists runs, mutants, findings, hazards and theorems.

## 1. The system

```
dispatch --> agent.tasks.dispatched --> worker group of each agent
                                              |
          agent.results.completed  <----------+
                   |
             AgentBarrier (Flink PTF, keyed by claim_id)
                   |
          agent.synthesis.ready --> orchestrator --> agent.decisions.final
```

All four topics are keyed by `claim_id`, so what concerns one claim stays in one
partition of a topic. The topics are the only thing the parts share.

| component | state | operations | must be true of it |
|---|---|---|---|
| `dispatch` (`orchestrator.py:44-56`) | none | produce one task, flush | - |
| `GenericSwarmWorker` (`worker.py`) | consumer position, message in hand, producer queue, `_stop`; its group's assignment and committed offsets at the broker | poll, decode, `_handle` (run the model, report SUCCESS or FAILURE), `flush(10)`, `commit`, stop | a committed task has a result; an agent repeats itself only after a crash or an eviction; commits go one by one; a bad payload blocks nothing, and what does block a group is known: a key that is not UTF-8, or a null value with a registry |
| consumer groups, producers (Kafka; `kafka.py`) | assignment, offsets, undelivered records | assign, revoke, evict, deliver, fail | external: modelled from how `kafka.py` configures them |
| `AgentBarrier` (`flink/ptf`, `setup_queries.sql`, `create_barrier.sh`) | per claim a `TreeMap` agent -> finding; TTL 4 h | `eval` | a row joins exactly `expectedAgents` distinct agents; all it holds was reported for that claim by that agent; no result counts twice |
| payload (`AgentBarrier.payload/esc`, `orchestrator._parse_payload`) | none | write by hand, read with `json.loads` | what is written is read back; no text leaks into another field |
| `OrchestratorService` (`orchestrator.py`) | position, message in hand, producer queue, `_stop`, `_decided` (memory only) | poll, skip, `_synthesize`, `flush(10)`, `commit`, stop | one decision per claim and process, also with two processes in a rolling update; a committed row left a decision; decisions in row order |
| `Agent.run` (`llm.py`) | conversation, names of the tools called, iteration | ask, invoke a tool, wrap up | every call is answered before the next request; the run ends within `max_tool_iters + 1` requests |
| answers (`orchestrator._split_decision`) | none | cut the decision out of the model's text | the decision of an object amid prose is found, as Python prints it; none comes from nowhere |
| deployment of the barrier (`create_barrier.sh`) | six Flink statements, the catalog, the job and its checkpoints | `fc`: delete, create with retry, wait (but not for the job); the job starts, fails, replays from the earliest result | a run that succeeds has submitted a job with all it needs; recreating the job changes no row and drops none |
| settings and codecs (`config.py`, `kafka.ValueCodec`, `events.from_dict`) | what each process read when it started | start or fail to start; encode, decode | replicas changed one by one, in the right order, skip no record; one that cannot start loses none |
| `reset.sh`, jar upload, schema registration, shell wrappers, slides | - | - | not modelled (section 7) |

What is hard here: at-least-once delivery on every leg meets a barrier that
clears its state with each row; restarts forget `_decided`; offsets are
committed after a flush whose result nobody reads; two replicas may work on the
same task after an eviction; a dispatch may overlap the previous one of the same
claim; the TTL may take one of two answers; the barrier is deleted and recreated
under a running job by a script that may stop anywhere; processes that write and
read the same topic run with different settings for a while. `PROJECT.json` lists each of these
hazards at its line, with the properties that would catch it going wrong, or
with the reason why none does yet.

## 2. The modules

| module | models | state and actions against the code |
|---|---|---|
| `Events` | `events.py`, keys and partitions | the records of the four topics; `SuccessOf`, `FailureOf` are what `_handle` reports |
| `Relay` | abstract: what a consume-work-produce-commit loop promises | lanes of records settled in order, each answered before that, at the price of a loss when not and of a disruption when more than once |
| `Loop` | the loop that `worker.py` and `orchestrator.py` share, its groups and producers | `proc[w].pc` is the place in `start`; `Poll`, `Produce`, `FlushDone`/`FlushTimeout`, `Commit`, `Close` are its statements in order; `Assign`, `Revoke`, `Evict` are the group; `Sent`, `DeliveryFails` are librdkafka's thread; `Crash` may strike anywhere |
| `Worker` | `GenericSwarmWorker` | EXTENDS `Loop`: what a process does with a record (`Receive`, `Handle`, `Raises`); implements `Relay` |
| `Orchestrator` | `OrchestratorService` | EXTENDS `Loop` with `decided`, one set per process; `Consume`, `Synthesize`, `SynthesizeFails`, `Skipped` are lines 127-157, `Memory` the set of a new process; implements `Relay` |
| `AgentBarrier` | the PTF | `responses` is `BarrierState.responses` of every key; `Eval` is one call of `eval`, whole: put, test, emit and clear; `Expire` is the state TTL |
| `Deploy` | `create_barrier.sh` around `AgentBarrier` | `script` is the statement, phase and attempt the script is at; `Delete`, `Create`, `Retry`, `GiveUp` are the body of `fc`, `Effect` what each of the six statements does, `Abort` is `set -e`; the last of them only submits the job, which starts (`JobRuns`) or fails (`JobFails`) when the script is gone; the barrier's `Eval` runs while the job does |
| `Swarm` | everything together | INSTANCEs of the three over shared topics; `Dispatch` is the command; every other step is a step of one part; implements `Adjudication` |
| `Adjudication` | what the swarm promises to a reader of its topics | the four topics and three counters; `Dispatch`, `Report`, `Join`, `Decide` say what may come next on each, no offset, group, queue or memory |
| `ToolLoop` | `Agent.run` | one action per request and per tool call |
| `Payload` | `payload`, `esc`, `_parse_payload`, `_claim_id_of` | texts as sequences of character classes; `Fields` are the claim id, then name and text of each entry of the map; `Esc` does the replacements in the order of the code, `Parsed` is `json.loads` |
| `Answer` | `_split_decision` | answers as sequences of tokens; `Slice` is from the first opening to the last closing brace, `Str` what `str(...).strip()` makes of the value it finds, `Fallback` the shortened first line |
| `Rollout` | start and codec of processes whose settings change one at a time | `env` is what the operator edited, `running` what a process has read; `Starts` is what `__init__` raises on, `Encode`/`Decodes` are `ValueCodec` |
| `AgentBarrierProofs`, `DeployProofs`, `RolloutProofs` | - | theorems about the module of that name |
| `SequentialProofs` | - | theorems about what runs in one process: `ToolLoop`, `Payload`, `Answer`; and what the sequence operators they share compute |
| `LoopProofs` | - | the invariant of the shared loop, what each of its steps preserves and how it counts answers and losses, for any records and any output |
| `WorkerProofs`, `OrchestratorProofs` | - | theorems about the two loops, from `LoopProofs` |
| `SwarmProofs` | - | theorems about the composition, from those about its three parts |
| `MC*` | - | constants for TLC; `MCWire` runs `Payload`, `Answer` and `Rollout` side by side |

Each component module has an `Env` action for its surroundings, so that it can be
checked on its own under more inputs than the composition produces: any agent
reporting late and twice, undecodable and null records, re-emitted rows. `Swarm`
leaves `Env` out and connects the parts themselves.

Choices that shape the models:

- One `eval` is atomic. The statement runs under Flink's exactly-once
  checkpoints, so consuming, updating the keyed state and emitting commit together.
- An answer is a member of `Texts`; it carries the round (the dispatch it was
  computed for). Rounds are not in the wire format: they are there so that a
  property can tell an old answer from a new one. `RawTexts` are the answers that
  make the payload unparsable; `Payload` shows which those are (texts with a
  control character other than newline, return and tab).
- An eviction (a model run longer than `max.poll.interval.ms`) takes the
  partition from a process that does not notice until its commit is rejected,
  which nothing in `start` catches.
- A graceful stop finishes the message in hand, as the loop does. A crash loses
  the producer queue and, for the orchestrator, `_decided`.
- The orchestrators are any number of processes in one group: one with
  `replicas: 1`, two while a rolling update starts the new pod before the old one
  is gone.
- In `Deploy` a deletion takes effect some time after it was asked for, and the
  name is taken meanwhile. What a job does when its output table is dropped is
  left open: it breaks, or it goes on once the table is back. Every `fc` but the
  last waits (`--wait`) until its statement is done; the last returns with the job
  pending (`create_barrier.sh:78-86`), so a job that fails after the script has
  ended well is a step of its own and costs an error. An ignored failure
  (of a delete, or of `fs-alter-key`, which is followed by `|| true`) is a
  disjunct of its own.
- `Rollout` keeps of the settings what decides whether a process starts and
  whether a record decodes. A later version of the package differs by one optional
  field of the event and by the tools it registers.
- A dispatch whose delivery fails publishes nothing, which is a stuttering step.
- Operators whose comment begins "Mutant" are deliberate bugs. Each is the
  broken form of the definition it precedes, and no specification uses it.

The refinements: `Worker` maps a lane of `Relay` to an agent and a partition;
`owed` says which records are tasks, `settled` is the group's committed offset,
`answers` counts the results on the topic, `losses` are failed deliveries and timed
out flushes, `disruptions` crashes and evictions. For `Orchestrator` a lane is a
partition, a row is owed a decision when it is the first of its claim id, and
`losses` counts failed syntheses too. `Relay` lets a lane settle a record without
an answer only at the price of a loss and answer one again only at the price of a
disruption, so `ImplementsRelay` is the at-least-once contract of both loops in one
formula, including that no commit skips or goes back. A record arrives in several
lanes at once (`Accept(S)`): a partition of the task topic is a lane of every agent
that consumes it. The orchestrators are one group, which `OrchestratorAssumption`
says: their decisions carry no group to tell them apart by.

`Swarm` maps the four topics of `Adjudication` to its own, `disruptions` and
`repeats` to the crashes and evictions of workers and of orchestrators, and
`starts` to the orchestrator processes started. `Adjudication` allows a result
only to an agent that was dispatched the claim, and one per agent and dispatch
and disruption; a row only when each entry is on the result topic and no result is
used up by two rows; a decision under a claim only to a row of it, once per process
and, but for disruptions, once per row. (Under `UNKNOWN`, where rows of several
claims meet, only the processes count.) So `ImplementsAdjudication` is the contract
of the whole pipeline: offsets, groups, queues, `_decided` and the barrier's keyed
state are what it takes to keep it.

## 3. The runs

Bounds on what goes wrong (`MaxDisruptions`, `MaxStops`, `MaxFaults`, ...) are
counted in history variables, which the properties also use to say what each
kind of trouble may cost. `CHECK_DEADLOCK FALSE` appears because each system may
come to rest: when the bounded environment has no more input and all is consumed.

| run | instance | shows |
|---|---|---|
| `barrier` | 3 agents, 2 expected, 1 claim, 4 results of 2 rounds, 1 expiry; 257 k states | `RowsAreComplete`, `FindingsAreReported`, `LatestReportWins`, `NoResultCountedTwice`; `BarrierOpens` under fairness |
| `worker_settles` | 2 replicas, 2 partitions, 2 records in all, 1 disruption, 1 SIGTERM, 1 fault (2 of these together), undecodable records, null values and keys that are not UTF-8, registry set; 387 k | `NoLostWork`, `DuplicatesNeedDisruption` and `ImplementsRelay` through rebalances and hand-overs; `EveryTaskSettled` under fairness |
| `worker_deck_claim` | 1 worker, 1 task, 1 fault, 1 crash | violates `NoWorkLostByCrash` |
| `orchestrator` | 2 processes of the group, 2 claims and the `UNKNOWN` key, 2 rows, null records, 1 disruption, 1 SIGTERM, 1 fault, 1 failed synthesis; 307 k | `OneDecisionPerProcess`, `OnlyCrashesRepeatRows`, `CommittedRowsDecided`, `ForgottenBounded`, `DecisionsInRowOrder`, `ImplementsRelay`; `EveryRowSettled` under fairness |
| `orchestrator_raw_text` | 2 claims, no trouble at all | violates `EveryClaimDecided` |
| `tool_loop` | 2 iterations of up to 2 calls, known and unknown tools, with and without ids; 8 k | `AskedWithEveryCallAnswered`, `InventedIdsDiffer`, `EveryCallIsReported`, `RequestsBounded`; `Terminates` |
| `wire` | a claim id and the results of up to 2 agents, one of whose names needs escaping, of 4 characters of 8 classes between them; answers up to 6 tokens, with decisions that are texts, blank, null or objects; 2 replicas and a writer, 3 changes, 2 records; 823 k | `RoundTrip`, `ClaimIdIsOwnOrUnknown`; `DecisionIsAccountedFor`; `CarefulRolloutLosesNothing`, and `ServedOnceStartable` under fairness |
| `deploy` | 2 agents, 1 claim, 3 results, 2 attempts of `fc`, 2 errors, interruptions or failed jobs, 1 redeployment; 1.78 M | `SucceededMeansSubmitted`, `TableIsReplay`; `BarrierCatchesUp` under fairness |
| `swarm_safety` | 2 agents, 1 claim dispatched twice (overlapping or not), 1 disruption of a worker; 2.16 M | `DecisionsAreBacked`, `RowsAreAccountedFor`, `FreshUnlessDisturbed` |
| `swarm_decided` | 1 dispatch, 1 disruption of a worker and 1 of the orchestrator, 1 expiry; 202 k | `ImplementsAdjudication`; `EventuallyDecided` under fairness |
| `swarm_harmless_duplicate` | 2 dispatches, 1 worker crash | violates `AlwaysFresh` |
| `swarm_redispatch_decided` | 2 dispatches, no trouble | violates `EveryRowDecided` |

Why these bounds are enough to be interesting. The barrier needs one agent more
than it expects for "a duplicate or a third agent arrives after the row", and
four results for a row and two more reports, which is a second row. A worker
hazard takes two replicas, one disruption and a record to be repeated; a second
partition or a second record lets a rejected commit meet a later one, and a
null value or a bad key block what is behind it. The orchestrator needs two processes, at once
or in turn, to repeat a row, and a second row for one to be skipped, re-emitted
or decided out of order. `MaxTrouble` bounds what goes wrong in all, so that every pair of
troubles occurs without all of them together. The smallest swarm that can mix two
dispatches has two agents and two rounds; the TTL is left to `barrier` and
`swarm_decided`. `fc` with two attempts retries once and gives up
once, which is all its loop distinguishes; two errors let an ignored failure meet
one that aborts, and three results make a row and the beginning of a second. Three
changes are the least that bring a registry change to two replicas and the writer,
two replicas the least of which one can be left behind. Two iterations of two
calls suffice for an invented id to collide within an answer and across answers; a
quote, a backslash and two letters fit in four characters, in every order and spread
over every field in every way, and six tokens hold an object with an inner object, two objects, or one with prose around.

Every property of a passing run comes with a mutant in `PROJECT.json`, a
plausible bug of the code it is about (the flush is skipped, `_stop` is looked at
between flush and commit, the state is not cleared, the replacements are
swapped, ...), under which the run reports that property violated.

## 4. Fairness

Liveness rests on weak fairness of what the code does by itself. Nothing that
goes wrong is ever obliged to happen, and each can happen a bounded number of times.

- `Worker!Fairness`: each process keeps stepping (`Progress`) and its producer
  keeps delivering (`Deliver`). `start` loops until stopped; Kubernetes restarts
  a dead pod (`deployment.yaml`); the model call has a client-side timeout and
  raises when it strikes (`llm.py`), so `Handle` ends either way. Fairness is
  per process and not per action, because a process that can always do
  something else is never required to choose.
- `AgentBarrier!Fairness`: the statement keeps consuming each partition.
- `Orchestrator!Fairness`: the same two conditions for each of its processes.
- `Deploy!Fairness`: a script that has not succeeded goes on or is run again, a
  deletion takes effect, a pending job runs unless it fails, a running one consumes
  (or fails, when the key is no STRING). Nobody has to redeploy, not even when the
  job has failed, and errors are bounded: an operator who meets the same error for
  ever is not served.
- `Rollout!Fairness`: a replica that is down is started again (Kubernetes) and one
  that runs polls. Nobody has to restart a running replica.
- `ToolLoop!FairSpec`: requests and tool calls return.

Two kinds of record kill the worker that polls them, and it meets them again after
each restart (`Raises`): one whose key is not UTF-8, because `decode_key`
(`worker.py:122`) stands before the `try`; and, with a schema registry, one with a
null value, which decodes to `None` and makes `_handle` raise in its `except` clause.
`EveryTaskSettled` says what is left: a group settles every record unless such a
record is next in one of its partitions (`Poisoned`). Then the partition is stuck,
and so may be others of the same group, since every replica may meet that record
first, before it has served them; nothing is lost meanwhile. `BarrierOpens` and
`EventuallyDecided` except the TTL, failed deliveries and failed syntheses, after
which the code gives up for good. `BarrierCatchesUp` excepts a job that has failed,
for want of the key (the one failure the script ignores) or for any other reason:
the script has ended by then, and only who asks (`create_barrier.sh:89`) will know.

## 5. Findings

1. **Re-dispatch is not decided** (`swarm_redispatch_decided`). README.md:145-147
   says a re-dispatched claim is decided fresh, without a reset. The barrier does
   emit a fresh row; the orchestrator process that decided the claim before skips
   it at line 149.
2. **The duplicate is not harmless** (`swarm_harmless_duplicate`).
   AgentBarrier.java:20-23 calls the accumulation a duplicate starts harmless. It
   stays until the TTL and is joined with the next dispatch's answers.
3. **UNKNOWN is one claim** (`orchestrator_raw_text`). Every unparsable payload
   has the claim id `UNKNOWN`; the second one is skipped as a re-emit. This takes the
   row's value to carry no claim id, as events.py:93 says (the table is distributed by it, which puts
   it in the key, `create_barrier.sh:69`); setup_queries.sql:29-30 says that the value
   carries it, and where it did, line 142 would not ask the payload.
4. **A crash may lose work** (`worker_deck_claim`). deck.html:289 promises "no
   lost work"; `flush(10)` may return with the result queued, and the task is
   committed regardless.

Two more things the models show without a run of their own. README.md:32 promises
"exactly one aggregated row per claim": two disrupted workers, one per agent, can
make it two, which is why `RowsAreAccountedFor` states the price (as many
disruptions as the row joins agents). AgentBarrier.java:29 calls its output a JSON
string: with a control character in a text it is not, and `RoundTrip` excludes
exactly those texts.

## 6. Proofs

Each theorem holds for all values of the constants that satisfy the module's
`ASSUME`s, so for any finite set of processes and agents, any partitions, claims
and bounds. TLC evaluates the assumptions in every run of the component.

| module | theorem | states |
|---|---|---|
| `AgentBarrierProofs` | `TypeCorrect` | `Spec => []TypeOK` |
| | `RowsComplete` | `[]RowsAreComplete`: every row joins exactly `Expected` agents, and no complete claim waits |
| | `OnlyReportedFindings` | `[]FindingsAreReported`: what is buffered or emitted was reported, by that agent for that claim |
| | `CountedOnce` | `[]NoResultCountedTwice`: rows and buffer together account for no more results than were read |
| | `LatestWins` | `[]LatestReportWins`: what is buffered for an agent is its last result read for the claim |
| `WorkerProofs` | `WorkersTypeCorrect` | `[]TypeOK` |
| | `WorkersLoseNothing` | `[]NoLostWork`: without faults, a committed task has its result on the topic |
| | `WorkersLossesBounded` | `[]LossBounded`: every task committed without a result has cost a fault (no run lists it: `ImplementsRelay`, which one does, implies it) |
| | `WorkersDuplicatesBounded` | `[]DuplicatesNeedDisruption`: every answer too many has cost a crash or an eviction |
| | `WorkersImplementRelay` | `ImplementsRelay`: `Worker` implements `Relay` |
| `OrchestratorProofs` | `OrchestratorTypeCorrect` | `[]TypeOK` |
| | `NoRowForgotten` | `[]CommittedRowsDecided`: without faults and failures, a committed row has a decision |
| | `FewRowsForgotten` | `[]ForgottenBounded`: every claim with a committed row and no decision has cost a fault or a failed synthesis |
| | `DecidedOnce` | `[]OneDecisionPerProcess`: no more decisions for a claim than processes were started |
| | `OnlyCrashesRepeat` | `[]OnlyCrashesRepeatRows`: every decision too many has cost a crash or an eviction |
| | `DecisionsOrdered` | `[]DecisionsInRowOrder`: without evictions and faults, decisions follow the rows |
| | `OrchestratorImplementsRelay` | `ImplementsRelay`: `Orchestrator` implements `Relay` |
| `DeployProofs` | `DeployTypeCorrect` | `[]TypeOK` |
| | `SuccessSubmitted` | `[]SucceededMeansSubmitted`: table, function and statement are there, the job is pending or running, or has failed on an error that was met |
| | `TableReplayed` | `[]TableIsReplay`: the table holds the rows of an undisturbed barrier, all and in order |
| `RolloutProofs` | `CarefulRollout` | `[]CarefulRolloutLosesNothing` |
| `SequentialProofs` | `LoopTypeCorrect` | `[]TypeOK` |
| | `CallsAnswered` | `[]AskedWithEveryCallAnswered`: before a request every call has its one reply, in order |
| | `InventedIdsUnique` | `[]InventedIdsDiffer` |
| | `CallsReported` | `[]EveryCallIsReported` |
| | `CostBounded` | `[]RequestsBounded` |
| | `RowRoundTrips` | `[]RoundTrip`: for texts of any length and any number of agents, every field is read back as it was written, up to returns and tabs |
| | `ClaimIdComesBack` | `[]ClaimIdIsOwnOrUnknown`: the claim id read back is the row's own or `UNKNOWN` |
| | `OnlyControlBreaksRows` | a row fails to parse exactly when one of its texts holds a control character other than newline, return and tab |
| | `DecisionFound` | `[]DecisionIsAccountedFor`: for answers of any length, the decision of an object amid prose is found; any other is that of an object in the answer, its first line or `UNKNOWN`; it is empty only if an object says so |
| `SwarmProofs` | `SwarmTypeCorrect` | `[]TypeOK` of the whole |
| | `DecisionsBacked` | `[]DecisionsAreBacked`: from a decision to its row, its results and their tasks |
| | `RowsAccounted` | `[]RowsAreAccountedFor`: a row beyond one per dispatch costs as many disruptions as it joins agents |
| | `FreshRows` | if `Cardinality(Agents) <= Expected`, `[]FreshUnlessDisturbed`: no row mixes dispatches while nothing goes wrong |
| | `SwarmImplementsAdjudication` | `ImplementsAdjudication`: `Swarm` implements `Adjudication` |

`FreshRows` alone has a hypothesis. Without it the theorem is false: when three
agents answer and two are expected, the third answer stays behind in the barrier
and is joined with the next dispatch. The repository sets the two equal
(`create_barrier.sh:18`, `setup_queries.sql:47`). When more are expected than there are, no row
is ever emitted, and the proof says so (`NoRows`).

Few of the properties are inductive as they stand. The arguments:

- **Barrier.** `TypeInv` strengthens `TypeOK` by `ReadInBounds` (the statement
  never reads past the end of a topic) and `ResultsPartitioned` (a result lies in
  the partition of its claim), so that `Eval` reads a typed result of the right
  partition. `RowsAreComplete` rests on `PutLemma`: `put` raises the number of agents
  by at most one, so a map that was below `Expected` and now is not has exactly
  `Expected`, also when a null or non-positive argument makes `Expected` one.
  `FindingsAreReported` rests on `ResultsGrow` and `ReportedStays` (topics only grow
  and offsets only advance). `NoResultCountedTwice` rests on `EvalConsumes` (one
  `eval` adds exactly one result to those read for its claim) and
  `OthersConsumeNothing`; clearing the state with each row is what makes the sum
  come out. `LatestReportWins` compares the result just read with all earlier ones
  of the same agent and claim.
- **The loop.** `LoopInv` says that the owner of a partition stands at its group's
  committed offset, or one record past it with that record in hand (`CursorOK`), and
  that a process at work has a record of the topic in hand (`HandOK`). Without it a
  commit could jump over records, as that of an evicted process would if it were
  not rejected. `TurnStep` then reduces the dozen steps of the loop to five effects
  on what is in hand (`Rests`, `Keeps`, `Flushes`, `Loses`, `Commit`), so that each
  component argues about five cases only. It is proved once, for any set of
  records and any output.
- **Counting on the loop.** Both loops promise that an answer too many has its price.
  A record may still be answered by whoever has it in hand, in the producer queue or
  ahead (`Chances`); a step of the code that answers uses up such a chance, and only a
  crash or an eviction makes a new one for a record already answered.
  `SurplusBounded` says that answers and chances beyond the first of each record
  (`Extra`) number no more than the disruptions. `LossesBounded` says the same of
  records that were passed without an answer although they were `Due`, and of
  faults. Marks on records are counted with the injections of `FiniteSetTheorems`.
- **Worker.** `NoLostWork` needs what is true between produce and commit:
  `AnsweredOK`, a task at `"commit"` has its result on the topic and one at `"flush"`
  has it there or in the queue, as long as there was no fault. `RelayInv` adds the two
  counts and that a result lies where its task says (`LogOK`, `OutOK`); the
  bounds follow by injecting answers or lost tasks into them.
- **Orchestrator.** `CommittedRowsDecided` also needs `MemoryOK`: what a process
  remembers in `_decided` has a decision on the topic unless it is in the queue
  being flushed. This is why a row that `_decided` skips may be committed.
  `ForgottenBounded` counts, besides claims already forgotten, those that a process
  treats as decided without a decision being on its way (`Slips`): the failure is
  over by the time the row is committed, and other rows are skipped because of it.
- **Decided once.** `MayAdd` holds of a process that has a decision for a claim in
  its queue, or runs and has not decided the claim. `OnceInv` bounds decisions
  on the topic plus processes that may still add one (`Adders`) by the processes
  started: delivering moves one from the second number to the first, a start is the
  only step that adds one. It needs `MemoryKept` and `FreshOK`: what is queued is
  remembered, each claim once, and what is being worked on is new.
- **Decisions in order.** `OrderInv`: while nothing was evicted or cut short, the decisions
  of a claim are in row order, none is of a row beyond the committed one except
  that being flushed, and only a process at `"flush"` has a queue (`OnlyFlushed`). A
  rolling update hands over only what is committed.
- **Implementing `Relay`.** `RelayInit` and one lemma per kind of step: a dispatched
  record is `Accept`, a delivery is `Answer`, a commit is `Settle`, a fault `Lose`, a
  crash or eviction `Disrupt`, anything else a stutter. The guards of `Answer` and
  `Settle`, which bound what repeats and losses cost, are the two counts (`Afforded`).
  For the orchestrators, `KnownInv` says that a claim in `_decided` has a row that is
  committed or about to be, so that a skipped row is not the first of its claim,
  and `PassedInv` counts the first rows passed unanswered.
- **Deployment.** `DeployInv` says which objects exist from which statement on, that
  a running script has not succeeded yet, and (through `SucceededMeansSubmitted`
  itself) that a statement just created is not on its way out when `Gone` strikes. It
  also traces a missing key back to an error: `fs-alter-key` can only be given up after
  one, be it the deletion of its statement that failed, so a job that fails for
  want of the key has an error behind it.
  `ReplayInv` says of each partition that there is a function `f`, the memory of an
  undisturbed barrier after each number of results; that a pending or running job has the
  memory `f` gives for its offset (`Buffered`); and that the table is a stretch of
  these rows, left by an earlier job, followed by those for the results read so far
  (`Table`) - all of them once the script has succeeded, since it drops the table. `ReplayUnique` and `ReplayGrows` are inductions over the log, done by the
  least number at which two replays would differ.
- **Rollout.** `RolloutInv`: by the careful procedure, every unread record decodes
  under what every replica runs with, also a replica that is down.
- **Tool loop.** `CostInv`: an iteration that goes on has cost one request. `ConvInv` is
  what holds in the middle of an answer: the calls still to make are the last ones
  of the last request (`LastOK`), all before have their reply (`AnsweredOK`) and their
  name in the report (`ReportedOK`), and invented ids grow with the iteration and the index (`IdsOK`). What the
  properties say with `FlattenSeq` is reduced to lengths and places (`Joins`).
- **Sequences.** `FlattenSeq` and `FoldLeft` are recursive, and TLAPS instantiates no
  induction over sequences. Its place is taken by `AllSequences`: a *set* of sequences
  that holds the empty one and, with each, the one with an element more holds all of
  them. It follows from the least length of a sequence left out, and the lemmas
  below apply it to the set of the texts of which they hold. `JoinExists` and
  `IterationExists` show that the recursive functions behind the two operators exist,
  `FlattenAppend` and `FoldAppend` what one element more does to their value.
- **Payload.** All that writes a row is a map by element whose results are joined
  (`ByEach`): one replacement, `Plain`, the fields of the map, the literals of the
  fields. `EscIs` shows that the five replacements in sequence are one such map: none
  touches a character that an earlier one has put in, which is what the order of the
  code is for (with quotes first it is false). Reading follows the nesting of
  writing: `RunChar` says what `json.loads` does with what `esc` makes of one
  character, `RunText` of a text, `RunLiteral` of a text in its quotes, `RunFields` of all
  of them, `RowParsed` of the row. Each has two cases, as the text has a raw control
  character or not: the reader stands where it should, with the text read, or has
  failed and stays so. The state only needs its type (`PayloadTypes`): the theorems
  speak of every row there can be.
- **Answer.** An object amid prose has the only braces of the answer, so that the first
  opening and the last closing brace are its own (`FirstAndLast`), also after
  `Strip`, which takes a part from the answer that holds all but line ends
  (`StripIs`). What `Slice` cuts out of that part is a part of the answer
  (`PartOfPart`): when `json.loads` takes it, it is one of `ObjectsIn`. When not,
  `FallbackIs` says that the first line of a stripped text is not empty, holds no line
  end and begins the text, so that an empty decision comes from an object (`OnlyBlankIsEmpty`).
- **Swarm.** The invariant of each part is proved for `Fed`: its own steps, and any input
  whatever, so that it does not matter who feeds it. `SwarmProofs` instantiates the
  modules about the parts over the shared topics, and `Parts` says that each step of the
  swarm is a step of one part, an input of the next, and nothing to the others;
  `SwarmInv` follows. `DecisionsAreBacked` chains what the three parts say of a
  decision, a row and a result. `RowsAreAccountedFor` multiplies: the results
  of a claim are at most one per agent and dispatch, plus the surplus of the workers,
  and each row has used up `Expected` of them (`CountedOnce`'s invariant).
  `FreshUnlessDisturbed` rests on `FreshInv`, for as long as the run is `Calm`: every
  unread result and every buffered finding is of the latest dispatch, and the
  buffer holds exactly who was heard (`WaitingFresh`). A dispatch that waited finds the
  barrier empty (`SettledEmpty`): by `NoLostWork` all agents have been heard, and a map
  of all agents is a row.
- **Implementing `Adjudication`.** `LedgerInv` collects what a step has to be paid
  from: `SwarmInv`, `OnceInv` of the decisions, the surplus of both loops, and that only
  tasks are on the task topic. `Paid` says each bounding guard of `Adjudication` as an
  invariant, for all claims at once: it holds after a step because `LedgerInv` does
  (`PaidNext`), and the action lemmas (`AdjudicatedReport`, `AdjudicatedBarrier`,
  `AdjudicatedDecide`, ...) only show that the record a step publishes is one the
  topics before it call for. A step that publishes nothing is a stutter or `Disturb`.

Only model-checked: all liveness (`BarrierOpens`, `EveryTaskSettled`, `EveryRowSettled`,
`BarrierCatchesUp`, `ServedOnceStartable`, `Terminates`, `EventuallyDecided`), which needs
ENABLED, out of the reach of TLAPS. Every invariant and every refinement that a
passing run checks is a theorem.

## 7. Not modelled, and why

- The texts of prompts, tasks, rationales and logs, tracing, time stamps.
  `partial` is `false` in every row the barrier writes.
- Credentials, topic names and model settings: passed through. The mock tools:
  `ToolLoop` lets a tool return or raise anything.
- `register_schemas.py`: three idempotent HTTP calls without state of their own;
  the first produce registers the same schemas.
- `reset.sh` and `create_topics.sh`: what deleting and recreating topics does to a
  running consumer's position is up to broker and client, and nothing in the
  repository says what is expected. For the same reason `Deploy` drops the
  synthesis table without an orchestrator reading it (a hazard in `PROJECT.json`).
- Building, deleting and uploading the jar (`create_barrier.sh:40-60`): it happens
  before the first statement and leaves the running ones alone.
- `KeyCodec`, `events.dumps` and `events.loads`: no code calls them. The pure-SQL
  barrier of `setup_queries.sql:58-75`: a comment.
- KEDA's thresholds. Scaling shows as replicas that start and stop at any time.
- `ORCHESTRATOR_GROUP`: a new group is `Orchestrator` started anew on an old topic.
- Broker failure, and offsets or records lost on the broker's side.

## 8. Plan

Done: the barrier and its theorems; the shared loop, the worker and a group
of orchestrators on it, both against the abstract `Relay`; the composition of
the whole, against the abstract `Adjudication`; the deployment of the barrier; settings and codecs through a rolling
change; the sequential pieces (`ToolLoop`, `Payload`, `Answer`). Every safety property of
every passing run is a theorem, and so are the refinements.

Next, to model: `Swarm` with two claims, with replicas and with raw texts (the
theorems cover them, `swarm_decided` and `swarm_safety` do not: two dispatches under
`ImplementsAdjudication` already are 2.16 M states and more than five minutes); the
orchestrator reading a synthesis table that is recreated, under each of the positions
a client may resume at.

Next, to prove: how far `FreshUnlessDisturbed` holds when more agents answer than are
expected; that without disturbances `Adjudication` itself has one row per dispatch.
