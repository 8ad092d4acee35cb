--------------------------------- MODULE Rollout ------------------------------
(***************************************************************************)
(* How a change of settings or of code reaches a running swarm: each       *)
(* process reads its environment and agent-spec.yaml once, when it starts  *)
(* (flinkswarm/config.py, GenericSwarmWorker.__init__), and writes and     *)
(* reads records as these settings say (ValueCodec in flinkswarm/kafka.py, *)
(* the schemas and from_dict in flinkswarm/events.py).  Processes change   *)
(* one at a time, and a record that a reader cannot decode is skipped and  *)
(* committed.                                                              *)
(*                                                                         *)
(* One topic, its writer -- the dispatch command, a process per record --  *)
(* and the replicas that read it for one agent.  The loop around a record  *)
(* is Worker's.                                                            *)
(***************************************************************************)
EXTENDS Naturals, Sequences, FiniteSets, SequencesExt

CONSTANTS
  Writer,       \* whoever runs dispatch
  Readers,      \* processes that run the worker
  AgentServed,  \* the agent whose consumer group reads the topic here
  AgentNameOf,  \* process -> its AGENT_NAME, "" when unset
  Specs,        \* the versions of agent-spec.yaml
  ToolsOf,      \* version of the package -> the names in its TOOL_REGISTRY
  First,        \* the settings everybody starts with
  MaxRecords,   \* bound: dispatches
  MaxChanges    \* bound: changes of a process's settings

Processes == Readers \cup {Writer}

(* What SwarmSpec.load leaves of the YAML here: the workers, in order, and *)
(* whether the spec names a bootstrap address.                             *)
WorkerSpec == [name : STRING, tools : SUBSET STRING]
SwarmSpec == [workers : Seq(WorkerSpec), fallback : BOOLEAN]

(* What a process reads when it starts.  A later version of the package has*)
(* one optional field more in the event.                                   *)
Settings ==
  [registry  : BOOLEAN,                    \* is SCHEMA_REGISTRY_URL set?
   bootstrap : {"unset", "empty", "set"},  \* KAFKA_BOOTSTRAP_SERVERS
   spec      : Specs,                      \* what SWARM_SPEC points at
   code      : DOMAIN ToolsOf]             \* the version of the package

ASSUME RolloutAssumption ==
  /\ Writer \notin Readers
  /\ Specs \subseteq SwarmSpec
  /\ DOMAIN ToolsOf \subseteq Nat
  /\ First \in Settings
  /\ MaxRecords \in Nat /\ MaxChanges \in Nat

VARIABLES
  env,       \* process -> the settings it starts with
  running,   \* reader -> the settings it runs with, or ran with last
  up,        \* the readers that run
  log,       \* the topic
  read,      \* how many of its records the readers' group has committed
  skipped,   \* those of them that the reader could not decode
  changes,   \* changes so far
  careful    \* has every step so far kept to the procedure? (history)

vars == <<env, running, up, log, read, skipped, changes, careful>>

-------------------------------------------------------------------------------
(* Starting a process.                                                     *)

ExpectedAgents(spec) == [i \in 1..Len(spec.workers) |-> spec.workers[i].name]

(* AGENT_NAME, or the first worker of the spec.                            *)
AgentName(p, spec) ==
  IF AgentNameOf[p] # "" THEN AgentNameOf[p] ELSE ExpectedAgents(spec)[1]

Worker(spec, name) ==
  spec.workers[SelectInSeq(ExpectedAgents(spec), LAMBDA n : n = name)]

(* base_config: an address has to come from the environment, where an empty*)
(* one counts, or from the spec.                                           *)
Connects(s) == s.bootstrap = "set" \/ (s.bootstrap = "unset" /\ s.spec.fallback)

(* __init__: the spec has workers, one of this name (KeyError), and the    *)
(* package has each of its tools (RuntimeError).                           *)
Starts(p, s) ==
  /\ s.spec.workers # <<>>
  /\ AgentName(p, s.spec) \in ToSet(ExpectedAgents(s.spec))
  /\ Worker(s.spec, AgentName(p, s.spec)).tools \subseteq ToolsOf[s.code]
  /\ Connects(s)

(* A process reads in the group of its agent: one that goes by the order of*)
(* the spec may come up in another.                                        *)
Serves(p, s) == Starts(p, s) /\ AgentName(p, s.spec) = AgentServed

-------------------------------------------------------------------------------
(* The codec.                                                              *)

(* ValueCodec.encode: the serializer's framed JSON, or plain JSON, of every*)
(* field of the event.                                                     *)
Encode(s) == [framed |-> s.registry, fields |-> s.code]

(* Mutant: from_dict passes on fields the class does not know.             *)
DecodesKnownOnly(rec, s) == rec.framed = s.registry /\ rec.fields <= s.code

(* What the registry's deserializer makes of the fields of a record: a     *)
(* schema lists all of them ("additionalProperties": False).               *)
Validates(rec, s) == rec.fields <= s.code

(* ValueCodec.decode: json.loads raises on the frame, the deserializer     *)
(* raises without it and on a field that its schema does not list;         *)
(* from_dict drops such a field, and fills in one that is missing.         *)
Decodes(rec, s) == rec.framed = s.registry /\ (s.registry => Validates(rec, s))

-------------------------------------------------------------------------------

Init ==
  /\ env = [p \in Processes |-> First]
  /\ running = [r \in Readers |-> First]
  /\ up = Readers
  /\ log = <<>> /\ read = 0 /\ skipped = {}
  /\ changes = 0
  /\ careful = TRUE

Drained == read = Len(log)

(* The operator edits one setting of one process's environment.            *)
Change(p) ==
  /\ changes < MaxChanges
  /\ changes' = changes + 1
  /\ \E f \in DOMAIN First :
       \E s \in {t \in Settings : \A g \in DOMAIN First \ {f} : t[g] = env[p][g]} :
         env' = [env EXCEPT ![p] = s]
  /\ UNCHANGED <<running, up, log, read, skipped, careful>>

(* The procedure, in a word: what s writes or has read, q reads.           *)
Follows(s, q) == q.registry = s.registry /\ (s.registry => s.code <= q.code)

(* A replica restarts, or stays down.  The procedure: with records left to *)
(* read the registry is neither turned on nor off, and with a registry the *)
(* package is not put back to an earlier version.                          *)
Restart(r) ==
  /\ IF Starts(r, env[r])
       THEN /\ running' = [running EXCEPT ![r] = env[r]]
            /\ up' = up \cup {r}
            /\ careful' = (careful /\ (Drained \/ Follows(running[r], env[r])))
       ELSE up' = up \ {r} /\ UNCHANGED <<running, careful>>
  /\ UNCHANGED <<env, log, read, skipped, changes>>

(* dispatch.  The procedure: every replica is changed before the writer.   *)
Dispatch ==
  /\ Len(log) < MaxRecords
  /\ Connects(env[Writer])
  /\ log' = Append(log, Encode(env[Writer]))
  /\ careful' = (careful /\ \A r \in Readers : Follows(env[Writer], running[r]))
  /\ UNCHANGED <<env, running, up, read, skipped, changes>>

(* Mutant: a record that does not decode is not committed.                 *)
ReceiveSticks(r) ==
  /\ r \in up
  /\ Serves(r, running[r])
  /\ ~Drained
  /\ Decodes(log[read + 1], running[r])
  /\ read' = read + 1
  /\ UNCHANGED <<env, running, up, log, skipped, changes, careful>>

(* A replica reads the next record, or skips it; it is committed either way*)
Receive(r) ==
  /\ r \in up
  /\ Serves(r, running[r])
  /\ ~Drained
  /\ read' = read + 1
  /\ skipped' = IF Decodes(log[read + 1], running[r]) THEN skipped
                                                     ELSE skipped \cup {read + 1}
  /\ UNCHANGED <<env, running, up, log, changes, careful>>

Next ==
  \/ \E p \in Processes : Change(p)
  \/ \E r \in Readers : Restart(r) \/ Receive(r)
  \/ Dispatch

Spec == Init /\ [][Next]_vars

(* A replica that is down is started again, and a running one polls.       *)
Fairness ==
  \A r \in Readers : WF_vars(r \notin up /\ Restart(r)) /\ WF_vars(Receive(r))

-------------------------------------------------------------------------------

(* Readers first, then the writer, and the registry only on an empty topic:*)
(* by this procedure a change of the settings or of the package, replica by*)
(* replica, loses no record, also when some replica cannot start in between*)
(* and whatever the operator edits without restarting anything.            *)
CarefulRolloutLosesNothing == careful => skipped = {}

(* A replica that cannot start with its settings -- an agent or a tool that*)
(* is not there, no address -- leaves the records where they are: once the *)
(* operator leaves settings behind with which some replica comes up as the *)
(* agent, or has come up, every record is settled.                         *)
ServedOnceStartable ==
  <>[](\E r \in Readers : Serves(r, env[r]) /\ (r \in up => Serves(r, running[r])))
    => \A i \in 1..MaxRecords : (Len(log) >= i) ~> (read >= i)

===============================================================================
