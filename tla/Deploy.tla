--------------------------------- MODULE Deploy -------------------------------
(***************************************************************************)
(* flink/create_barrier.sh: six Flink statements, each recreated by fc(),  *)
(* the last of which is the job that runs the barrier (AgentBarrier).  The *)
(* script aborts at the first statement it cannot create (set -e), and is  *)
(* run again, also while the job of the last run is still at work.         *)
(*                                                                         *)
(* Five of the six are created with --wait: fc returns when they are done. *)
(* The job is not: the script ends while it is pending, and learns nothing *)
(* of what becomes of it.                                                  *)
(*                                                                         *)
(* External: Confluent Cloud.  Deleting a statement takes a while and its  *)
(* name stays taken meanwhile; a pending job runs some time later, or fails*)
(* as a running one may; a job whose output table is dropped breaks, or    *)
(* goes on once the table is back.                                         *)
(***************************************************************************)
EXTENDS Events, Integers

CONSTANTS
  ExpectedAgents, MaxResults,   \* see AgentBarrier
  Attempts,                     \* how often fc tries to create a statement
  MaxErrors,                    \* bound: errors, give-ups, interruptions, failed jobs
  MaxRedeploys                  \* bound: runs of the script after a success

ASSUME DeployAssumption ==
  /\ ExpectedAgents \in Int /\ MaxResults \in Nat
  /\ Attempts \in Nat \ {0} /\ MaxErrors \in Nat /\ MaxRedeploys \in Nat

VARIABLES
  results, synthesis, responses, read, expiries,   \* see AgentBarrier
  script,      \* where the script is: [at, phase, tries]
  outcome,     \* how its last run ended: "none" | "ok" | "failed"
  statement,   \* name -> "absent" | "present" | "deleting"
  catalog,     \* which of "key" (a STRING), "table" and "function" are there
  job,         \* "none" | "pending" | "running" | "failed" | "broken"
  errors, redeploys   \* counters of what went wrong or was repeated

B == INSTANCE AgentBarrier WITH MaxExpiries <- 0

barrierVars == <<results, synthesis, responses, read, expiries>>
scriptVars == <<script, outcome, statement, catalog, job, errors, redeploys>>
vars == <<barrierVars, scriptVars>>

(* The calls of fc, in their order.                                        *)
Statements ==
  <<"fs-alter-key", "fs-synth-drop", "fs-synth-create", "fs-fn-drop",
    "fs-fn-agentbarrier", "fs-barrier-ptf">>

Names == {Statements[i] : i \in DOMAIN Statements}

Name == Statements[script.at]

Init ==
  /\ B!Init
  /\ script = [at |-> 0, phase |-> "delete", tries |-> 0]
  /\ outcome = "none"
  /\ statement = [n \in Names |-> "absent"]
  /\ catalog = {}
  /\ job = "none"
  /\ errors = 0 /\ redeploys = 0

-------------------------------------------------------------------------------
(* The script.                                                             *)

At(i) == script' = [at |-> i, phase |-> "delete", tries |-> 0]

Abort == At(0) /\ outcome' = "failed"

Error == errors < MaxErrors /\ errors' = errors + 1

(* The operator runs the script: the first time, after a failure, or to    *)
(* deploy it anew.                                                         *)
Run ==
  /\ script.at = 0
  /\ IF outcome = "ok"
       THEN redeploys < MaxRedeploys /\ redeploys' = redeploys + 1
       ELSE UNCHANGED redeploys
  /\ At(1)
  /\ outcome' = "none"
  /\ UNCHANGED <<barrierVars, statement, catalog, job, errors>>

(* fc deletes the statement of the name, and ignores whether that worked.  *)
Delete ==
  /\ script.at # 0
  /\ script.phase = "delete"
  /\ script' = [script EXCEPT !.phase = "create"]
  /\ \/ /\ statement[Name] = "present"
        /\ statement' = [statement EXCEPT ![Name] = "deleting"]
        /\ UNCHANGED errors
     \/ /\ statement[Name] = "present"
        /\ Error
        /\ UNCHANGED statement
     \/ /\ statement[Name] # "present"
        /\ UNCHANGED <<statement, errors>>
  /\ UNCHANGED <<barrierVars, outcome, catalog, job, redeploys>>

(* The next call of fc, or the end of the script.                          *)
Proceed ==
  IF script.at = Len(Statements)
    THEN At(0) /\ outcome' = "ok"
    ELSE At(script.at + 1) /\ UNCHANGED outcome

(* Mutants: the new job reads on where the topic ends, or with the state of*)
(* the old one.                                                            *)
JobFromLatest ==
  /\ job' = "pending"
  /\ responses' = [c \in Claims |-> B!NoResponses]
  /\ read' = [p \in Partitions |-> Len(results[p])]
  /\ UNCHANGED <<results, synthesis, expiries, catalog>>

JobWithOldState ==
  /\ job' = "pending"
  /\ read' = [p \in Partitions |-> 0]
  /\ UNCHANGED <<results, synthesis, responses, expiries, catalog>>

(* The job is submitted: it will start at the earliest result, with empty  *)
(* state.                                                                  *)
JobSubmitted ==
  /\ job' = "pending"
  /\ responses' = [c \in Claims |-> B!NoResponses]
  /\ read' = [p \in Partitions |-> 0]
  /\ UNCHANGED <<results, synthesis, expiries, catalog>>

(* A job that needs what is dropped may break.                             *)
MayBreak(jobs) == job' \in {job, IF job \in jobs THEN "broken" ELSE job}

(* What the statement has done when its create returns.                    *)
Effect ==
  \/ /\ Name = "fs-alter-key"
     /\ catalog' = catalog \cup {"key"}
     /\ UNCHANGED <<barrierVars, job>>
  \/ /\ Name = "fs-synth-drop"
     /\ catalog' = catalog \ {"table"}
     /\ synthesis' = [p \in Partitions |-> <<>>]
     /\ MayBreak({"pending", "running"})
     /\ UNCHANGED <<results, responses, read, expiries>>
  \/ /\ Name = "fs-synth-create"
     /\ catalog' = catalog \cup {"table"}
     /\ UNCHANGED <<barrierVars, job>>
  \/ /\ Name = "fs-fn-drop"
     /\ catalog' = catalog \ {"function"}
     /\ MayBreak({"pending"})
     /\ UNCHANGED barrierVars
  \/ /\ Name = "fs-fn-agentbarrier"
     /\ catalog' = catalog \cup {"function"}
     /\ UNCHANGED <<barrierVars, job>>
  \/ /\ Name = "fs-barrier-ptf"
     /\ JobSubmitted

Create ==
  /\ script.phase = "create"
  /\ statement[Name] = "absent"
  /\ statement' = [statement EXCEPT ![Name] = "present"]
  /\ Effect
  /\ Proceed
  /\ UNCHANGED <<errors, redeploys>>

(* Mutant: a statement that already exists is taken for the new one.       *)
RetryNotNeeded ==
  /\ script.phase = "create"
  /\ statement[Name] # "absent"
  /\ Proceed
  /\ UNCHANGED <<barrierVars, statement, catalog, job, errors, redeploys>>

(* Mutant: one attempt too many.                                           *)
RetryOnceMore ==
  /\ script.phase = "create"
  /\ statement[Name] # "absent"
  /\ script.tries < Attempts
  /\ script' = [script EXCEPT !.tries = @ + 1]
  /\ UNCHANGED <<barrierVars, outcome, statement, catalog, job, errors, redeploys>>

(* "already exists": fc waits and tries again.                             *)
Retry ==
  /\ script.phase = "create"
  /\ statement[Name] # "absent"
  /\ script.tries + 1 < Attempts
  /\ script' = [script EXCEPT !.tries = @ + 1]
  /\ UNCHANGED <<barrierVars, outcome, statement, catalog, job, errors, redeploys>>

(* fc returns 1: after the last attempt, for sure when the deletion had    *)
(* failed, or on any other error, which may leave a statement of the name  *)
(* behind, failed or, when only the wait for it was cut short, done.  That *)
(* ends the script, except for the first (|| true).                        *)
GiveUp ==
  /\ script.phase = "create"
  /\ \/ /\ statement[Name] # "absent"
        /\ script.tries + 1 = Attempts
        /\ IF statement[Name] = "deleting" THEN Error ELSE UNCHANGED errors
        /\ UNCHANGED <<statement, barrierVars, catalog, job>>
     \/ /\ statement[Name] = "absent"
        /\ Error
        /\ \E left \in {"absent", "present"} :
             statement' = [statement EXCEPT ![Name] = left]
        /\ \/ UNCHANGED <<barrierVars, catalog, job>>
           \/ statement'[Name] = "present" /\ Effect
  /\ IF Name = "fs-alter-key" THEN Proceed ELSE Abort
  /\ UNCHANGED redeploys

(* The operator interrupts the script.                                     *)
Interrupt ==
  /\ script.at # 0
  /\ Error
  /\ Abort
  /\ UNCHANGED <<barrierVars, statement, catalog, job, redeploys>>

-------------------------------------------------------------------------------
(* Confluent Cloud.                                                        *)

(* The deletion of a statement takes effect; a job stops with it.          *)
Gone(n) ==
  /\ statement[n] = "deleting"
  /\ statement' = [statement EXCEPT ![n] = "absent"]
  /\ job' = IF n = "fs-barrier-ptf" THEN "none" ELSE job
  /\ UNCHANGED <<barrierVars, script, outcome, catalog, errors, redeploys>>

(* The submitted job starts to run.                                        *)
JobRuns ==
  /\ job = "pending"
  /\ job' = "running"
  /\ UNCHANGED <<barrierVars, script, outcome, statement, catalog, errors, redeploys>>

(* The job fails, before it runs or later, for whatever reason; whoever    *)
(* does not ask for its status learns nothing.                             *)
JobFails ==
  /\ job \in {"pending", "running"}
  /\ Error
  /\ job' = "failed"
  /\ UNCHANGED <<barrierVars, script, outcome, statement, catalog, redeploys>>

(* The job reads a result.  It needs its output table, and fails when the  *)
(* key is still the VARBINARY Flink infers.                                *)
Eval(p) ==
  /\ job = "running"
  /\ {"table", "key"} \subseteq catalog
  /\ B!Eval(p)
  /\ UNCHANGED scriptVars

EvalFails ==
  /\ job = "running"
  /\ "key" \notin catalog
  /\ \E p \in Partitions : read[p] < Len(results[p])
  /\ job' = "failed"
  /\ UNCHANGED <<barrierVars, script, outcome, statement, catalog, errors, redeploys>>

Env == B!Env /\ UNCHANGED scriptVars

Script == (Run \/ Delete \/ Create \/ Retry) \/ GiveUp

Next ==
  \/ Script \/ Interrupt
  \/ \E n \in Names : Gone(n)
  \/ \E p \in Partitions : Eval(p)
  \/ JobRuns \/ JobFails \/ EvalFails \/ Env

Spec == Init /\ [][Next]_vars

(* The operator runs a script that failed again, deletions take effect, a  *)
(* pending job runs and a running one consumes, unless it fails; nobody has*)
(* to redeploy or to interrupt, not even when the job has failed.          *)
Fairness ==
  /\ WF_vars(outcome # "ok" /\ Script)
  /\ \A n \in Names : WF_vars(Gone(n))
  /\ WF_vars(JobRuns) /\ WF_vars(EvalFails)
  /\ \A p \in Partitions : WF_vars(Eval(p))

FairSpec == Spec /\ Fairness

-------------------------------------------------------------------------------

(* Type correctness of the script and of the cloud's objects.              *)
TypeOK ==
  /\ B!TypeOK
  /\ script \in [at : 0..Len(Statements), phase : {"delete", "create"},
                 tries : 0..(Attempts - 1)]
  /\ outcome \in {"none", "ok", "failed"}
  /\ statement \in [Names -> {"absent", "present", "deleting"}]
  /\ catalog \subseteq {"key", "table", "function"}
  /\ job \in {"none", "pending", "running", "failed", "broken"}
  /\ errors \in Nat /\ redeploys \in Nat

(* A script that succeeds has submitted what it meant to: table, function  *)
(* and statement are there, no job of an earlier run was taken for its own,*)
(* and none is on its way out or broken by a drop.  Whether the job comes  *)
(* to run it does not say: but a job that failed has met an error, its own *)
(* or the one at fs-alter-key that the script ignores.                     *)
SucceededMeansSubmitted ==
  outcome = "ok" =>
    /\ {"table", "function"} \subseteq catalog
    /\ statement["fs-barrier-ptf"] = "present"
    /\ job \in {"pending", "running"} \/ (job = "failed" /\ errors > 0)

(* The rows one undisturbed barrier emits for the first n results of p.    *)
Rows(p, n) ==
  LET after[i \in 0..n] ==
        IF i = 0 THEN [map |-> [c \in Claims |-> B!NoResponses], rows |-> <<>>]
        ELSE LET res == results[p][i]
                 old == after[i - 1]
                 new == B!Put(old.map[res.claim], res.agent, B!Stored(res))
             IN  IF Cardinality(DOMAIN new) = B!Expected
                   THEN [map  |-> [old.map EXCEPT ![res.claim] = B!NoResponses],
                         rows |-> Append(old.rows,
                                         [claim |-> res.claim, results |-> new])]
                   ELSE [old EXCEPT !.map[res.claim] = new]
  IN  after[n].rows

(* Recreating the barrier changes no evidence and drops none: after a run  *)
(* that succeeded the table holds the rows an undisturbed barrier emits for*)
(* the results read so far, all of them and in order; what precedes them is*)
(* a stretch of the same rows, left by an old job that survived the drop.  *)
TableIsReplay ==
  outcome = "ok" =>
    \A p \in Partitions : \E i, j \in 0..Len(Rows(p, Len(results[p]))) :
      synthesis[p] = SubSeq(Rows(p, Len(results[p])), i + 1, j) \o Rows(p, read[p])

(* The claims whose results are all there.                                 *)
Reported(c) ==
  \E i \in 1..Len(Rows(PartitionOf[c], Len(results[PartitionOf[c]]))) :
    Rows(PartitionOf[c], Len(results[PartitionOf[c]]))[i].claim = c

(* Whatever aborts or interrupts the script and however often it is run    *)
(* again, every claim that is fully reported ends up with a row in the     *)
(* table -- unless the job of the run that succeeded has failed, which     *)
(* "statement describe fs-barrier-ptf" would show and nothing acts upon.   *)
BarrierCatchesUp ==
  <>[](\A c \in Claims : Reported(c) => B!RowsOf(c) # {} \/ job = "failed")

===============================================================================
