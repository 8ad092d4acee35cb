----------------------------- MODULE DeployProofs -----------------------------
(***************************************************************************)
(* Theorems about create_barrier.sh, for every number of attempts, errors  *)
(* and runs of the script, and whatever the barrier's topics hold: its     *)
(* state is well typed, a success has submitted the job with what it needs *)
(* in place, and the table is a replay of the results.                     *)
(***************************************************************************)
EXTENDS Deploy, SequenceTheorems, WellFoundedInduction, FiniteSetTheorems, TLAPS

(* The theorems about the barrier, for the barrier in the script's hands,  *)
(* whose state TTL does not run out here.                                  *)
BP == INSTANCE AgentBarrierProofs WITH MaxExpiries <- 0

(* Where a script may be.                                                  *)
Place == [at : 0..6, phase : {"delete", "create"}, tries : Nat]

(* The table and the function are there from the statement that creates    *)
(* them on; a script that runs has not succeeded yet; and what it submitted*)
(* when it did stays until it runs again.  Without an error every deletion *)
(* has been asked for, and the key is set before the table is dropped.     *)
DeployInv ==
  /\ script \in Place
  /\ script.at = 0 => script.phase = "delete"
  /\ script.at # 0 => outcome # "ok"
  /\ script.at >= 4 => "table" \in catalog
  /\ script.at = 6 => "function" \in catalog
  /\ statement \in [Names -> {"absent", "present", "deleting"}]
  /\ errors \in Nat
  /\ script.phase = "create" /\ statement[Name] = "present" => errors > 0
  /\ (script.at >= 2 \/ outcome = "ok") /\ "key" \notin catalog => errors > 0
  /\ SucceededMeansSubmitted

(* The statements by their number.                                         *)
LEMMA StatementNames ==
  /\ Len(Statements) = 6
  /\ Statements[1] = "fs-alter-key" /\ Statements[2] = "fs-synth-drop"
  /\ Statements[3] = "fs-synth-create" /\ Statements[4] = "fs-fn-drop"
  /\ Statements[5] = "fs-fn-agentbarrier" /\ Statements[6] = "fs-barrier-ptf"
BY DEF Statements

(* Which of the statements does what.                                      *)
LEMMA ScriptPlaces ==
  ASSUME NEW i \in 1..6
  PROVE  /\ Statements[i] = "fs-barrier-ptf" <=> i = 6
         /\ Statements[i] = "fs-alter-key" <=> i = 1
         /\ Statements[i] = "fs-synth-drop" <=> i = 2
         /\ Statements[i] = "fs-synth-create" <=> i = 3
         /\ Statements[i] = "fs-fn-drop" <=> i = 4
         /\ Statements[i] = "fs-fn-agentbarrier" <=> i = 5
         /\ Statements[i] \in Names
<1>1. i = 1 \/ i = 2 \/ i = 3 \/ i = 4 \/ i = 5 \/ i = 6
  OBVIOUS
<1>2. DOMAIN Statements = 1..6
  BY DEF Statements
<1>3. Statements[i] \in Names
  BY <1>2 DEF Names
<1> QED
  BY <1>1, <1>3, StatementNames

(* Nothing is deployed at first, and no script has succeeded.              *)
LEMMA DeployInit == Init => DeployInv
BY DEF Init, DeployInv, SucceededMeansSubmitted, Place

(* A step after which the script is in none of its last places.            *)
LEMMA Early ==
  ASSUME NEW i \in {0, 1}, At(i), outcome' # "ok", errors' \in Nat,
         statement' \in [Names -> {"absent", "present", "deleting"}]
  PROVE  DeployInv'
BY DEF DeployInv, SucceededMeansSubmitted, At, Place

(* A step of a running script that stays in its place.                     *)
LEMMA Stay ==
  ASSUME DeployInv, script.at # 0, script' \in Place, script'.at = script.at,
         UNCHANGED <<outcome, catalog>>, errors' \in Nat, errors' >= errors,
         statement' \in [Names -> {"absent", "present", "deleting"}],
         script'.phase = "create" /\ statement'[Name] = "present" => errors' > 0
  PROVE  DeployInv'
<1>1. Name' = Name
  BY DEF Name
<1> QED
  BY <1>1 DEF DeployInv, SucceededMeansSubmitted

(* Creating a statement moves on only with what the next ones rely on.     *)
LEMMA CreateStep ==
  ASSUME DeployInv, Create
  PROVE  DeployInv'
<1>1. /\ script.at \in 1..6 /\ outcome # "ok"
      /\ script.at >= 4 => "table" \in catalog
      /\ script.at = 6 => "function" \in catalog
      /\ statement \in [Names -> {"absent", "present", "deleting"}]
      /\ errors \in Nat
      /\ script.at >= 2 /\ "key" \notin catalog => errors > 0
  BY DEF DeployInv, Create, Place
<1>2. /\ statement' = [statement EXCEPT ![Name] = "present"] /\ Effect /\ Proceed
      /\ errors' = errors
  BY DEF Create
<1>3. /\ Name = "fs-barrier-ptf" <=> script.at = 6
      /\ Name = "fs-alter-key" <=> script.at = 1
      /\ Name = "fs-synth-drop" <=> script.at = 2
      /\ Name = "fs-synth-create" <=> script.at = 3
      /\ Name = "fs-fn-drop" <=> script.at = 4
      /\ Name = "fs-fn-agentbarrier" <=> script.at = 5
      /\ Name \in Names
  BY <1>1, ScriptPlaces DEF Name
<1>4. /\ statement' \in [Names -> {"absent", "present", "deleting"}]
      /\ statement'[Name] = "present"
  BY <1>1, <1>2, <1>3
<1>5. CASE script.at = 6
  <2>1. job' = "pending" /\ catalog' = catalog
    BY <1>2, <1>3, <1>5 DEF Effect, JobSubmitted
  <2>2. script' \in Place /\ script'.at = 0 /\ script'.phase = "delete" /\ outcome' = "ok"
    BY <1>2, <1>5, StatementNames DEF Proceed, At, Place
  <2>3. statement'["fs-barrier-ptf"] = "present"
    BY <1>3, <1>4, <1>5
  <2> QED
    BY <1>1, <1>2, <1>4, <1>5, <2>1, <2>2, <2>3 DEF DeployInv, SucceededMeansSubmitted
<1>6. CASE script.at # 6
  <2>1. /\ script' \in Place /\ script'.at = script.at + 1 /\ script'.phase = "delete"
        /\ outcome' = outcome
    BY <1>1, <1>2, <1>6, StatementNames DEF Proceed, At, Place
  <2>2. script'.at >= 4 => "table" \in catalog'
    BY <1>1, <1>2, <1>3, <1>6, <2>1 DEF Effect
  <2>3. script'.at = 6 => "function" \in catalog'
    BY <1>1, <1>2, <1>3, <1>6, <2>1 DEF Effect
  <2>4. "key" \notin catalog' => errors' > 0
    BY <1>1, <1>2, <1>3, <1>6 DEF Effect
  <2> QED
    BY <1>1, <1>2, <1>4, <1>6, <2>1, <2>2, <2>3, <2>4 DEF DeployInv, SucceededMeansSubmitted
<1> QED
  BY <1>5, <1>6

(* An attempt that fails ends the script, except for the first statement.  *)
LEMMA GiveUpPreserves ==
  ASSUME DeployInv, GiveUp
  PROVE  DeployInv'
<1>1. /\ script.at \in 1..6 /\ outcome # "ok" /\ errors \in Nat
      /\ statement \in [Names -> {"absent", "present", "deleting"}]
      /\ script.phase = "create" /\ (statement[Name] = "present" => errors > 0)
  BY DEF DeployInv, GiveUp, Place
<1>2. Name \in Names
  BY <1>1, ScriptPlaces DEF Name
<1>3. /\ statement' \in [Names -> {"absent", "present", "deleting"}]
      /\ errors' \in Nat /\ errors' > 0
  <2>1. CASE /\ statement[Name] # "absent" /\ UNCHANGED statement
             /\ IF statement[Name] = "deleting" THEN Error ELSE UNCHANGED errors
    BY <1>1, <1>2, <2>1 DEF Error
  <2>2. CASE Error /\ \E left \in {"absent", "present"} :
                        statement' = [statement EXCEPT ![Name] = left]
    <3>1. errors' \in Nat /\ errors' > 0
      BY <1>1, <2>2 DEF Error
    <3>2. PICK left \in {"absent", "present"} : statement' = [statement EXCEPT ![Name] = left]
      BY <2>2
    <3> HIDE DEF Name
    <3>3. statement' \in [Names -> {"absent", "present", "deleting"}]
      BY <1>1, <3>2
    <3> QED
      BY <3>1, <3>3
  <2>3. \/ /\ statement[Name] # "absent" /\ UNCHANGED <<statement, barrierVars, catalog, job>>
           /\ IF statement[Name] = "deleting" THEN Error ELSE UNCHANGED errors
        \/ Error /\ \E left \in {"absent", "present"} :
                      statement' = [statement EXCEPT ![Name] = left]
    BY DEF GiveUp
  <2> QED
    BY <2>1, <2>2, <2>3
<1>4. CASE Name = "fs-alter-key"
  <2>1. script.at = 1
    BY <1>1, <1>4, ScriptPlaces DEF Name
  <2>2. /\ script' \in Place /\ script'.at = 2 /\ script'.phase = "delete"
        /\ outcome' # "ok"
    BY <1>1, <1>4, <2>1, StatementNames DEF GiveUp, Proceed, At, Place
  <2> QED
    BY <1>3, <2>2 DEF DeployInv, SucceededMeansSubmitted
<1>5. CASE Name # "fs-alter-key"
  <2>1. At(0) /\ outcome' # "ok"
    BY <1>5 DEF GiveUp, Abort
  <2> QED
    BY <1>3, <2>1, Early
<1> QED
  BY <1>4, <1>5

(* Every step of the script, of the cloud and of the barrier.              *)
LEMMA DeployNext == DeployInv /\ [Next]_vars => DeployInv'
<1> SUFFICES ASSUME DeployInv, [Next]_vars PROVE DeployInv'
  OBVIOUS
<1>1. /\ statement \in [Names -> {"absent", "present", "deleting"}]
      /\ script \in Place /\ errors \in Nat
  BY DEF DeployInv
<1>2. CASE Run
  BY <1>1, <1>2, Early DEF Run
<1>3. CASE Delete
  <2>1. /\ script.at # 0 /\ script' = [script EXCEPT !.phase = "create"]
        /\ UNCHANGED <<outcome, catalog>>
        /\ statement' \in [Names -> {"absent", "present", "deleting"}]
        /\ errors' \in Nat /\ errors' >= errors
    BY <1>1, <1>3 DEF Delete, Error
  <2>2. script' \in Place /\ script'.at = script.at
    BY <1>1, <2>1 DEF Place
  <2>3. Name \in Names
    BY <1>1, <2>1, ScriptPlaces DEF Name, Place
  <2>4. statement'[Name] = "present" => errors' > 0
    BY <1>1, <1>3, <2>3 DEF Delete, Error
  <2> QED
    BY <2>1, <2>2, <2>4, Stay
<1>4. CASE Create
  BY <1>4, CreateStep
<1>5. CASE Retry
  <2>1. /\ script.at # 0 /\ script' = [script EXCEPT !.tries = @ + 1]
        /\ UNCHANGED <<outcome, statement, catalog, errors>>
        /\ script.phase = "create"
        /\ statement[Name] = "present" => errors > 0
    BY <1>1, <1>5 DEF Retry, DeployInv
  <2>2. script' \in Place /\ script'.at = script.at
    BY <1>1, <2>1 DEF Place
  <2> QED
    BY <1>1, <2>1, <2>2, Stay
<1>6. CASE GiveUp
  BY <1>6, GiveUpPreserves
<1>7. CASE Interrupt
  BY <1>1, <1>7, Early DEF Interrupt, Abort, Error
<1>8. ASSUME NEW n \in Names, Gone(n)
      PROVE  DeployInv'
  <2>1. /\ statement[n] = "deleting"
        /\ statement' = [statement EXCEPT ![n] = "absent"]
        /\ job' = IF n = "fs-barrier-ptf" THEN "none" ELSE job
        /\ UNCHANGED <<script, outcome, catalog, errors>>
    BY <1>8 DEF Gone
  <2>2. outcome = "ok" => n # "fs-barrier-ptf"
    BY <2>1 DEF DeployInv, SucceededMeansSubmitted
  <2>3. Name' = Name /\ (statement'[Name] = "present" => statement[Name] = "present")
    BY <1>1, <2>1 DEF Name
  <2>4. /\ statement' \in [Names -> {"absent", "present", "deleting"}]
        /\ outcome = "ok" => job' = job
        /\ statement["fs-barrier-ptf"] = "present" /\ outcome = "ok"
             => statement'["fs-barrier-ptf"] = "present"
    BY <1>1, <2>1, <2>2
  <2> QED
    BY <2>1, <2>3, <2>4 DEF DeployInv, SucceededMeansSubmitted
<1>9. ASSUME UNCHANGED scriptVars
      PROVE  DeployInv'
  BY <1>9 DEF scriptVars, DeployInv, SucceededMeansSubmitted, Name
<1>10. ASSUME UNCHANGED <<script, outcome, statement, catalog>>,
              errors' \in Nat, errors' >= errors,
              outcome = "ok" => job' = "running" \/ (job' = "failed" /\ errors' > 0)
       PROVE  DeployInv'
  <2>1. Name' = Name
    BY <1>10 DEF Name
  <2> QED
    BY <1>10, <2>1 DEF DeployInv, SucceededMeansSubmitted
<1>11. CASE JobRuns
  BY <1>1, <1>10, <1>11 DEF JobRuns
<1>12. CASE JobFails
  BY <1>1, <1>10, <1>12 DEF JobFails, Error
<1>13. CASE EvalFails
  <2>1. outcome = "ok" => errors > 0
    BY <1>13 DEF EvalFails, DeployInv
  <2> QED
    BY <1>1, <1>10, <1>13, <2>1 DEF EvalFails
<1>14. ASSUME NEW p \in Partitions, Eval(p)
       PROVE  DeployInv'
  BY <1>9, <1>14 DEF Eval
<1>15. CASE Env \/ UNCHANGED vars
  BY <1>9, <1>15 DEF Env, vars
<1> QED
  BY <1>2, <1>3, <1>4, <1>5, <1>6, <1>7, <1>8, <1>11, <1>12, <1>13, <1>14, <1>15
     DEF Next, Script

(* A script that succeeds has submitted what it meant to, whatever earlier *)
(* runs left behind: table, function and the statement this run created are*)
(* there, and its job is pending or running -- or has failed, on an error  *)
(* of its own or on the key that the script does not insist on.            *)
THEOREM SuccessSubmitted == Spec => []SucceededMeansSubmitted
<1>1. DeployInv => SucceededMeansSubmitted
  BY DEF DeployInv
<1> QED
  BY <1>1, DeployInit, DeployNext, PTL DEF Spec

-------------------------------------------------------------------------------
(* The barrier in the script's hands.                                      *)

(* What the theorems about the barrier assume holds here.                  *)
LEMMA BarrierFacts ==
  /\ ExpectedAgents \in Int /\ 0 \in Nat /\ MaxResults \in Nat
  /\ BP!IsFiniteSet(Agents) /\ PartitionOf \in [Claims -> Partitions]
  /\ RawTexts \subseteq Texts /\ Unknown \notin Claims /\ MaxRounds \in Nat
<1>1. BP!IsFiniteSet(Agents)
  BY EventsAssumption DEF EventsAssumption, IsFiniteSet, BP!IsFiniteSet
<1> QED
  BY <1>1, EventsAssumption, DeployAssumption DEF EventsAssumption, DeployAssumption

(* B and BP speak of the same barrier.                                     *)
LEMMA SameEval == ASSUME NEW p \in Partitions PROVE B!Eval(p) <=> BP!Eval(p)
BY DEF B!Eval, BP!Eval, B!Put, BP!Put, B!Stored, BP!Stored, B!Complete, BP!Complete,
       B!Cleared, BP!Cleared, B!NoResponses, BP!NoResponses, B!Expected, BP!Expected,
       B!Published, BP!Published, B!Cardinality, BP!Cardinality,
       B!FailureText, BP!FailureText, B!IsFiniteSet, BP!IsFiniteSet

(* The agents' reports are the same, too.                                  *)
LEMMA SameEnv == B!Env <=> BP!Env
BY DEF B!Env, BP!Env, B!ReportsOf, BP!ReportsOf, B!SuccessOf, BP!SuccessOf,
       B!FailureOf, BP!FailureOf, B!Published, BP!Published, B!Round, BP!Round

(* Its types, without the detour through the instance.                     *)
LEMMA SameType ==
  /\ B!TypeOK <=> BP!TypeOK
  /\ BP!TypeOK <=>
       /\ results \in [Partitions -> Seq(Result)]
       /\ synthesis \in [Partitions -> Seq(SynthesisReady)]
       /\ responses \in [Claims -> FindingMap]
       /\ read \in [Partitions -> Nat]
       /\ expiries \in Nat
BY DEF B!TypeOK, BP!TypeOK, B!Result, BP!Result, Result,
       B!SynthesisReady, BP!SynthesisReady, SynthesisReady, B!FindingMap, BP!FindingMap,
       FindingMap, B!Finding, BP!Finding, Finding, B!Round, BP!Round, Round,
       B!FailureText, BP!FailureText, FailureText

(* The same in the state after a step.                                     *)
LEMMA BarrierTypes ==
  BP!TypeOK' <=>
    /\ results' \in [Partitions -> Seq(Result)]
    /\ synthesis' \in [Partitions -> Seq(SynthesisReady)]
    /\ responses' \in [Claims -> FindingMap]
    /\ read' \in [Partitions -> Nat]
    /\ expiries' \in Nat
BY DEF BP!TypeOK, BP!Result, Result, BP!SynthesisReady, SynthesisReady, BP!FindingMap,
       FindingMap, BP!Finding, Finding, BP!Round, Round, BP!FailureText, FailureText

(* An instance's Cardinality is the usual one.                             *)
LEMMA CardinalityIs == \A S : B!Cardinality(S) = Cardinality(S) /\ BP!Cardinality(S) = Cardinality(S)
BY DEF B!Cardinality, BP!Cardinality, Cardinality, B!IsFiniteSet, BP!IsFiniteSet, IsFiniteSet

(* Putting a finding into a map adds at most one agent.                    *)
LEMMA PutFacts ==
  ASSUME NEW map \in FindingMap, NEW agent \in Agents, NEW finding \in Finding
  PROVE  /\ B!Put(map, agent, finding) \in FindingMap
         /\ Cardinality(DOMAIN B!Put(map, agent, finding)) \in Nat
         /\ Cardinality(DOMAIN map) \in Nat
         /\ Cardinality(DOMAIN B!Put(map, agent, finding)) <= Cardinality(DOMAIN map) + 1
<1>1. B!Put(map, agent, finding) = BP!Put(map, agent, finding)
  BY DEF B!Put, BP!Put
<1>2. FindingMap = BP!FindingMap /\ Finding = BP!Finding
  BY DEF FindingMap, BP!FindingMap, Finding, BP!Finding, Round, BP!Round,
         FailureText, BP!FailureText
<1>3. /\ BP!Put(map, agent, finding) \in BP!FindingMap
      /\ BP!Cardinality(DOMAIN BP!Put(map, agent, finding)) <= BP!Cardinality(DOMAIN map) + 1
  BY <1>2, BP!PutLemma, BarrierFacts
<1>4. /\ BP!Cardinality(DOMAIN BP!Put(map, agent, finding)) \in Nat
      /\ BP!Cardinality(DOMAIN map) \in Nat
  BY <1>2, <1>3, BP!FindingMapDomain, BarrierFacts
<1> QED
  BY <1>1, <1>2, <1>3, <1>4, CardinalityIs

(* What is stored of a result is a finding.                                *)
LEMMA StoredFacts == ASSUME NEW res \in Result PROVE B!Stored(res) \in Finding
<1>1. /\ B!Stored(res) = BP!Stored(res) /\ Finding = BP!Finding /\ Result = BP!Result
  BY DEF B!Stored, BP!Stored, Finding, BP!Finding, Round, BP!Round, Result, BP!Result,
         FailureText, BP!FailureText, B!FailureText
<1> QED
  BY <1>1, BP!StoredType, BarrierFacts

(* The empty map, and the number of agents that is waited for.             *)
LEMMA NoneFacts ==
  /\ B!NoResponses \in FindingMap /\ Cardinality(DOMAIN B!NoResponses) = 0
  /\ B!Expected \in Nat /\ B!Expected > 0
<1>1. B!NoResponses = BP!NoResponses /\ B!Expected = BP!Expected /\ FindingMap = BP!FindingMap
  BY DEF B!NoResponses, BP!NoResponses, B!Expected, BP!Expected,
         FindingMap, BP!FindingMap, Finding, BP!Finding, Round, BP!Round,
         FailureText, BP!FailureText
<1>2. BP!NoResponses \in BP!FindingMap /\ DOMAIN BP!NoResponses = {}
  BY BP!NoResponsesType, BarrierFacts
<1>3. BP!Expected \in Nat /\ BP!Expected > 0
  BY BP!ExpectedType, BarrierFacts
<1> QED
  BY <1>1, <1>2, <1>3, FS_EmptySet

-------------------------------------------------------------------------------
(* Type correctness.                                                       *)

(* The types of the script's and the cloud's state.                        *)
ScriptTypes ==
  /\ script \in [at : 0..6, phase : {"delete", "create"}, tries : 0..(Attempts - 1)]
  /\ outcome \in {"none", "ok", "failed"}
  /\ statement \in [Names -> {"absent", "present", "deleting"}]
  /\ catalog \subseteq {"key", "table", "function"}
  /\ job \in {"none", "pending", "running", "failed", "broken"}
  /\ errors \in Nat /\ redeploys \in Nat

(* All types, with what the barrier's own types rest on.                   *)
DeployTypes == BP!TypeInv /\ ScriptTypes

(* A step that does not touch the barrier keeps its types.                 *)
LEMMA BarrierStays ==
  ASSUME BP!TypeInv, UNCHANGED barrierVars
  PROVE  BP!TypeInv'
<1>1. UNCHANGED BP!vars
  BY DEF barrierVars, BP!vars
<1> QED
  BY <1>1, BP!TypeNext, BarrierFacts

(* A step of the barrier or of its environment keeps them.                 *)
LEMMA BarrierStep ==
  ASSUME BP!TypeInv, B!Env \/ \E p \in Partitions : B!Eval(p)
  PROVE  BP!TypeInv' /\ BP!Next
<1>1. BP!Next
  BY SameEval, SameEnv DEF BP!Next
<1> QED
  BY <1>1, BP!TypeNext, BarrierFacts DEF BP!Steps

(* The next call of fc is one of the six.                                  *)
LEMMA ProceedTypes ==
  ASSUME ScriptTypes, Proceed
  PROVE  /\ script' \in [at : 0..6, phase : {"delete", "create"}, tries : 0..(Attempts - 1)]
         /\ outcome' \in {"none", "ok", "failed"}
<1>1. script.at \in 0..6 /\ 0 \in 0..(Attempts - 1)
  BY DeployAssumption DEF DeployAssumption, ScriptTypes
<1> QED
  BY <1>1, StatementNames DEF Proceed, At, ScriptTypes

(* A statement's effect keeps the types: the drop empties topics, and the  *)
(* new job starts at the beginning of logs it may well read.               *)
LEMMA EffectTypes ==
  ASSUME DeployTypes, Effect
  PROVE  /\ BP!TypeInv' /\ catalog' \subseteq {"key", "table", "function"}
         /\ job' \in {"none", "pending", "running", "failed", "broken"}
<1>1. /\ catalog \subseteq {"key", "table", "function"}
      /\ job \in {"none", "pending", "running", "failed", "broken"}
      /\ BP!TypeInv
  BY DEF DeployTypes, ScriptTypes
<1>2. CASE Name = "fs-synth-drop" /\ synthesis' = [p \in Partitions |-> <<>>]
           /\ UNCHANGED <<results, responses, read, expiries>>
  <2>1. synthesis' \in [Partitions -> Seq(SynthesisReady)]
    BY <1>2
  <2>2. BP!TypeInv'
    BY <1>1, <1>2, <2>1, SameType, BarrierTypes DEF BP!TypeInv, BP!ReadInBounds, BP!ResultsPartitioned
  <2>3. MayBreak({"pending", "running"}) /\ catalog' = catalog \ {"table"}
    BY <1>2 DEF Effect
  <2> QED
    BY <1>1, <2>2, <2>3 DEF MayBreak
<1>3. CASE JobSubmitted
  <2>1. responses' \in [Claims -> FindingMap] /\ read' \in [Partitions -> Nat]
    BY <1>3, NoneFacts DEF JobSubmitted
  <2>2. \A p \in Partitions : read'[p] <= Len(results'[p])
    <3>1. results \in [Partitions -> Seq(Result)] /\ results' = results
      BY <1>1, <1>3, SameType DEF JobSubmitted, BP!TypeInv
    <3>2. \A p \in Partitions : read'[p] = 0 /\ Len(results'[p]) \in Nat
      BY <1>3, <3>1 DEF JobSubmitted
    <3> QED
      BY <3>2
  <2>3. BP!TypeInv'
    BY <1>1, <1>3, <2>1, <2>2, SameType, BarrierTypes
       DEF JobSubmitted, BP!TypeInv, BP!ReadInBounds, BP!ResultsPartitioned
  <2> QED
    BY <1>1, <1>3, <2>3 DEF JobSubmitted
<1>4. CASE UNCHANGED barrierVars /\ (UNCHANGED job \/ MayBreak({"pending"}))
           /\ \E x \in {"key", "table", "function"} :
                catalog' = catalog \cup {x} \/ catalog' = catalog \ {x}
  BY <1>1, <1>4, BarrierStays DEF MayBreak
<1> QED
  BY <1>2, <1>3, <1>4 DEF Effect

(* The types hold at first.                                                *)
LEMMA DeployTypesInit == Init => DeployTypes
<1> SUFFICES ASSUME Init PROVE DeployTypes
  OBVIOUS
<1>1. BP!Init
  BY DEF Init, B!Init, BP!Init, B!NoResponses, BP!NoResponses
<1>2. BP!TypeInv
  BY <1>1, BP!TypeInit, BarrierFacts
<1>3. ScriptTypes
  BY DeployAssumption DEF DeployAssumption, Init, ScriptTypes
<1> QED
  BY <1>2, <1>3 DEF DeployTypes

(* Every step keeps the types.                                             *)
LEMMA DeployTypesNext == DeployTypes /\ [Next]_vars => DeployTypes'
<1> SUFFICES ASSUME DeployTypes, [Next]_vars PROVE DeployTypes'
  OBVIOUS
<1>1. /\ script \in [at : 0..6, phase : {"delete", "create"}, tries : 0..(Attempts - 1)]
      /\ outcome \in {"none", "ok", "failed"}
      /\ statement \in [Names -> {"absent", "present", "deleting"}]
      /\ catalog \subseteq {"key", "table", "function"}
      /\ job \in {"none", "pending", "running", "failed", "broken"}
      /\ errors \in Nat /\ redeploys \in Nat
      /\ BP!TypeInv /\ 0 \in 0..(Attempts - 1)
  BY DeployAssumption DEF DeployAssumption, DeployTypes, ScriptTypes
<1>2. CASE Run
  BY <1>1, <1>2, BarrierStays DEF Run, At, DeployTypes, ScriptTypes
<1>3. CASE Delete
  <2>1. /\ script' \in [at : 0..6, phase : {"delete", "create"}, tries : 0..(Attempts - 1)]
        /\ statement' \in [Names -> {"absent", "present", "deleting"}]
        /\ errors' \in Nat
    BY <1>1, <1>3 DEF Delete, Error
  <2>2. UNCHANGED <<barrierVars, outcome, catalog, job, redeploys>>
    BY <1>3 DEF Delete
  <2> QED
    BY <1>1, <2>1, <2>2, BarrierStays DEF DeployTypes, ScriptTypes
<1>4. CASE Create
  <2>1. /\ BP!TypeInv' /\ catalog' \subseteq {"key", "table", "function"}
        /\ job' \in {"none", "pending", "running", "failed", "broken"}
    BY <1>4, EffectTypes DEF Create
  <2>2. /\ script' \in [at : 0..6, phase : {"delete", "create"}, tries : 0..(Attempts - 1)]
        /\ outcome' \in {"none", "ok", "failed"}
    BY <1>4, ProceedTypes DEF Create, DeployTypes
  <2>3. statement' \in [Names -> {"absent", "present", "deleting"}]
        /\ UNCHANGED <<errors, redeploys>>
    BY <1>1, <1>4 DEF Create
  <2> QED
    BY <1>1, <2>1, <2>2, <2>3 DEF DeployTypes, ScriptTypes
<1>5. CASE Retry
  <2>1. script' \in [at : 0..6, phase : {"delete", "create"}, tries : 0..(Attempts - 1)]
    BY <1>1, <1>5, DeployAssumption DEF DeployAssumption, Retry
  <2>2. UNCHANGED <<barrierVars, outcome, statement, catalog, job, errors, redeploys>>
    BY <1>5 DEF Retry
  <2> QED
    BY <1>1, <2>1, <2>2, BarrierStays DEF DeployTypes, ScriptTypes
<1>6. CASE GiveUp
  <2>1. /\ script' \in [at : 0..6, phase : {"delete", "create"}, tries : 0..(Attempts - 1)]
        /\ outcome' \in {"none", "ok", "failed"}
    <3>1. CASE Proceed
      BY <3>1, ProceedTypes DEF DeployTypes
    <3>2. CASE Abort
      BY <1>1, <3>2 DEF Abort, At
    <3> QED
      BY <1>6, <3>1, <3>2 DEF GiveUp
  <2>2. statement' \in [Names -> {"absent", "present", "deleting"}] /\ errors' \in Nat
    BY <1>1, <1>6 DEF GiveUp, Error
  <2>3. UNCHANGED redeploys /\ (UNCHANGED <<barrierVars, catalog, job>> \/ Effect)
    BY <1>6 DEF GiveUp
  <2>4. /\ BP!TypeInv' /\ catalog' \subseteq {"key", "table", "function"}
        /\ job' \in {"none", "pending", "running", "failed", "broken"}
    BY <1>1, <2>3, EffectTypes, BarrierStays
  <2> QED
    BY <1>1, <2>1, <2>2, <2>3, <2>4 DEF DeployTypes, ScriptTypes
<1>7. CASE Interrupt
  BY <1>1, <1>7, BarrierStays DEF Interrupt, Abort, At, Error, DeployTypes, ScriptTypes
<1>8. ASSUME NEW n \in Names, Gone(n)
      PROVE  DeployTypes'
  <2>1. /\ statement' \in [Names -> {"absent", "present", "deleting"}]
        /\ job' \in {"none", "pending", "running", "failed", "broken"}
    BY <1>1, <1>8 DEF Gone
  <2>2. UNCHANGED <<barrierVars, script, outcome, catalog, errors, redeploys>>
    BY <1>8 DEF Gone
  <2> QED
    BY <1>1, <2>1, <2>2, BarrierStays DEF DeployTypes, ScriptTypes
<1>9. ASSUME UNCHANGED scriptVars, BP!TypeInv'
      PROVE  DeployTypes'
  BY <1>9 DEF scriptVars, DeployTypes, ScriptTypes
<1>10. CASE EvalFails \/ JobRuns \/ JobFails
  <2>1. UNCHANGED <<barrierVars, script, outcome, statement, catalog, redeploys>>
    BY <1>10 DEF EvalFails, JobRuns, JobFails
  <2>2. job' \in {"running", "failed"} /\ errors' \in Nat
    BY <1>1, <1>10 DEF EvalFails, JobRuns, JobFails, Error
  <2>3. BP!TypeInv'
    BY <1>1, <2>1, BarrierStays
  <2> QED
    BY <1>1, <2>1, <2>2, <2>3 DEF DeployTypes, ScriptTypes
<1>11. ASSUME NEW p \in Partitions, Eval(p)
       PROVE  DeployTypes'
  BY <1>1, <1>9, <1>11, BarrierStep DEF Eval
<1>12. CASE Env
  BY <1>1, <1>9, <1>12, BarrierStep DEF Env
<1>13. CASE UNCHANGED vars
  BY <1>1, <1>9, <1>13, BarrierStays DEF vars
<1> QED
  BY <1>2, <1>3, <1>4, <1>5, <1>6, <1>7, <1>8, <1>10, <1>11, <1>12, <1>13 DEF Next, Script

(* The types hold in every state.                                          *)
LEMMA TypesInvariant == Spec => []DeployTypes
BY DeployTypesInit, DeployTypesNext, PTL DEF Spec

(* TypeOK: the script stays within its six calls and its attempts, and     *)
(* whatever it drops, recreates or restarts, the barrier's offsets, state  *)
(* and rows stay well typed.                                               *)
THEOREM DeployTypeCorrect == Spec => []TypeOK
<1>1. DeployTypes => TypeOK
  BY SameType, StatementNames DEF DeployTypes, ScriptTypes, TypeOK, BP!TypeInv
<1> QED
  BY <1>1, TypesInvariant, PTL

-------------------------------------------------------------------------------
(* The table is a replay.                                                  *)

(* The order of the naturals, as a relation.                               *)
LEMMA Before == \A x, y \in Nat : x < y => <<x, y>> \in OpToRel(<, Nat)
BY DEF OpToRel

(* A nonempty set of naturals has a least element: with a set of           *)
(* counterexamples, this is induction.                                     *)
LEMMA Least == ASSUME NEW T \in SUBSET Nat, T # {} PROVE \E x \in T : \A y \in T : x <= y
<1> DEFINE R == OpToRel(<, Nat)
<1>1. IsWellFoundedOn(R, Nat)
  BY NatLessThanWellFounded
<1>2. \A x, y \in Nat : x < y => <<x, y>> \in R
  BY Before
<1> HIDE DEF R
<1>3. PICK x \in T : \A y \in T : ~(<<y, x>> \in R)
  BY <1>1, WFMin
<1>4. \A y \in T : ~(y < x)
  BY <1>2, <1>3
<1>5. \A y \in T : x <= y
  BY <1>4
<1> QED BY <1>5

(* An undisturbed barrier before its first result.                         *)
Start == [map |-> [c \in Claims |-> B!NoResponses], rows |-> <<>>]

(* The map of the claim with the finding of one more result.               *)
New(old, res) == B!Put(old.map[res.claim], res.agent, B!Stored(res))

(* The row that map makes.                                                 *)
Row(old, res) == [claim |-> res.claim, results |-> New(old, res)]

(* An undisturbed barrier after one more result.                           *)
Grow(old, res) ==
  IF Cardinality(DOMAIN New(old, res)) = B!Expected
    THEN [map  |-> [old.map EXCEPT ![res.claim] = B!NoResponses],
          rows |-> Append(old.rows, Row(old, res))]
    ELSE [old EXCEPT !.map[res.claim] = New(old, res)]

(* The maps of a barrier that has emitted every row it could.              *)
Waiting ==
  {m \in [Claims -> FindingMap] : \A c \in Claims : Cardinality(DOMAIN m[c]) < B!Expected}

(* What an undisturbed barrier remembers, and all it has emitted.          *)
Memory == [map : Waiting, rows : Seq(SynthesisReady)]

(* f gives an undisturbed barrier's memory after each of the first n       *)
(* results of the log.                                                     *)
Replays(f, log, n) ==
  f[0] = Start /\ \A i \in 1..n : f[i] = Grow(f[i - 1], log[i])

(* It starts with nothing to emit.                                         *)
LEMMA StartType == Start \in Memory
<1>1. [c \in Claims |-> B!NoResponses] \in Waiting
  BY NoneFacts DEF Waiting
<1> QED
  BY <1>1 DEF Start, Memory

(* One more result leaves it waiting again, with at most one more row; so  *)
(* a row is due exactly when the number of agents is exact.                *)
LEMMA GrowFacts ==
  ASSUME NEW old \in Memory, NEW res \in Result
  PROVE  /\ Grow(old, res) \in Memory
         /\ Row(old, res) \in SynthesisReady
         /\ New(old, res) \in FindingMap /\ Cardinality(DOMAIN New(old, res)) \in Nat
         /\ Cardinality(DOMAIN New(old, res)) <= B!Expected
         /\ Grow(old, res).map =
              [old.map EXCEPT ![res.claim] =
                 IF Cardinality(DOMAIN New(old, res)) = B!Expected THEN B!NoResponses
                                                                  ELSE New(old, res)]
         /\ Grow(old, res).rows =
              IF Cardinality(DOMAIN New(old, res)) = B!Expected
                THEN Append(old.rows, Row(old, res)) ELSE old.rows
<1> DEFINE new == New(old, res)
           card == Cardinality(DOMAIN new)
<1>1. /\ res.claim \in Claims /\ res.agent \in Agents
      /\ old.map \in [Claims -> FindingMap] /\ old.rows \in Seq(SynthesisReady)
      /\ \A c \in Claims : Cardinality(DOMAIN old.map[c]) < B!Expected
  BY DEF Memory, Waiting, Result
<1>2. /\ new \in FindingMap /\ card \in Nat
      /\ Cardinality(DOMAIN old.map[res.claim]) \in Nat
      /\ card <= Cardinality(DOMAIN old.map[res.claim]) + 1
  BY <1>1, PutFacts, StoredFacts DEF New
<1>3. Row(old, res) \in SynthesisReady
  BY <1>1, <1>2 DEF Row, SynthesisReady
<1>4. card <= B!Expected
  BY <1>1, <1>2, NoneFacts
<1> HIDE DEF new
<1>5. CASE card = B!Expected
  <2>1. Grow(old, res) = [map  |-> [old.map EXCEPT ![res.claim] = B!NoResponses],
                          rows |-> Append(old.rows, Row(old, res))]
    BY <1>5 DEF Grow, new
  <2>2. [old.map EXCEPT ![res.claim] = B!NoResponses] \in Waiting
    BY <1>1, NoneFacts DEF Waiting
  <2>3. Append(old.rows, Row(old, res)) \in Seq(SynthesisReady)
    BY <1>1, <1>3
  <2> QED
    BY <1>2, <1>3, <1>4, <1>5, <2>1, <2>2, <2>3 DEF Memory, new
<1>6. CASE card # B!Expected
  <2>1. Grow(old, res) = [map  |-> [old.map EXCEPT ![res.claim] = new],
                          rows |-> old.rows]
    BY <1>6 DEF Grow, new, Memory
  <2>2. [old.map EXCEPT ![res.claim] = new] \in Waiting
    <3>1. card < B!Expected
      BY <1>2, <1>4, <1>6, NoneFacts
    <3> QED
      BY <1>1, <1>2, <3>1 DEF Waiting
  <2> QED
    BY <1>1, <1>2, <1>3, <1>4, <1>6, <2>1, <2>2 DEF Memory, new
<1> QED
  BY <1>5, <1>6

(* Two replays of a log agree (by induction: at the least place where they *)
(* differ they agreed one step before).                                    *)
LEMMA ReplayUnique ==
  ASSUME NEW f, NEW g, NEW log, NEW n \in Nat, Replays(f, log, n), Replays(g, log, n)
  PROVE  \A i \in 0..n : f[i] = g[i]
<1> DEFINE Bad == {i \in Nat : i \in 0..n /\ f[i] # g[i]}
<1> SUFFICES ASSUME Bad # {} PROVE FALSE
  OBVIOUS
<1>1. PICK i \in Bad : \A j \in Bad : i <= j
  BY Least
<1>2. CASE i = 0
  BY <1>2 DEF Replays
<1>3. CASE i # 0
  <2>1. i \in 1..n /\ i - 1 \in 0..n
    BY <1>3
  <2>2. f[i] = Grow(f[i - 1], log[i]) /\ g[i] = Grow(g[i - 1], log[i])
    BY <2>1 DEF Replays
  <2>3. f[i - 1] = g[i - 1]
    BY <1>1, <2>1
  <2> QED
    BY <2>1, <2>2, <2>3
<1> QED
  BY <1>2, <1>3

(* Rows, a recursive function, gives the rows of any replay: the recursion *)
(* has the restriction of the replay as a solution, so its value is a      *)
(* solution, and solutions agree.                                          *)
LEMMA RowsAre ==
  ASSUME NEW p \in Partitions, NEW n \in Nat, NEW m \in 0..n, NEW f \in [0..n -> Memory],
         Replays(f, results[p], n)
  PROVE  Rows(p, m) = f[m].rows
<1> DEFINE after[i \in 0..m] ==
             IF i = 0 THEN [map |-> [c \in Claims |-> B!NoResponses], rows |-> <<>>]
             ELSE LET res == results[p][i]
                      old == after[i - 1]
                      new == B!Put(old.map[res.claim], res.agent, B!Stored(res))
                  IN  IF Cardinality(DOMAIN new) = B!Expected
                        THEN [map  |-> [old.map EXCEPT ![res.claim] = B!NoResponses],
                              rows |-> Append(old.rows,
                                              [claim |-> res.claim, results |-> new])]
                        ELSE [old EXCEPT !.map[res.claim] = new]
           Next1(x, i) ==
             LET res == results[p][i]
                      old == x[i - 1]
                      new == B!Put(old.map[res.claim], res.agent, B!Stored(res))
                  IN  IF Cardinality(DOMAIN new) = B!Expected
                        THEN [map  |-> [old.map EXCEPT ![res.claim] = B!NoResponses],
                              rows |-> Append(old.rows,
                                              [claim |-> res.claim, results |-> new])]
                        ELSE [old EXCEPT !.map[res.claim] = new]
           g == [i \in 0..m |-> f[i]]
<1>1. \A x, i : Next1(x, i) = Grow(x[i - 1], results[p][i])
  BY DEF Grow, New, Row
<1>2. g = [i \in 0..m |-> IF i = 0 THEN Start ELSE Grow(g[i - 1], results[p][i])]
  <2>1. ASSUME NEW i \in 0..m
        PROVE  f[i] = IF i = 0 THEN Start ELSE Grow(g[i - 1], results[p][i])
    <3>1. CASE i = 0
      BY <3>1 DEF Replays
    <3>2. CASE i # 0
      <4>1. i \in 1..n /\ i - 1 \in 0..m
        BY <3>2
      <4>2. g[i - 1] = f[i - 1]
        BY <4>1
      <4>3. f[i] = Grow(f[i - 1], results[p][i])
        BY <4>1 DEF Replays
      <4> QED
        BY <3>2, <4>2, <4>3
    <3> QED
      BY <3>1, <3>2
  <2> QED
    BY <2>1
<1> HIDE DEF g
<1>3. \E x : x = [i \in 0..m |-> IF i = 0 THEN Start ELSE Next1(x, i)]
  <2> HIDE DEF Next1
  <2>1. \E x : x = [i \in 0..m |-> IF i = 0 THEN Start ELSE Grow(x[i - 1], results[p][i])]
    BY <1>2
  <2> QED
    BY <1>1, <2>1
<1>4. after = [i \in 0..m |-> IF i = 0 THEN Start ELSE Next1(after, i)]
  BY <1>3 DEF Start
<1>5. Rows(p, m) = after[m].rows
  BY DEF Rows
<1> HIDE DEF after
<1>6. after = [i \in 0..m |-> IF i = 0 THEN Start ELSE Grow(after[i - 1], results[p][i])]
  <2> HIDE DEF Next1
  <2> QED
    BY <1>1, <1>4
<1>7. Replays(after, results[p], m)
  BY <1>6 DEF Replays
<1>8. Replays(f, results[p], m)
  BY DEF Replays
<1>9. after[m] = f[m]
  BY <1>7, <1>8, ReplayUnique
<1> QED
  BY <1>5, <1>9

(* Rows are only ever added (by induction on the later result).            *)
LEMMA ReplayGrows ==
  ASSUME NEW log \in Seq(Result), NEW f \in [0..Len(log) -> Memory],
         Replays(f, log, Len(log))
  PROVE  \A j \in 0..Len(log), i \in 0..Len(log) : i <= j =>
           /\ Len(f[i].rows) <= Len(f[j].rows)
           /\ \A k \in 1..Len(f[i].rows) : f[j].rows[k] = f[i].rows[k]
<1> DEFINE n == Len(log)
           P(j) == \A i \in 0..n : i <= j =>
                     /\ Len(f[i].rows) <= Len(f[j].rows)
                     /\ \A k \in 1..Len(f[i].rows) : f[j].rows[k] = f[i].rows[k]
           Bad == {j \in Nat : j <= n /\ ~P(j)}
<1>1. /\ n \in Nat
      /\ \A i \in 0..n : f[i] \in Memory
      /\ \A i \in 0..n : f[i].rows \in Seq(SynthesisReady) /\ Len(f[i].rows) \in Nat
  <2>1. n \in Nat
    BY LenProperties
  <2>2. \A i \in 0..n : f[i] \in Memory
    OBVIOUS
  <2>3. \A i \in 0..n : f[i].rows \in Seq(SynthesisReady)
    BY <2>2 DEF Memory
  <2> HIDE DEF n
  <2> QED
    BY <2>1, <2>2, <2>3, LenProperties
<1>2. P(0)
  <2> HIDE DEF n
  <2> QED
    BY <1>1
<1>3. ASSUME NEW j \in Nat, j + 1 <= n, P(j) PROVE P(j + 1)
  <2>1. f[j + 1] = Grow(f[j], log[j + 1]) /\ log[j + 1] \in Result /\ f[j] \in Memory
    <3>1. j + 1 \in 1..n /\ j \in 0..n
      BY <1>1, <1>3
    <3>2. log[j + 1] \in Result
      BY <3>1, ElementOfSeq
    <3>3. f[j + 1] = Grow(f[(j + 1) - 1], log[j + 1])
      BY <3>1 DEF Replays
    <3> HIDE DEF n
    <3> QED
      BY <1>1, <3>1, <3>2, <3>3
  <2>2. \/ f[j + 1].rows = f[j].rows
        \/ f[j + 1].rows = Append(f[j].rows, Row(f[j], log[j + 1]))
    BY <2>1, GrowFacts
  <2> HIDE DEF n
  <2>3. j \in 0..n /\ j + 1 \in 0..n
    BY <1>1, <1>3
  <2>4. /\ Len(f[j].rows) <= Len(f[j + 1].rows)
        /\ \A k \in 1..Len(f[j].rows) : f[j + 1].rows[k] = f[j].rows[k]
    <3>1. f[j].rows \in Seq(SynthesisReady) /\ Len(f[j].rows) \in Nat
      BY <1>1, <2>3
    <3>2. CASE f[j + 1].rows = f[j].rows
      BY <3>1, <3>2
    <3>3. CASE f[j + 1].rows = Append(f[j].rows, Row(f[j], log[j + 1]))
      <4>1. Row(f[j], log[j + 1]) \in SynthesisReady
        BY <2>1, GrowFacts
      <4>2. /\ Len(f[j + 1].rows) = Len(f[j].rows) + 1
            /\ \A k \in 1..Len(f[j].rows) : f[j + 1].rows[k] = f[j].rows[k]
        BY <3>1, <3>3, <4>1, AppendProperties
      <4> QED
        BY <3>1, <4>2
    <3> QED
      BY <2>2, <3>2, <3>3
  <2> SUFFICES ASSUME NEW i \in 0..n, i <= j + 1
               PROVE  /\ Len(f[i].rows) <= Len(f[j + 1].rows)
                      /\ \A k \in 1..Len(f[i].rows) : f[j + 1].rows[k] = f[i].rows[k]
    OBVIOUS
  <2>5. CASE i = j + 1
    BY <1>1, <2>3, <2>5
  <2>6. CASE i <= j
    <3>1. /\ Len(f[i].rows) <= Len(f[j].rows)
          /\ \A k \in 1..Len(f[i].rows) : f[j].rows[k] = f[i].rows[k]
      BY <1>3, <2>6
    <3>2. Len(f[i].rows) \in Nat /\ Len(f[j].rows) \in Nat /\ Len(f[j + 1].rows) \in Nat
      BY <1>1, <2>3
    <3>3. \A k \in 1..Len(f[i].rows) : k \in 1..Len(f[j].rows)
      BY <3>1, <3>2
    <3>4. Len(f[i].rows) <= Len(f[j + 1].rows)
      BY <2>4, <3>1, <3>2
    <3>5. ASSUME NEW k \in 1..Len(f[i].rows) PROVE f[j + 1].rows[k] = f[i].rows[k]
      <4>1. f[j].rows[k] = f[i].rows[k]
        BY <3>1
      <4>2. f[j + 1].rows[k] = f[j].rows[k]
        BY <2>4, <3>3
      <4> QED
        BY <4>1, <4>2
    <3> QED
      BY <3>4, <3>5
  <2> QED
    BY <1>1, <1>3, <2>5, <2>6
<1> HIDE DEF P
<1>4. Bad = {}
  <2> SUFFICES ASSUME Bad # {} PROVE FALSE
    OBVIOUS
  <2> HIDE DEF n
  <2>1. PICK j \in Bad : \A i \in Bad : j <= i
    BY Least
  <2>2. j # 0 /\ j \in Nat /\ j <= n
    BY <1>2
  <2>3. P(j - 1)
    BY <1>1, <2>1, <2>2
  <2>4. P((j - 1) + 1)
    BY <1>1, <1>3, <2>2, <2>3
  <2> QED
    BY <2>1, <2>2, <2>4
<1>5. \A j \in 0..n : P(j)
  <2> HIDE DEF n
  <2> QED
    BY <1>1, <1>4
<1> QED
  BY <1>5 DEF P

(* A stretch of a sequence is the same stretch of a longer one.            *)
LEMMA SamePart ==
  ASSUME NEW S, NEW s \in Seq(S), NEW t \in Seq(S), Len(s) <= Len(t),
         \A i \in 1..Len(s) : t[i] = s[i], NEW i \in Nat, NEW j \in 0..Len(s)
  PROVE  SubSeq(t, i + 1, j) = SubSeq(s, i + 1, j) /\ SubSeq(s, i + 1, j) \in Seq(S)
<1>1. Len(s) \in Nat /\ Len(t) \in Nat
  BY LenProperties
<1>2. \A k \in (i + 1)..j : k \in 1..Len(s) /\ s[k] \in S /\ t[k] \in S /\ t[k] = s[k]
  BY <1>1, ElementOfSeq
<1>3. /\ SubSeq(s, i + 1, j) \in Seq(S)
      /\ Len(SubSeq(s, i + 1, j)) = IF i + 1 <= j THEN j - (i + 1) + 1 ELSE 0
      /\ \A k \in 1..(j - (i + 1) + 1) : SubSeq(s, i + 1, j)[k] = s[(i + 1) + k - 1]
  BY <1>1, <1>2, SubSeqProperties
<1>4. /\ SubSeq(t, i + 1, j) \in Seq(S)
      /\ Len(SubSeq(t, i + 1, j)) = IF i + 1 <= j THEN j - (i + 1) + 1 ELSE 0
      /\ \A k \in 1..(j - (i + 1) + 1) : SubSeq(t, i + 1, j)[k] = t[(i + 1) + k - 1]
  BY <1>1, <1>2, SubSeqProperties
<1>5. ASSUME NEW k \in 1..Len(SubSeq(s, i + 1, j))
      PROVE  SubSeq(s, i + 1, j)[k] = SubSeq(t, i + 1, j)[k]
  <2>1. k \in 1..(j - (i + 1) + 1) /\ (i + 1) + k - 1 \in (i + 1)..j
    BY <1>1, <1>3
  <2> QED
    BY <1>2, <1>3, <1>4, <2>1
<1> QED
  BY <1>3, <1>4, <1>5, SeqEqual

(* A stretch up to the end, and one more element.                          *)
LEMMA LongerPart ==
  ASSUME NEW S, NEW s \in Seq(S), NEW x \in S, NEW k \in 0..Len(s)
  PROVE  SubSeq(Append(s, x), k + 1, Len(s) + 1) = Append(SubSeq(s, k + 1, Len(s)), x)
<1> DEFINE t == Append(s, x)
           n == Len(s)
<1>1. n \in Nat /\ t \in Seq(S) /\ Len(t) = n + 1 /\ t[n + 1] = x /\ \A i \in 1..n : t[i] = s[i]
  BY LenProperties, AppendProperties
<1> HIDE DEF t, n
<1>2. \A i \in (k + 1)..n : s[i] \in S
  <2>1. \A i \in 1..Len(s) : s[i] \in S
    BY ElementOfSeq
  <2> QED
    BY <1>1, <2>1 DEF n
<1>3. \A i \in (k + 1)..(n + 1) : t[i] \in S
  BY <1>1, <1>2
<1>4. k \in Nat /\ k <= n
  BY <1>1 DEF n
<1> DEFINE a == SubSeq(s, k + 1, n)
           b == SubSeq(t, k + 1, n + 1)
<1>5. a \in Seq(S) /\ Len(a) = n - k /\ \A i \in 1..(n - k) : a[i] = s[k + i]
  <2>1. /\ a \in Seq(S) /\ Len(a) = IF k + 1 <= n THEN n - (k + 1) + 1 ELSE 0
        /\ \A i \in 1..(n - (k + 1) + 1) : a[i] = s[(k + 1) + i - 1]
    BY <1>1, <1>2, <1>4, SubSeqProperties
  <2> HIDE DEF a
  <2> QED
    BY <1>1, <1>4, <2>1
<1>6. b \in Seq(S) /\ Len(b) = (n - k) + 1 /\ \A i \in 1..((n - k) + 1) : b[i] = t[k + i]
  <2>1. /\ b \in Seq(S) /\ Len(b) = IF k + 1 <= n + 1 THEN (n + 1) - (k + 1) + 1 ELSE 0
        /\ \A i \in 1..((n + 1) - (k + 1) + 1) : b[i] = t[(k + 1) + i - 1]
    BY <1>1, <1>3, <1>4, SubSeqProperties
  <2> HIDE DEF b
  <2> QED
    BY <1>1, <1>4, <2>1
<1> HIDE DEF a, b
<1>7. /\ Append(a, x) \in Seq(S) /\ Len(Append(a, x)) = (n - k) + 1
      /\ Append(a, x)[(n - k) + 1] = x
      /\ \A i \in 1..(n - k) : Append(a, x)[i] = a[i]
  BY <1>5, AppendProperties
<1>8. ASSUME NEW i \in 1..Len(b) PROVE b[i] = Append(a, x)[i]
  <2>1. CASE i = (n - k) + 1
    <3>1. b[i] = t[k + i] /\ k + i = n + 1
      BY <1>1, <1>4, <1>6, <2>1
    <3> QED
      BY <1>1, <1>7, <2>1, <3>1
  <2>2. CASE i \in 1..(n - k)
    <3>1. b[i] = t[k + i] /\ k + i \in 1..n
      BY <1>1, <1>4, <1>6, <2>2
    <3>2. a[i] = s[k + i]
      BY <1>5, <2>2
    <3> QED
      BY <1>1, <1>7, <2>2, <3>1, <3>2
  <2>3. i \in 1..((n - k) + 1)
    BY <1>6
  <2>4. i = (n - k) + 1 \/ i \in 1..(n - k)
    <3>1. n - k \in Nat
      BY <1>1, <1>4
    <3> HIDE DEF n
    <3> QED
      BY <2>3, <3>1
  <2> QED
    BY <2>1, <2>2, <2>4
<1>9. b = Append(a, x)
  BY <1>6, <1>7, <1>8, SeqEqual
<1> QED
  BY <1>9 DEF a, b, t, n

(* The table is a stretch of an undisturbed barrier's rows for all n       *)
(* results, left by an old job, followed by those for the first r results  *)
(* -- from the first of them on when the script has succeeded (ok), and    *)
(* with nothing in front between the drop and the new job (mid).           *)
Table(f, n, r, syn, ok, mid) ==
  \E i, j \in 0..Len(f[n].rows), k \in 0..Len(f[r].rows) :
    /\ syn = SubSeq(f[n].rows, i + 1, j) \o SubSeq(f[r].rows, k + 1, Len(f[r].rows))
    /\ ok => k = 0
    /\ mid => j = 0

(* The job waits for the same agents as an undisturbed barrier.            *)
Buffered(f, r, p, resp) ==
  \A c \in Claims : PartitionOf[c] = p => resp[c] = f[r].map[c]

(* The inductive invariant of a partition: its log has a replay, a job that*)
(* runs or will has its memory, and the table is made of its rows.                  *)
ReplayOf(p) ==
  \E f \in [0..Len(results[p]) -> Memory] :
    /\ Replays(f, results[p], Len(results[p]))
    /\ job \in {"pending", "running"} => Buffered(f, read[p], p, responses)
    /\ Table(f, Len(results[p]), read[p], synthesis[p], outcome = "ok", script.at >= 3)

(* The same of every partition.                                            *)
ReplayInv == \A p \in Partitions : ReplayOf(p)

(* What the types say of one partition.                                    *)
LEMMA BarrierBounds ==
  ASSUME BP!TypeInv, NEW p \in Partitions
  PROVE  /\ results[p] \in Seq(Result) /\ Len(results[p]) \in Nat
         /\ synthesis[p] \in Seq(SynthesisReady)
         /\ read[p] \in Nat /\ read[p] <= Len(results[p])
         /\ read[p] \in 0..Len(results[p])
         /\ \A i \in 1..Len(results[p]) : PartitionOf[results[p][i].claim] = p
<1>1. results[p] \in Seq(Result) /\ synthesis[p] \in Seq(SynthesisReady) /\ read[p] \in Nat
  BY SameType DEF BP!TypeInv
<1>2. read[p] <= Len(results[p])
  BY DEF BP!TypeInv, BP!ReadInBounds
<1>3. Len(results[p]) \in Nat
  BY <1>1, LenProperties
<1> QED
  BY <1>1, <1>2, <1>3 DEF BP!TypeInv, BP!ResultsPartitioned

(* The rows of a replay are rows.                                          *)
LEMMA ReplayRows ==
  ASSUME NEW n \in Nat, NEW f \in [0..n -> Memory], NEW r \in 0..n
  PROVE  f[r].rows \in Seq(SynthesisReady) /\ Len(f[r].rows) \in Nat /\ f[r].map \in Waiting
<1>1. f[r] \in Memory
  OBVIOUS
<1> QED
  BY <1>1, LenProperties DEF Memory

(* A step that leaves the topics and the job's state alone, and neither    *)
(* starts a job nor ends the script well.                                  *)
LEMMA ReplayStays ==
  ASSUME ReplayInv, UNCHANGED <<results, synthesis, responses, read>>,
         job' \in {"pending", "running"} => job \in {"pending", "running"},
         outcome' = "ok" => outcome = "ok",
         script'.at >= 3 => script.at >= 3
  PROVE  ReplayInv'
<1> SUFFICES ASSUME NEW p \in Partitions PROVE ReplayOf(p)'
  BY DEF ReplayInv
<1>1. PICK f \in [0..Len(results[p]) -> Memory] :
         /\ Replays(f, results[p], Len(results[p]))
         /\ job \in {"pending", "running"} => Buffered(f, read[p], p, responses)
         /\ Table(f, Len(results[p]), read[p], synthesis[p], outcome = "ok", script.at >= 3)
  BY DEF ReplayInv, ReplayOf
<1>2. Table(f, Len(results[p]), read[p], synthesis[p], outcome' = "ok", script'.at >= 3)
  BY <1>1 DEF Table
<1> QED
  BY <1>1, <1>2 DEF ReplayOf

(* At first the log, the table and the memory are empty.                   *)
LEMMA ReplayInit == Init => ReplayInv
<1> SUFFICES ASSUME Init, NEW p \in Partitions PROVE ReplayOf(p)
  BY DEF ReplayInv
<1>1. /\ results[p] = <<>> /\ synthesis[p] = <<>> /\ job = "none" /\ script.at = 0
      /\ read[p] = 0 /\ outcome = "none"
  BY DEF Init, B!Init
<1> DEFINE f == [i \in 0..0 |-> Start]
<1>2. f \in [0..0 -> Memory]
  BY StartType
<1>3. f[0] = Start /\ Start.rows = <<>>
  BY DEF Start
<1> HIDE DEF f
<1>4. Replays(f, results[p], 0)
  BY <1>3 DEF Replays
<1>5. Table(f, 0, 0, <<>>, FALSE, FALSE)
  <2>1. <<>> = SubSeq(f[0].rows, 0 + 1, 0) \o SubSeq(f[0].rows, 0 + 1, Len(f[0].rows))
    BY <1>3
  <2>2. 0 \in 0..Len(f[0].rows)
    BY <1>3
  <2> QED
    BY <2>1, <2>2 DEF Table
<1>6. Len(results[p]) = 0
  BY <1>1
<1>7. Table(f, Len(results[p]), read[p], synthesis[p], outcome = "ok", script.at >= 3)
  <2>1. (outcome = "ok") = FALSE /\ (script.at >= 3) = FALSE
    BY <1>1
  <2> QED
    BY <1>1, <1>5, <1>6, <2>1
<1>8. f \in [0..Len(results[p]) -> Memory] /\ Replays(f, results[p], Len(results[p]))
  BY <1>2, <1>4, <1>6
<1>9. job \notin {"pending", "running"}
  BY <1>1
<1> QED
  BY <1>7, <1>8, <1>9 DEF ReplayOf

(* Dropping the table: nothing is in front, and the old job, if it goes    *)
(* on, adds the rows from the ones it would emit next.                     *)
LEMMA ReplayDrop ==
  ASSUME ReplayInv, BP!TypeInv, synthesis' = [p \in Partitions |-> <<>>],
         UNCHANGED <<results, responses, read>>,
         job' \in {"pending", "running"} => job \in {"pending", "running"},
         outcome' # "ok"
  PROVE  ReplayInv'
<1> SUFFICES ASSUME NEW p \in Partitions PROVE ReplayOf(p)'
  BY DEF ReplayInv
<1>1. PICK f \in [0..Len(results[p]) -> Memory] :
         /\ Replays(f, results[p], Len(results[p]))
         /\ job \in {"pending", "running"} => Buffered(f, read[p], p, responses)
  BY DEF ReplayInv, ReplayOf
<1> DEFINE n == Len(results[p])
           r == read[p]
           l == Len(f[r].rows)
<1>2. n \in Nat /\ r \in 0..n /\ n \in 0..n
  BY BarrierBounds
<1>3. f[n].rows \in Seq(SynthesisReady) /\ f[r].rows \in Seq(SynthesisReady)
      /\ l \in Nat /\ Len(f[n].rows) \in Nat
  BY <1>2, ReplayRows
<1> HIDE DEF n, r, l
<1>4. <<>> = SubSeq(f[n].rows, 0 + 1, 0) \o SubSeq(f[r].rows, l + 1, l)
  <2>1. SubSeq(f[n].rows, 0 + 1, 0) = <<>>
    BY SubSeqEmpty
  <2>2. SubSeq(f[r].rows, l + 1, l) = <<>>
    BY <1>3, SubSeqEmpty
  <2>3. <<>> \o <<>> = <<>>
    BY ConcatEmptySeq, EmptySeq
  <2> QED
    BY <2>1, <2>2, <2>3
<1>5. Table(f, n, r, <<>>, FALSE, script'.at >= 3)
  <2>1. 0 \in 0..Len(f[n].rows) /\ l \in 0..l
    BY <1>3
  <2> QED
    BY <1>4, <2>1 DEF Table, l
<1>6. Table(f, n, r, synthesis'[p], outcome' = "ok", script'.at >= 3)
  BY <1>5
<1> QED
  BY <1>1, <1>6 DEF ReplayOf, n, r

(* The new job: what the old one has added since the drop is the stretch   *)
(* in front, and the rows of the new one start over.                       *)
LEMMA ReplayRestart ==
  ASSUME ReplayInv, BP!TypeInv, JobSubmitted, script.at >= 3, script'.at = 0
  PROVE  ReplayInv'
<1> SUFFICES ASSUME NEW p \in Partitions PROVE ReplayOf(p)'
  BY DEF ReplayInv
<1>1. PICK f \in [0..Len(results[p]) -> Memory] :
         /\ Replays(f, results[p], Len(results[p]))
         /\ Table(f, Len(results[p]), read[p], synthesis[p], outcome = "ok", script.at >= 3)
  BY DEF ReplayInv, ReplayOf
<1> DEFINE n == Len(results[p])
           r == read[p]
           l == Len(f[r].rows)
<1>2. n \in Nat /\ r \in 0..n /\ results[p] \in Seq(Result) /\ n \in 0..n /\ r <= n
  BY BarrierBounds
<1>3. /\ f[n].rows \in Seq(SynthesisReady) /\ f[r].rows \in Seq(SynthesisReady)
      /\ l \in Nat /\ Len(f[n].rows) \in Nat
  BY <1>2, ReplayRows
<1>4. /\ l <= Len(f[n].rows)
      /\ \A k \in 1..l : f[n].rows[k] = f[r].rows[k]
  BY <1>1, <1>2, ReplayGrows
<1>5. PICK i \in 0..Len(f[n].rows), k \in 0..l :
         synthesis[p] = SubSeq(f[n].rows, i + 1, 0) \o SubSeq(f[r].rows, k + 1, l)
  <2>1. PICK i, j \in 0..Len(f[n].rows), k \in 0..l :
           /\ synthesis[p] = SubSeq(f[n].rows, i + 1, j) \o SubSeq(f[r].rows, k + 1, l)
           /\ script.at >= 3 => j = 0
    BY <1>1 DEF Table
  <2>2. j = 0
    BY <2>1
  <2> QED
    BY <2>1, <2>2
<1>6. f[0] = Start /\ f[0].rows = <<>>
  BY <1>1 DEF Replays, Start
<1>7. UNCHANGED <<results, synthesis>> /\ read'[p] = 0
      /\ responses' = [c \in Claims |-> B!NoResponses]
  BY DEF JobSubmitted
<1> HIDE DEF n, r, l
<1>8. k \in Nat /\ l \in 0..l /\ l \in 0..Len(f[n].rows) /\ k \in 0..Len(f[n].rows) /\ i \in Nat
  BY <1>3, <1>4
<1>9. SubSeq(f[n].rows, k + 1, l) = SubSeq(f[r].rows, k + 1, l)
      /\ SubSeq(f[r].rows, k + 1, l) \in Seq(SynthesisReady)
  <2>1. l = Len(f[r].rows)
    BY DEF l
  <2> QED
    BY <1>3, <1>4, <1>8, <2>1, SamePart
<1>10. SubSeq(f[n].rows, i + 1, 0) = <<>>
  BY <1>8, SubSeqEmpty
<1>11. synthesis[p] = SubSeq(f[n].rows, k + 1, l)
  BY <1>5, <1>9, <1>10, ConcatEmptySeq
<1>12. SubSeq(f[0].rows, 0 + 1, Len(f[0].rows)) = <<>>
  BY <1>6
<1>13. synthesis[p] = SubSeq(f[n].rows, k + 1, l)
                        \o SubSeq(f[0].rows, 0 + 1, Len(f[0].rows))
  BY <1>9, <1>11, <1>12, ConcatEmptySeq
<1>14. Table(f, n, read'[p], synthesis'[p], outcome' = "ok", script'.at >= 3)
  <2>1. 0 \in 0..Len(f[0].rows)
    BY <1>6
  <2>2. /\ synthesis'[p] = SubSeq(f[n].rows, k + 1, l)
                             \o SubSeq(f[read'[p]].rows, 0 + 1, Len(f[read'[p]].rows))
        /\ 0 \in 0..Len(f[read'[p]].rows)
    BY <1>7, <1>13, <2>1
  <2>3. ~(script'.at >= 3)
    OBVIOUS
  <2> QED
    BY <1>8, <2>2, <2>3 DEF Table
<1>15. Buffered(f, 0, p, responses')
  BY <1>6, <1>7 DEF Buffered, Start
<1>16. Buffered(f, read'[p], p, responses')
  BY <1>7, <1>15
<1> QED
  BY <1>1, <1>7, <1>14, <1>16 DEF ReplayOf, n

(* A result is read: the job's memory and the undisturbed barrier's take   *)
(* the same step, and so do the table and its rows.                        *)
LEMMA ReplayEval ==
  ASSUME ReplayInv, BP!TypeInv, NEW q \in Partitions, Eval(q)
  PROVE  ReplayInv'
<1> DEFINE res == results[q][read[q] + 1]
           m == responses[res.claim]
           new == B!Put(m, res.agent, B!Stored(res))
           row == [claim |-> res.claim, results |-> new]
<1>1. /\ job = "running" /\ UNCHANGED <<script, outcome, job, results>>
      /\ read[q] < Len(results[q]) /\ read' = [read EXCEPT ![q] = @ + 1]
      /\ \/ /\ Cardinality(DOMAIN new) >= B!Expected
            /\ synthesis' = B!Published(synthesis, res.claim, row)
            /\ responses' = [responses EXCEPT ![res.claim] = B!NoResponses]
         \/ /\ ~(Cardinality(DOMAIN new) >= B!Expected)
            /\ responses' = [responses EXCEPT ![res.claim] = new]
            /\ UNCHANGED synthesis
  BY CardinalityIs DEF Eval, B!Eval, B!Complete, B!Cleared, scriptVars
<1>2. /\ read[q] \in Nat /\ read[q] + 1 \in 1..Len(results[q]) /\ results[q] \in Seq(Result)
      /\ Len(results[q]) \in Nat
      /\ PartitionOf[res.claim] = q /\ res \in Result /\ res.claim \in Claims
  <2>1. /\ read[q] \in Nat /\ read[q] + 1 \in 1..Len(results[q]) /\ results[q] \in Seq(Result)
        /\ Len(results[q]) \in Nat
    BY <1>1, BarrierBounds
  <2>2. PartitionOf[res.claim] = q /\ res \in Result
    BY <2>1, BarrierBounds, ElementOfSeq
  <2> QED
    BY <2>1, <2>2 DEF Result
<1>3. /\ responses \in [Claims -> FindingMap] /\ synthesis \in [Partitions -> Seq(SynthesisReady)]
      /\ read \in [Partitions -> Nat]
  BY SameType DEF BP!TypeInv
<1> HIDE DEF res, row
<1> SUFFICES ASSUME NEW p \in Partitions PROVE ReplayOf(p)'
  BY DEF ReplayInv
<1>4. PICK f \in [0..Len(results[p]) -> Memory] :
         /\ Replays(f, results[p], Len(results[p]))
         /\ Buffered(f, read[p], p, responses)
         /\ Table(f, Len(results[p]), read[p], synthesis[p], outcome = "ok", script.at >= 3)
  BY <1>1 DEF ReplayInv, ReplayOf
<1>5. CASE p # q
  <2>1. read'[p] = read[p]
    BY <1>1, <1>3, <1>5
  <2>2. synthesis'[p] = synthesis[p]
    BY <1>1, <1>2, <1>3, <1>5 DEF B!Published
  <2>3. \A c \in Claims : PartitionOf[c] = p => responses'[c] = responses[c]
    BY <1>1, <1>2, <1>3, <1>5
  <2>4. Buffered(f, read'[p], p, responses')
    BY <1>4, <2>1, <2>3 DEF Buffered
  <2> QED
    BY <1>1, <1>4, <2>1, <2>2, <2>4 DEF ReplayOf
<1>6. CASE p = q
  <2> DEFINE n == Len(results[p])
             r == read[p]
             old == f[r]
  <2>1. /\ n \in Nat /\ r \in 0..n /\ r + 1 \in 0..n /\ r + 1 \in 1..n /\ n \in 0..n
        /\ r \in Nat /\ r + 1 <= n
    BY <1>2, <1>6
  <2>2. old \in Memory /\ f[n] \in Memory /\ f[r + 1] \in Memory
    BY <2>1
  <2>3. f[r + 1] = Grow(old, res)
    <3>1. f[r + 1] = Grow(f[(r + 1) - 1], results[p][r + 1])
      BY <1>4, <2>1 DEF Replays
    <3>2. (r + 1) - 1 = r
      BY <2>1
    <3> QED
      BY <1>6, <3>1, <3>2 DEF res
  <2>4. m = old.map[res.claim]
    BY <1>2, <1>4, <1>6 DEF Buffered
  <2>5. new = New(old, res) /\ row = Row(old, res)
    BY <2>4 DEF New, Row, row
  <2>6. /\ Cardinality(DOMAIN new) \in Nat /\ Cardinality(DOMAIN new) <= B!Expected
        /\ row \in SynthesisReady
        /\ f[r + 1].map = [old.map EXCEPT ![res.claim] =
              IF Cardinality(DOMAIN new) = B!Expected THEN B!NoResponses ELSE new]
        /\ f[r + 1].rows = IF Cardinality(DOMAIN new) = B!Expected
                             THEN Append(old.rows, row) ELSE old.rows
    <3> HIDE DEF new, old
    <3>1. /\ Cardinality(DOMAIN New(old, res)) \in Nat
          /\ Cardinality(DOMAIN New(old, res)) <= B!Expected
          /\ Row(old, res) \in SynthesisReady
          /\ Grow(old, res).map = [old.map EXCEPT ![res.claim] =
                IF Cardinality(DOMAIN New(old, res)) = B!Expected
                  THEN B!NoResponses ELSE New(old, res)]
          /\ Grow(old, res).rows = IF Cardinality(DOMAIN New(old, res)) = B!Expected
                                     THEN Append(old.rows, Row(old, res)) ELSE old.rows
      BY <1>2, <2>2, GrowFacts
    <3> QED
      BY <2>3, <2>5, <3>1
  <2>7. /\ old.map \in [Claims -> FindingMap] /\ old.rows \in Seq(SynthesisReady)
        /\ Len(old.rows) \in Nat /\ f[n].rows \in Seq(SynthesisReady)
    BY <2>2, LenProperties DEF Memory, Waiting
  <2>8. PICK i, j \in 0..Len(f[n].rows), k \in 0..Len(old.rows) :
           /\ synthesis[p] = SubSeq(f[n].rows, i + 1, j) \o SubSeq(old.rows, k + 1, Len(old.rows))
           /\ outcome = "ok" => k = 0
           /\ script.at >= 3 => j = 0
    BY <1>4 DEF Table
  <2>9. read'[p] = r + 1
    BY <1>1, <1>3, <1>6
  <2> HIDE DEF new, n, old, m, r
  <2>10. CASE Cardinality(DOMAIN new) = B!Expected
    <3>1. /\ responses' = [responses EXCEPT ![res.claim] = B!NoResponses]
          /\ synthesis' = B!Published(synthesis, res.claim, row)
          /\ f[r + 1].map = [old.map EXCEPT ![res.claim] = B!NoResponses]
          /\ f[r + 1].rows = Append(old.rows, row)
      BY <1>1, <2>6, <2>10, NoneFacts
    <3>2. Buffered(f, r + 1, p, responses')
      BY <1>2, <1>3, <1>4, <2>7, <3>1 DEF Buffered, old, r
    <3>3. synthesis'[p] = Append(synthesis[p], row)
      BY <1>2, <1>3, <1>6, <3>1 DEF B!Published
    <3> DEFINE a == SubSeq(f[n].rows, i + 1, j)
               b == SubSeq(old.rows, k + 1, Len(old.rows))
    <3>4. a \in Seq(SynthesisReady) /\ b \in Seq(SynthesisReady)
      <4>1. i \in Nat /\ k \in Nat /\ Len(old.rows) \in 0..Len(old.rows)
        BY <2>7, <2>8, LenProperties
      <4>2. Len(f[n].rows) <= Len(f[n].rows) /\ Len(old.rows) <= Len(old.rows)
        BY <2>7, LenProperties
      <4> QED
        BY <2>7, <2>8, <4>1, <4>2, SamePart
    <3>5. Append(a \o b, row) = a \o Append(b, row)
      <4> HIDE DEF a, b
      <4>1. /\ a \o b \in Seq(SynthesisReady) /\ Append(b, row) \in Seq(SynthesisReady)
            /\ Append(a \o b, row) = (a \o b) \o <<row>> /\ Append(b, row) = b \o <<row>>
            /\ <<row>> \in Seq(SynthesisReady)
        <5>1. a \o b \in Seq(SynthesisReady)
          BY <3>4, ConcatProperties
        <5>2. row \in SynthesisReady
          BY <2>6
        <5> HIDE DEF row
        <5>3. Append(a \o b, row) = (a \o b) \o <<row>> /\ Append(b, row) = b \o <<row>>
          BY <3>4, <5>1, <5>2, AppendIsConcat
        <5>4. Append(b, row) \in Seq(SynthesisReady)
          BY <3>4, <5>2, AppendProperties
        <5>5. <<row>> \in Seq(SynthesisReady)
          BY <5>2
        <5> QED
          BY <5>1, <5>3, <5>4, <5>5
      <4> QED
        BY <3>4, <4>1, ConcatAssociative
    <3>6. SubSeq(Append(old.rows, row), k + 1, Len(old.rows) + 1) = Append(b, row)
      BY <2>6, <2>7, LongerPart
    <3>7. Len(f[r + 1].rows) = Len(old.rows) + 1
      BY <2>7, <3>1
    <3>8. synthesis'[p] = SubSeq(f[n].rows, i + 1, j)
                            \o SubSeq(f[r + 1].rows, k + 1, Len(f[r + 1].rows))
      BY <2>8, <3>1, <3>3, <3>5, <3>6, <3>7
    <3>9. k \in 0..Len(f[r + 1].rows)
      BY <2>7, <3>7
    <3>10. Table(f, n, r + 1, synthesis'[p], outcome = "ok", script.at >= 3)
      BY <2>8, <3>8, <3>9 DEF Table
    <3> QED
      BY <1>1, <1>4, <2>9, <3>2, <3>10 DEF ReplayOf, n
  <2>11. CASE Cardinality(DOMAIN new) # B!Expected
    <3>1. /\ responses' = [responses EXCEPT ![res.claim] = new]
          /\ synthesis' = synthesis
          /\ f[r + 1].map = [old.map EXCEPT ![res.claim] = new]
          /\ f[r + 1].rows = old.rows
      BY <1>1, <2>6, <2>11, NoneFacts
    <3>2. Buffered(f, r + 1, p, responses')
      BY <1>2, <1>3, <1>4, <2>7, <3>1 DEF Buffered, old, r
    <3>3. Table(f, n, r + 1, synthesis'[p], outcome = "ok", script.at >= 3)
      BY <2>8, <3>1 DEF Table
    <3> QED
      BY <1>1, <1>4, <2>9, <3>2, <3>3 DEF ReplayOf, n
  <2> QED
    BY <2>10, <2>11
<1> QED
  BY <1>5, <1>6

(* A report is one more result of one log.                                 *)
LEMMA EnvAppends ==
  ASSUME BP!TypeInv, B!Env, NEW p \in Partitions
  PROVE  \/ results'[p] = results[p]
         \/ \E res \in Result : results'[p] = Append(results[p], res)
<1>1. PICK c \in Claims, a \in Agents, n \in BP!Round :
           \E res \in BP!ReportsOf([claim |-> c, round |-> n], a) :
             results' = BP!Published(results, c, res)
  BY SameEnv DEF BP!Env
<1>2. PICK res \in BP!ReportsOf([claim |-> c, round |-> n], a) :
             results' = BP!Published(results, c, res)
  BY <1>1
<1>3. res \in Result
  <2>1. res \in BP!Result
    BY BP!ReportsType, BarrierFacts
  <2> QED
    BY <2>1 DEF BP!Result, Result, BP!Round, Round
<1>4. results \in [Partitions -> Seq(Result)]
  BY SameType DEF BP!TypeInv
<1> QED
  BY <1>2, <1>3, <1>4 DEF BP!Published

(* A replay of a log extends to a longer log.                              *)
LEMMA LongerReplay ==
  ASSUME NEW log \in Seq(Result), NEW res \in Result, NEW f \in [0..Len(log) -> Memory],
         Replays(f, log, Len(log))
  PROVE  \E g \in [0..(Len(log) + 1) -> Memory] :
           /\ Replays(g, Append(log, res), Len(log) + 1)
           /\ \A i \in 0..Len(log) : g[i] = f[i]
<1> DEFINE n == Len(log)
           longer == Append(log, res)
           g == [i \in 0..(n + 1) |-> IF i = n + 1 THEN Grow(f[n], res) ELSE f[i]]
<1>1. /\ n \in Nat /\ longer[n + 1] = res
      /\ \A i \in 1..n : longer[i] = log[i]
  BY LenProperties, AppendProperties
<1>2. \A i \in 1..n : f[i] = Grow(f[i - 1], log[i])
  BY DEF Replays
<1>3. f[0] = Start
  BY DEF Replays
<1> HIDE DEF n, longer
<1>4. f \in [0..n -> Memory]
  BY DEF n
<1>5. Grow(f[n], res) \in Memory
  <2>1. f[n] \in Memory
    BY <1>1, <1>4
  <2> QED
    BY <2>1, GrowFacts
<1>6. g \in [0..(n + 1) -> Memory]
  BY <1>1, <1>4, <1>5
<1>7. \A i \in 0..n : g[i] = f[i]
  BY <1>1
<1>8. g[n + 1] = Grow(f[n], res)
  BY <1>1
<1> HIDE DEF g
<1>9. ASSUME NEW i \in 1..(n + 1)
      PROVE  g[i] = Grow(g[i - 1], longer[i])
  <2>1. CASE i = n + 1
    <3>1. i - 1 = n /\ n \in 0..n
      BY <1>1, <2>1
    <3> QED
      BY <1>1, <1>7, <1>8, <2>1, <3>1
  <2>2. CASE i # n + 1
    <3>1. i \in 1..n /\ i \in 0..n /\ i - 1 \in 0..n
      BY <1>1, <2>2
    <3> QED
      BY <1>1, <1>2, <1>7, <3>1
  <2> QED
    BY <2>1, <2>2
<1>10. g[0] = Start
  BY <1>1, <1>3, <1>7
<1>11. Replays(g, longer, n + 1)
  BY <1>9, <1>10 DEF Replays
<1> QED
  BY <1>6, <1>7, <1>11 DEF n, longer

(* A report lengthens the replay and changes nothing of what it said.      *)
LEMMA ReplayEnv ==
  ASSUME ReplayInv, BP!TypeInv, B!Env, UNCHANGED scriptVars
  PROVE  ReplayInv'
<1> SUFFICES ASSUME NEW p \in Partitions PROVE ReplayOf(p)'
  BY DEF ReplayInv
<1>1. PICK f \in [0..Len(results[p]) -> Memory] :
         /\ Replays(f, results[p], Len(results[p]))
         /\ job \in {"pending", "running"} => Buffered(f, read[p], p, responses)
         /\ Table(f, Len(results[p]), read[p], synthesis[p], outcome = "ok", script.at >= 3)
  BY DEF ReplayInv, ReplayOf
<1>2. UNCHANGED <<synthesis, responses, read, job, outcome, script>>
  BY DEF B!Env, scriptVars
<1>3. CASE results'[p] = results[p]
  BY <1>1, <1>2, <1>3 DEF ReplayOf
<1>4. ASSUME NEW res \in Result, results'[p] = Append(results[p], res)
      PROVE  ReplayOf(p)'
  <2> DEFINE n == Len(results[p])
             r == read[p]
  <2>1. n \in Nat /\ r \in 0..n /\ results[p] \in Seq(Result) /\ n \in 0..n
    BY BarrierBounds
  <2>2. PICK g \in [0..(n + 1) -> Memory] :
           Replays(g, Append(results[p], res), n + 1) /\ \A i \in 0..n : g[i] = f[i]
    BY <1>1, <2>1, LongerReplay
  <2>3. Append(results[p], res) \in Seq(Result) /\ Len(Append(results[p], res)) = n + 1
    BY <2>1, AppendProperties
  <2>4. g[n] = f[n] /\ g[r] = f[r]
    BY <2>1, <2>2
  <2>5. PICK i, j \in 0..Len(f[n].rows), k \in 0..Len(f[r].rows) :
           /\ synthesis[p] = SubSeq(f[n].rows, i + 1, j)
                               \o SubSeq(f[r].rows, k + 1, Len(f[r].rows))
           /\ outcome = "ok" => k = 0
           /\ script.at >= 3 => j = 0
    BY <1>1 DEF Table
  <2> HIDE DEF n, r
  <2>6. n + 1 \in 0..(n + 1) /\ n \in 0..(n + 1) /\ n + 1 \in Nat /\ n <= n + 1
    BY <2>1
  <2>7. /\ Len(g[n].rows) <= Len(g[n + 1].rows)
        /\ \A x \in 1..Len(g[n].rows) : g[n + 1].rows[x] = g[n].rows[x]
    <3> DEFINE log == Append(results[p], res)
    <3>1. log \in Seq(Result) /\ Len(log) = n + 1 /\ Replays(g, log, n + 1)
      BY <2>2, <2>3
    <3> HIDE DEF log
    <3>2. g \in [0..Len(log) -> Memory] /\ Replays(g, log, Len(log))
      BY <3>1
    <3>3. \A y \in 0..Len(log), x \in 0..Len(log) : x <= y =>
            /\ Len(g[x].rows) <= Len(g[y].rows)
            /\ \A z \in 1..Len(g[x].rows) : g[y].rows[z] = g[x].rows[z]
      BY <3>1, <3>2, ReplayGrows
    <3> QED
      BY <2>6, <3>1, <3>3
  <2>8. /\ g[n].rows \in Seq(SynthesisReady) /\ g[n + 1].rows \in Seq(SynthesisReady)
        /\ Len(g[n].rows) \in Nat /\ Len(g[n + 1].rows) \in Nat
    BY <2>6, ReplayRows
  <2>9. i \in Nat /\ j \in 0..Len(g[n].rows) /\ i \in 0..Len(g[n + 1].rows)
        /\ j \in 0..Len(g[n + 1].rows)
    BY <2>4, <2>5, <2>7, <2>8
  <2>10. SubSeq(g[n + 1].rows, i + 1, j) = SubSeq(f[n].rows, i + 1, j)
    BY <2>4, <2>7, <2>8, <2>9, SamePart
  <2>11. Table(g, n + 1, r, synthesis[p], outcome = "ok", script.at >= 3)
    BY <2>4, <2>5, <2>9, <2>10 DEF Table
  <2>12. job \in {"pending", "running"} => Buffered(g, r, p, responses)
    BY <1>1, <2>4 DEF Buffered, r
  <2>13. /\ results'[p] = Append(results[p], res) /\ Len(results'[p]) = n + 1
         /\ read'[p] = r /\ synthesis'[p] = synthesis[p]
    BY <1>2, <1>4, <2>3 DEF r
  <2> QED
    BY <1>2, <2>2, <2>11, <2>12, <2>13 DEF ReplayOf
<1> QED
  BY <1>3, <1>4, EnvAppends

(* The effect of a statement: the drop, the new job, or nothing the table  *)
(* shows.  It is one step with the script's own move: what the table's     *)
(* shape depends on is where the script is then.                           *)
LEMMA ReplayEffect ==
  ASSUME ReplayInv, BP!TypeInv, Effect, script.at \in 1..6, outcome # "ok",
         script.at # 6 => outcome' # "ok",
         script.at = 6 => script'.at = 0,
         script.at # 2 /\ script'.at >= 3 => script.at >= 3
  PROVE  ReplayInv'
<1>1. /\ Name = "fs-synth-drop" <=> script.at = 2
      /\ Name = "fs-fn-drop" <=> script.at = 4
      /\ Name = "fs-barrier-ptf" <=> script.at = 6
  BY ScriptPlaces DEF Name
<1>2. CASE script.at = 2
  <2>1. /\ synthesis' = [p \in Partitions |-> <<>>]
        /\ UNCHANGED <<results, responses, read>>
        /\ job' \in {"pending", "running"} => job \in {"pending", "running"}
    BY <1>1, <1>2 DEF Effect, MayBreak
  <2> QED
    BY <1>2, <2>1, ReplayDrop
<1>3. CASE script.at = 6
  <2>1. JobSubmitted
    BY <1>1, <1>3 DEF Effect
  <2> QED
    BY <1>3, <2>1, ReplayRestart
<1>4. CASE script.at # 2 /\ script.at # 6
  <2>1. /\ UNCHANGED <<results, synthesis, responses, read>>
        /\ UNCHANGED job \/ MayBreak({"pending"})
    BY <1>1, <1>4 DEF Effect, barrierVars
  <2>2. job' \in {"pending", "running"} => job \in {"pending", "running"}
    BY <2>1 DEF MayBreak
  <2> QED
    BY <1>4, <2>1, <2>2, ReplayStays
<1> QED
  BY <1>2, <1>3, <1>4

(* Creating a statement has its effect, and moves on.                      *)
LEMMA ReplayCreate ==
  ASSUME ReplayInv, DeployTypes, DeployInv, Create
  PROVE  ReplayInv'
<1>1. /\ script.at \in 1..6 /\ BP!TypeInv /\ outcome # "ok" /\ Effect /\ Proceed
  BY DEF DeployTypes, DeployInv, Place, Create
<1>2. CASE script.at = 6
  <2>1. script'.at = 0
    BY <1>1, <1>2, StatementNames DEF Proceed, At
  <2> QED
    BY <1>1, <1>2, <2>1, ReplayEffect
<1>3. CASE script.at # 6
  <2>1. script'.at = script.at + 1 /\ outcome' = outcome
    BY <1>1, <1>3, StatementNames DEF Proceed, At
  <2>2. script.at # 2 /\ script'.at >= 3 => script.at >= 3
    BY <1>1, <1>3, <2>1
  <2> QED
    BY <1>1, <1>3, <2>1, <2>2, ReplayEffect
<1> QED
  BY <1>2, <1>3

(* Every step of the script, of the cloud and of the barrier.              *)
LEMMA ReplayNext == ReplayInv /\ DeployTypes /\ DeployInv /\ [Next]_vars => ReplayInv'
<1> SUFFICES ASSUME ReplayInv, DeployTypes, DeployInv, [Next]_vars PROVE ReplayInv'
  OBVIOUS
<1>1. BP!TypeInv /\ script \in Place /\ (script.at # 0 => outcome # "ok")
  BY DEF DeployTypes, DeployInv
<1>2. CASE Run
  BY <1>2, ReplayStays DEF Run, At, barrierVars
<1>3. CASE Delete
  <2>1. script'.at = script.at
    BY <1>1, <1>3 DEF Delete, Place
  <2> QED
    BY <1>3, <2>1, ReplayStays DEF Delete, barrierVars
<1>4. CASE Create
  BY <1>1, <1>4, ReplayCreate
<1>5. CASE Retry
  <2>1. script'.at = script.at
    BY <1>1, <1>5 DEF Retry, Place
  <2> QED
    BY <1>5, <2>1, ReplayStays DEF Retry, barrierVars
<1>6. CASE GiveUp
  <2>1. script.at \in 1..6 /\ outcome # "ok"
    BY <1>1, <1>6 DEF GiveUp, DeployInv, Place
  <2>2. /\ outcome' # "ok" /\ ~(script'.at >= 3)
        /\ script.at = 6 => script'.at = 0
    <3>1. CASE Name = "fs-alter-key"
      <4>1. script.at = 1
        BY <2>1, <3>1, ScriptPlaces DEF Name
      <4> QED
        BY <1>1, <1>6, <3>1, <4>1, StatementNames DEF GiveUp, Proceed, At
    <3>2. CASE Name # "fs-alter-key"
      BY <1>6, <3>2 DEF GiveUp, Abort, At
    <3> QED
      BY <3>1, <3>2
  <2>3. CASE Effect
    BY <1>1, <2>1, <2>2, <2>3, ReplayEffect
  <2>4. CASE UNCHANGED <<barrierVars, catalog, job>>
    BY <2>2, <2>4, ReplayStays DEF barrierVars
  <2> QED
    BY <1>6, <2>3, <2>4 DEF GiveUp
<1>7. CASE Interrupt
  BY <1>7, ReplayStays DEF Interrupt, Abort, At, barrierVars
<1>8. ASSUME NEW n \in Names, Gone(n)
      PROVE  ReplayInv'
  BY <1>8, ReplayStays DEF Gone, barrierVars
<1>9. CASE JobRuns \/ JobFails \/ EvalFails
  BY <1>9, ReplayStays DEF JobRuns, JobFails, EvalFails, barrierVars
<1>10. ASSUME NEW p \in Partitions, Eval(p)
      PROVE  ReplayInv'
  BY <1>1, <1>10, ReplayEval
<1>11. CASE Env
  BY <1>1, <1>11, ReplayEnv DEF Env
<1>12. CASE UNCHANGED vars
  BY <1>12, ReplayStays DEF vars, barrierVars, scriptVars
<1> QED
  BY <1>2, <1>3, <1>4, <1>5, <1>6, <1>7, <1>8, <1>9, <1>10, <1>11, <1>12 DEF Next, Script

(* Recreating the barrier changes no evidence and drops none: once the     *)
(* script has succeeded, each partition of the table holds the rows an     *)
(* undisturbed barrier emits for what the job has read, all of them and in *)
(* order, after a stretch of the same rows that an old job may have left.  *)
THEOREM TableReplayed == Spec => []TableIsReplay
<1>1. ASSUME ReplayInv, DeployTypes, outcome = "ok", NEW p \in Partitions
      PROVE  \E i, j \in 0..Len(Rows(p, Len(results[p]))) :
               synthesis[p] = SubSeq(Rows(p, Len(results[p])), i + 1, j) \o Rows(p, read[p])
  <2> DEFINE n == Len(results[p])
             r == read[p]
  <2>1. PICK f \in [0..n -> Memory] :
           /\ Replays(f, results[p], n)
           /\ Table(f, n, r, synthesis[p], outcome = "ok", script.at >= 3)
    BY <1>1 DEF ReplayInv, ReplayOf
  <2>2. n \in Nat /\ r \in 0..n /\ n \in 0..n
    BY <1>1, BarrierBounds DEF DeployTypes
  <2>3. Rows(p, n) = f[n].rows /\ Rows(p, r) = f[r].rows
    <3> HIDE DEF n, r
    <3> QED
      BY <2>1, <2>2, RowsAre
  <2>4. PICK i, j \in 0..Len(f[n].rows) :
           synthesis[p] = SubSeq(f[n].rows, i + 1, j)
                            \o SubSeq(f[r].rows, 0 + 1, Len(f[r].rows))
    BY <1>1, <2>1 DEF Table
  <2>5. SubSeq(f[r].rows, 0 + 1, Len(f[r].rows)) = f[r].rows
    <3>1. f[r].rows \in Seq(SynthesisReady)
      BY <2>1, <2>2, ReplayRows
    <3> HIDE DEF n, r
    <3> QED
      BY <3>1, SubSeqFull
  <2> QED
    BY <2>3, <2>4, <2>5
<1>2. ReplayInv /\ DeployTypes => TableIsReplay
  BY <1>1 DEF TableIsReplay
<1> QED
  BY <1>2, ReplayInit, ReplayNext, TypesInvariant, DeployInit, DeployNext, PTL DEF Spec

===============================================================================
