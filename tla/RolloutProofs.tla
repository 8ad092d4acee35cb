------------------------------ MODULE RolloutProofs -----------------------------
(***************************************************************************)
(* Theorems about Rollout, for any number of replicas, changes and records,*)
(* and any settings, specs and versions of the package.                    *)
(***************************************************************************)
EXTENDS Rollout, TLAPS

(* A record as some settings encode it.                                    *)
Record == [framed : BOOLEAN, fields : DOMAIN ToolsOf]

(* Type correctness of what the procedure is about.                        *)
RolloutTypes ==
  /\ env \in [Processes -> Settings]
  /\ running \in [Readers -> Settings]
  /\ log \in Seq(Record)
  /\ read \in Nat

(* What is on the topic and not read yet, every replica can decode, with   *)
(* the settings it runs with or ran with last.                             *)
BacklogDecodes ==
  \A i \in 1..Len(log) : i > read =>
    \A r \in Readers : Decodes(log[i], running[r])

RolloutInv ==
  /\ RolloutTypes
  /\ careful => BacklogDecodes /\ skipped = {}

-------------------------------------------------------------------------------

(* Settings that follow others decode whatever those decode.               *)
LEMMA FollowsDecodes ==
  ASSUME NEW s \in Settings, NEW q \in Settings, NEW rec \in Record,
         Follows(s, q), Decodes(rec, s)
  PROVE  Decodes(rec, q)
  BY RolloutAssumption
  DEF RolloutAssumption, Follows, Decodes, Validates, Settings, Record

(* ... and whatever is written with those.                                 *)
LEMMA FollowsReads ==
  ASSUME NEW s \in Settings, NEW q \in Settings, Follows(s, q)
  PROVE  Encode(s) \in Record /\ Decodes(Encode(s), q)
  BY RolloutAssumption
  DEF RolloutAssumption, Follows, Decodes, Validates, Encode, Settings, Record

(* The swarm starts with one set of settings and an empty topic.           *)
LEMMA RolloutInit == Init => RolloutInv
  BY RolloutAssumption
  DEF RolloutAssumption, Init, RolloutInv, RolloutTypes, BacklogDecodes, Processes

(* Editing an environment reaches no process.                              *)
LEMMA ChangePreserves ==
  ASSUME RolloutInv, NEW p \in Processes, Change(p)
  PROVE  RolloutInv'
<1>1. PICK s \in Settings : env' = [env EXCEPT ![p] = s]
  BY DEF Change
<1>2. env' \in [Processes -> Settings]
  BY <1>1 DEF RolloutInv, RolloutTypes
<1> QED
  BY <1>2 DEF Change, RolloutInv, RolloutTypes, BacklogDecodes, Decodes, Validates

(* A careful restart reads on; one that fails changes no settings in use.  *)
LEMMA RestartPreserves ==
  ASSUME RolloutInv, NEW r \in Readers, Restart(r)
  PROVE  RolloutInv'
<1>1. env[r] \in Settings /\ running[r] \in Settings
  BY DEF RolloutInv, RolloutTypes, Processes
<1>2. UNCHANGED <<env, log, read, skipped>>
  BY DEF Restart
<1>3. CASE Starts(r, env[r])
  <2>1. /\ running' = [running EXCEPT ![r] = env[r]]
        /\ careful' = (careful /\ (Drained \/ Follows(running[r], env[r])))
    BY <1>3 DEF Restart
  <2>2. RolloutTypes'
    BY <1>1, <1>2, <2>1 DEF RolloutInv, RolloutTypes
  <2>3. ASSUME careful' PROVE BacklogDecodes' /\ skipped' = {}
    <3>1. careful /\ BacklogDecodes /\ skipped = {}
      BY <2>1, <2>3 DEF RolloutInv
    <3>2. CASE Drained
      BY <1>2, <3>1, <3>2 DEF Drained, BacklogDecodes, RolloutInv, RolloutTypes
    <3>3. CASE Follows(running[r], env[r])
      <4>1. SUFFICES ASSUME NEW i \in 1..Len(log), i > read, NEW q \in Readers
                     PROVE  Decodes(log[i], running'[q])
        BY <1>2, <3>1 DEF BacklogDecodes, Decodes, Validates
      <4>2. Decodes(log[i], running[q]) /\ Decodes(log[i], running[r])
        BY <3>1, <4>1 DEF BacklogDecodes
      <4>3. log[i] \in Record
        BY DEF RolloutInv, RolloutTypes
      <4>4. Decodes(log[i], env[r])
        BY <1>1, <3>3, <4>2, <4>3, FollowsDecodes
      <4>5. running'[q] = IF q = r THEN env[r] ELSE running[q]
        BY <2>1 DEF RolloutInv, RolloutTypes
      <4> QED
        BY <4>2, <4>4, <4>5
    <3> QED
      BY <2>1, <2>3, <3>2, <3>3
  <2> QED
    BY <2>2, <2>3 DEF RolloutInv
<1>4. CASE ~Starts(r, env[r])
  BY <1>2, <1>4
  DEF Restart, RolloutInv, RolloutTypes, BacklogDecodes, Decodes, Validates
<1> QED
  BY <1>3, <1>4

(* A careful dispatch appends what every replica can decode.               *)
LEMMA DispatchPreserves ==
  ASSUME RolloutInv, Dispatch
  PROVE  RolloutInv'
<1> DEFINE rec == Encode(env[Writer])
<1>1. env[Writer] \in Settings
  BY DEF RolloutInv, RolloutTypes, Processes
<1>2. rec \in Record
  BY <1>1 DEF Encode, Settings, Record
<1>3. /\ log' = Append(log, rec)
      /\ careful' = (careful /\ \A r \in Readers : Follows(env[Writer], running[r]))
      /\ UNCHANGED <<env, running, read, skipped>>
  BY DEF Dispatch
<1>4. RolloutTypes'
  BY <1>2, <1>3 DEF RolloutInv, RolloutTypes
<1>5. ASSUME careful' PROVE BacklogDecodes' /\ skipped' = {}
  <2>1. careful /\ BacklogDecodes /\ skipped = {}
    BY <1>3, <1>5 DEF RolloutInv
  <2>2. SUFFICES ASSUME NEW i \in 1..Len(log'), i > read, NEW r \in Readers
                 PROVE  Decodes(log'[i], running[r])
    BY <1>3, <2>1 DEF BacklogDecodes, Decodes, Validates
  <2>3. Decodes(rec, running[r])
    BY <1>1, <1>3, <1>5, FollowsReads DEF RolloutInv, RolloutTypes
  <2>4. log \in Seq(Record)
    BY DEF RolloutInv, RolloutTypes
  <2>5. CASE i = Len(log) + 1
    BY <1>3, <2>3, <2>4, <2>5
  <2>6. CASE i # Len(log) + 1
    <3>1. i \in 1..Len(log) /\ log'[i] = log[i]
      BY <1>2, <1>3, <2>4, <2>6
    <3> QED
      BY <2>1, <2>2, <3>1 DEF BacklogDecodes
  <2> QED
    BY <2>5, <2>6
<1> QED
  BY <1>4, <1>5 DEF RolloutInv

(* The next record, read or skipped, is one the replica can decode.        *)
LEMMA ReceivePreserves ==
  ASSUME RolloutInv, NEW r \in Readers, Receive(r), read <= Len(log)
  PROVE  RolloutInv' /\ read' <= Len(log)'
<1>1. read \in Nat /\ log \in Seq(Record) /\ read + 1 \in 1..Len(log)
  BY DEF Receive, Drained, RolloutInv, RolloutTypes
<1>2. /\ read' = read + 1
      /\ UNCHANGED <<env, running, log, careful>>
      /\ skipped' = IF Decodes(log[read + 1], running[r]) THEN skipped
                                                         ELSE skipped \cup {read + 1}
  BY DEF Receive
<1>3. RolloutTypes'
  BY <1>1, <1>2 DEF RolloutInv, RolloutTypes
<1>4. ASSUME careful' PROVE BacklogDecodes' /\ skipped' = {}
  <2>1. BacklogDecodes /\ skipped = {}
    BY <1>2, <1>4 DEF RolloutInv
  <2>2. Decodes(log[read + 1], running[r])
    BY <1>1, <2>1 DEF BacklogDecodes
  <2>3. BacklogDecodes'
    BY <1>1, <1>2, <2>1 DEF BacklogDecodes, Decodes, Validates
  <2> QED
    BY <1>2, <2>1, <2>2, <2>3
<1> QED
  BY <1>1, <1>2, <1>3, <1>4 DEF RolloutInv

-------------------------------------------------------------------------------

(* The readers' group never commits past the end of the topic.             *)
ReadInLog == read <= Len(log)

(* By the procedure -- readers first, then the writer, the registry only on*)
(* an empty topic -- a change of settings or of the package reaches a      *)
(* running swarm without a record being skipped, for any number of         *)
(* replicas, of changes and of records.                                    *)
THEOREM CarefulRollout == Spec => []CarefulRolloutLosesNothing
<1>1. Init => RolloutInv /\ ReadInLog
  BY RolloutInit DEF Init, ReadInLog
<1>2. RolloutInv /\ ReadInLog /\ [Next]_vars => RolloutInv' /\ ReadInLog'
  <2> SUFFICES ASSUME RolloutInv, ReadInLog, [Next]_vars
               PROVE  RolloutInv' /\ ReadInLog'
    OBVIOUS
  <2>1. ASSUME NEW p \in Processes, Change(p) PROVE RolloutInv' /\ ReadInLog'
    BY <2>1, ChangePreserves DEF Change, ReadInLog
  <2>2. ASSUME NEW r \in Readers, Restart(r) PROVE RolloutInv' /\ ReadInLog'
    BY <2>2, RestartPreserves DEF Restart, ReadInLog
  <2>3. ASSUME NEW r \in Readers, Receive(r) PROVE RolloutInv' /\ ReadInLog'
    BY <2>3, ReceivePreserves DEF ReadInLog
  <2>4. CASE Dispatch
    <3>1. RolloutInv'
      BY <2>4, DispatchPreserves
    <3>2. log \in Seq(Record) /\ read \in Nat /\ log' \in Seq(Record)
      BY <3>1 DEF RolloutInv, RolloutTypes
    <3>3. read' = read /\ log' = Append(log, Encode(env[Writer]))
      BY <2>4 DEF Dispatch
    <3> QED
      BY <3>1, <3>2, <3>3 DEF ReadInLog
  <2>5. CASE UNCHANGED vars
    BY <2>5 DEF vars, RolloutInv, RolloutTypes, BacklogDecodes, Decodes, Validates,
                ReadInLog
  <2> QED
    BY <2>1, <2>2, <2>3, <2>4, <2>5 DEF Next
<1>3. RolloutInv => CarefulRolloutLosesNothing
  BY DEF RolloutInv, CarefulRolloutLosesNothing
<1> QED
  BY <1>1, <1>2, <1>3, PTL DEF Spec

===============================================================================
