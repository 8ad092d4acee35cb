SPECIFICATION FairSpec
CONSTANTS
  c1 = c1
  c2 = c2
  p1 = p1
  o1 = o1
  o2 = o2
  Claims = {c1, c2}
  Agents = {"ClaimDataAgent"}
  Partitions = {p1}
  PartitionOf <- MCShared
  Texts = {"raw"}
  RawTexts = {"raw"}
  BadPayload = BadPayload
  Tombstone = Tombstone
  Unknown = Unknown
  MaxRounds = 1
  Processes = {o1, o2}
  Groups = {"flinkswarm-orchestrator"}
  GroupOf <- MCOneGroup
  NoProcess = NoProcess
  NoMsg = NoMsg
  Junk = {Tombstone}
  MaxRows = 2
  MaxDisruptions = 1
  MaxStops = 1
  MaxFaults = 1
  MaxTrouble = 3
  MaxFailures = 1
INVARIANTS TypeOK OneDecisionPerProcess OnlyCrashesRepeatRows CommittedRowsDecided ForgottenBounded DecisionsInRowOrder
PROPERTIES ImplementsRelay EveryRowSettled
CHECK_DEADLOCK FALSE
