SPECIFICATION Spec
CONSTANTS
  c1 = c1
  c2 = c2
  p1 = p1
  o1 = o1
  o2 = o2
  Claims = {c1, c2}
  Agents = {"ClaimDataAgent"}
  Partitions = {p1}
  PartitionOf <- MCShared
  Texts = {"answer", "raw"}
  RawTexts = {"raw"}
  BadPayload = BadPayload
  Tombstone = Tombstone
  Unknown = Unknown
  MaxRounds = 1
  Processes = {o1}
  Groups = {"flinkswarm-orchestrator"}
  GroupOf <- MCOneGroup
  NoProcess = NoProcess
  NoMsg = NoMsg
  Junk = {}
  MaxRows = 2
  MaxDisruptions = 0
  MaxStops = 0
  MaxFaults = 0
  MaxTrouble = 2
  MaxFailures = 0
INVARIANT EveryClaimDecided
CHECK_DEADLOCK FALSE
