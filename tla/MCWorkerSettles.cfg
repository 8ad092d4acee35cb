SPECIFICATION FairSpec
CONSTANTS
  c1 = c1
  c2 = c2
  p1 = p1
  p2 = p2
  w1 = w1
  w2 = w2
  Claims = {c1, c2}
  Agents = {"ClaimDataAgent"}
  Partitions = {p1, p2}
  PartitionOf <- MCSplit
  Texts = {"answer"}
  RawTexts = {}
  BadKey = BadKey
  BadPayload = BadPayload
  Tombstone = Tombstone
  Unknown = Unknown
  MaxRounds = 2
  MaxRecords = 2
  Processes = {w1, w2}
  Groups = {"ClaimDataAgent"}
  GroupOf <- MCOneAgent
  NoProcess = NoProcess
  NoMsg = NoMsg
  SchemaRegistry = TRUE
  Junk = {BadKey, BadPayload, Tombstone}
  MaxDisruptions = 1
  MaxStops = 1
  MaxFaults = 1
  MaxTrouble = 2
INVARIANTS TypeOK NoLostWork DuplicatesNeedDisruption
PROPERTIES ImplementsRelay EveryTaskSettled
CHECK_DEADLOCK FALSE
