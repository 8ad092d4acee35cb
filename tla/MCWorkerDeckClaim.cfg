SPECIFICATION Spec
CONSTANTS
  c1 = c1
  c2 = c2
  p1 = p1
  p2 = p2
  w1 = w1
  w2 = w2
  Claims = {c1}
  Agents = {"ClaimDataAgent"}
  Partitions = {p1}
  PartitionOf <- MCShared
  Texts = {"answer"}
  RawTexts = {}
  BadKey = BadKey
  BadPayload = BadPayload
  Tombstone = Tombstone
  Unknown = Unknown
  MaxRounds = 1
  MaxRecords = 1
  Processes = {w1}
  Groups = {"ClaimDataAgent"}
  GroupOf <- MCOneAgent
  NoProcess = NoProcess
  NoMsg = NoMsg
  SchemaRegistry = FALSE
  Junk = {}
  MaxDisruptions = 1
  MaxStops = 0
  MaxFaults = 1
  MaxTrouble = 2
PROPERTY NoWorkLostByCrash
CHECK_DEADLOCK FALSE
