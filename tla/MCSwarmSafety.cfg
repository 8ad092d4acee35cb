SPECIFICATION Spec
CONSTANTS
  p1 = p1
  c1 = c1
  w1 = w1
  w2 = w2
  o1 = o1
  Claims = {c1}
  Agents = {"ClaimDataAgent", "PolicyDocAgent"}
  Partitions = {p1}
  PartitionOf <- MCShared
  Texts = {"answer"}
  RawTexts = {}
  BadKey = BadKey
  BadPayload = BadPayload
  Tombstone = Tombstone
  Unknown = Unknown
  MaxRounds = 2
  Workers = {w1, w2}
  AgentOf <- MCTwoAgents
  NoProcess = NoProcess
  NoMsg = NoMsg
  SchemaRegistry = TRUE
  MaxDisruptions = 1
  MaxStops = 0
  MaxFaults = 0
  ExpectedAgents = 2
  MaxExpiries = 0
  Orchestrators = {o1}
  MaxODisruptions = 0
  MaxOStops = 0
  MaxOFaults = 0
  MaxFailures = 0
INVARIANTS TypeOK RowsAreAccountedFor DecisionsAreBacked FreshUnlessDisturbed
CHECK_DEADLOCK FALSE
