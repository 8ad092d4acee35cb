SPECIFICATION FairSpec
CONSTANTS
  p1 = p1
  c1 = c1
  Claims = {c1}
  Agents = {"ClaimDataAgent", "PolicyDocAgent"}
  Partitions = {p1}
  PartitionOf <- MCShared
  Texts = {"answer"}
  RawTexts = {}
  BadPayload = BadPayload
  Tombstone = Tombstone
  Unknown = Unknown
  MaxRounds = 1
  ExpectedAgents = 2
  MaxResults = 3
  Attempts = 2
  MaxErrors = 2
  MaxRedeploys = 1
INVARIANTS TypeOK SucceededMeansSubmitted TableIsReplay
PROPERTY BarrierCatchesUp
CHECK_DEADLOCK FALSE
