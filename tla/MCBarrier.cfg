SPECIFICATION FairSpec
CONSTANTS
  c1 = c1
  p1 = p1
  Claims = {c1}
  Agents = {"ClaimDataAgent", "PolicyDocAgent", "FraudAgent"}
  Partitions = {p1}
  PartitionOf <- MCShared
  Texts = {"answer"}
  RawTexts = {}
  BadPayload = BadPayload
  Tombstone = Tombstone
  Unknown = Unknown
  MaxRounds = 2
  ExpectedAgents = 2
  MaxExpiries = 1
  MaxResults = 4
INVARIANTS TypeOK RowsAreComplete FindingsAreReported LatestReportWins NoResultCountedTwice
PROPERTY BarrierOpens
CHECK_DEADLOCK FALSE
