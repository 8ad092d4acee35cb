SPECIFICATION FairSpec
CONSTANTS
  Tools = {"get_claim_from_cosmos"}
  Foreign = {"get_weather"}
  Ids = {a}
  NoId = NoId
  MaxToolIters = 2
  MaxCalls = 2
INVARIANTS TypeOK AskedWithEveryCallAnswered InventedIdsDiffer EveryCallIsReported RequestsBounded
PROPERTY Terminates
CHECK_DEADLOCK FALSE
