CONSTANTS
  Plans <- MCPlans
  RuleTasks <- MCRuleTasks
  NoDocs = NoDocs
  MaxRetries = 0
  Wormhole = 1
  MaxDepth = 0
  MaxNew = 1
  MaxQueue = 2
  MaxCrashes = 1
SPECIFICATION FairSpec
CHECK_DEADLOCK FALSE
INVARIANTS
  PipelineTypeOK
  BatonKept
  StrictHandover
PROPERTIES
  SessionEnds
