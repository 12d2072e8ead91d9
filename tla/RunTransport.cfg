\* One run, one worker process that may die once, and one foreign message.
CONSTANTS
  Runs = {r1}
  Executors = {e1}
  Transports = {"local", "kafka"}
  Calls = {}
  WriteCalls = {}
  Answers = {}
  Revisions = {}
  Counters = {}
  Increments = {}
  Budget <- MCBudget
  NoRun = NoRun
  NoAnswer = NoAnswer
  NoPin = NoPin
  MaxRunning = 1
  LeaseSeconds = 1
  BudgetSeconds = 2
  MaxTime = 4
  MaxCreate = 1
  MaxEpoch = 0
  MaxClaims = 1
  MaxBodies = 0
  NoMessage = NoMessage
  Garbage = Garbage
  MaxGarbage = 1
  MaxDeaths = 1
SPECIFICATION FairTransport
CHECK_DEADLOCK FALSE
INVARIANTS
  MarkedIsPublished
  CommittedIsHandled
PROPERTIES
  ResultAnnounced
  OutboxDrains
  RunsSettle
