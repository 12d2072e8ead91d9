\* Two runs compete for the only executor and the only slot, under fairness.
CONSTANTS
  Runs = {r1, r2}
  Executors = {e1}
  Transports = {"local"}
  Calls = {}
  WriteCalls = {}
  Answers = {a}
  Revisions = {}
  Counters = {}
  Increments = {}
  Budget <- MCBudget
  NoRun = NoRun
  NoAnswer = NoAnswer
  NoPin = NoPin
  MaxRunning = 1
  LeaseSeconds = 1
  BudgetSeconds = 2
  MaxTime = 4
  MaxCreate = 1
  MaxEpoch = 0
  MaxClaims = 2
  MaxBodies = 0
SPECIFICATION FairSpec
CHECK_DEADLOCK FALSE
PROPERTIES
  EventuallySettled
