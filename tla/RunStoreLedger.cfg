\* One run attached to Kafka, two executors, one read-only and one writing tool call, two epochs.
CONSTANTS
  Runs = {r1}
  Executors = {e1, e2}
  Transports = {"kafka"}
  Calls = {read, write}
  WriteCalls = {write}
  Answers = {}
  Revisions = {}
  Counters = {steps}
  Increments <- MCIncrements
  Budget <- MCBudget
  NoRun = NoRun
  NoAnswer = NoAnswer
  NoPin = NoPin
  MaxRunning = 1
  LeaseSeconds = 1
  BudgetSeconds = 3
  MaxTime = 2
  MaxCreate = 1
  MaxEpoch = 1
  MaxClaims = 2
  MaxBodies = 2
SPECIFICATION Spec
SYMMETRY Symmetry
CHECK_DEADLOCK FALSE
INVARIANTS
  WriteAtMostOnce
PROPERTIES
  DoneIsFinal
  BudgetKept
