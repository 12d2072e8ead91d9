\* One run that asks two questions, two executors, two knowledge revisions, one rewind.
CONSTANTS
  Runs = {r1}
  Executors = {e1, e2}
  Transports = {"local"}
  Calls = {}
  WriteCalls = {}
  Answers = {a}
  Revisions = {k1, k2}
  Counters = {}
  Increments = {}
  Budget <- MCBudget
  NoRun = NoRun
  NoAnswer = NoAnswer
  NoPin = NoPin
  MaxRunning = 1
  LeaseSeconds = 1
  BudgetSeconds = 3
  MaxTime = 4
  MaxCreate = 1
  MaxEpoch = 1
  MaxClaims = 4
  MaxBodies = 0
  Script <- MCScript
SPECIFICATION ExecutionSpec
SYMMETRY Symmetry
CHECK_DEADLOCK FALSE
INVARIANTS
  ExecutionTypeOK
  OneRevision
  SuccessIsComplete
PROPERTIES
  ProgressKept
  AskedOnce
