\* One run that asks two questions, two executors, two possible answers.
CONSTANTS
  Runs = {r1}
  Executors = {e1, e2}
  Transports = {"local"}
  Calls = {}
  WriteCalls = {}
  Answers = {a1, a2}
  Revisions = {k}
  Counters = {}
  Increments = {}
  Budget <- MCBudget
  NoRun = NoRun
  NoAnswer = NoAnswer
  NoPin = NoPin
  MaxRunning = 1
  LeaseSeconds = 1
  BudgetSeconds = 2
  MaxTime = 3
  MaxCreate = 1
  MaxEpoch = 0
  MaxClaims = 3
  MaxBodies = 0
  Script <- MCScript
SPECIFICATION ExecutionSpec
CHECK_DEADLOCK FALSE
INVARIANTS
  AnswersBelong
