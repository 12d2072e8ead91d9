\* Two runs compete for one slot; two executors overtake each other.
CONSTANTS
  Runs = {r1, r2}
  Executors = {e1, e2}
  Transports = {"local"}
  Calls = {}
  WriteCalls = {}
  Answers = {}
  Revisions = {}
  Counters = {}
  Increments = {}
  Budget <- MCBudget
  NoRun = NoRun
  NoAnswer = NoAnswer
  NoPin = NoPin
  MaxRunning = 1
  LeaseSeconds = 1
  BudgetSeconds = 2
  MaxTime = 3
  MaxCreate = 1
  MaxEpoch = 1
  MaxClaims = 3
  MaxBodies = 0
SPECIFICATION Spec
SYMMETRY Symmetry
CHECK_DEADLOCK FALSE
INVARIANTS
  TypeOK
  RunningLimit
  SoleOwner
PROPERTIES
  NewestOwnerWins
  SettledStays
  ImplementsAuthority
