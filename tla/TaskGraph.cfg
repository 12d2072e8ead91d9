CONSTANTS
  Drafts <- MCDrafts
  Alphabet <- MCAlphabet
  Observable <- MCObservable
  Mentions <- MCMentions
  NoTask = NoTask
  MaxDepth = 4
  MaxParallel = 2
  Threshold = 1
  MaxTries = 2
  NodeSteps = 16
  Rewordings <- MCRewordings
SPECIFICATION FairSpec
CHECK_DEADLOCK FALSE
INVARIANTS
  GraphTypeOK
  PlanStaysSound
  SolvedOnce
  AnswersFollowDependencies
  SuccessIsWhole
PROPERTIES
  RunEnds
