CONSTANTS
  Drafts <- MCDrafts
  Alphabet <- MCAlphabet
  Observable <- MCDoublePay
  Mentions <- MCNoMention
  NoTask = NoTask
  MaxDepth = 4
  MaxParallel = 2
  Threshold = 1
  MaxTries = 2
  NodeSteps = 18
  Rewordings <- MCNoKeyword
SPECIFICATION Spec
CHECK_DEADLOCK FALSE
INVARIANTS
  RulesAddOnce
