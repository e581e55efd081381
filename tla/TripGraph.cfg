SPECIFICATION FairSpec
CONSTANTS
  ErrorThreshold = 2
  ErrorWindow = 1
  RecoveryInterval = 1
  MinCallGap = 0
  GroqRetries = 0
  GroqConfigured = TRUE
  None = None
  Options = {dear}
  Dear = {dear}
  MaxBudgetRetries = 2
INVARIANTS TypeOK NodesRunOnce BudgetSettles OnlySearchesAreCutOff
PROPERTY KeepsContract
