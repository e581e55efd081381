SPECIFICATION Spec
CONSTANTS
  ErrorThreshold = 2
  ErrorWindow = 1
  RecoveryInterval = 1
  MinCallGap = 0
  GroqRetries = 0
  GroqConfigured = TRUE
  None = None
  Options = {plain, dear}
  Dear = {dear}
  MaxBudgetRetries = 2
INVARIANT SavesWhatWasApproved
