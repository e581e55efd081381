SPECIFICATION Spec
CONSTANTS
  Callers = {c1}
  ErrorThreshold = 3
  ErrorWindow = 3
  RecoveryInterval = 2
  MinCallGap = 1
  GroqRetries = 1
  GroqConfigured = TRUE
  None = None
PROPERTY OpensAfterThreshold
