SPECIFICATION Spec
CONSTANTS
  Callers = {c1, c2}
  ErrorThreshold = 2
  ErrorWindow = 3
  RecoveryInterval = 2
  MinCallGap = 1
  GroqRetries = 1
  GroqConfigured = TRUE
  None = None
INVARIANT OneProbe
