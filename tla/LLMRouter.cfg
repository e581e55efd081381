SPECIFICATION FairSpec
CONSTANTS
  Callers = {c1, c2}
  ErrorThreshold = 3
  ErrorWindow = 3
  RecoveryInterval = 2
  MinCallGap = 1
  GroqRetries = 1
  GroqConfigured = TRUE
  None = None
INVARIANTS TypeOK CircuitCanRecover HalfOpenHasProbe
PROPERTIES GeminiRecovers CallsEnd
