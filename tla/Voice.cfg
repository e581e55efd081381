CONSTANTS
  Sockets = {s1, s2}
  Utterances = {u1, u2}
  QueueSize = 2
  MinFrames = 1
  MaxChunks = 2
  None = None
SPECIFICATION Spec
CHECK_DEADLOCK FALSE
INVARIANTS TypeOK RespondingIsStreaming HeardInOrder
PROPERTIES InterruptionSilences
