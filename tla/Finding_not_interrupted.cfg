CONSTANTS
  Sockets = {s1}
  Utterances = {u1, u2}
  QueueSize = 1
  MinFrames = 1
  MaxChunks = 2
  None = None
SPECIFICATION Spec
CHECK_DEADLOCK FALSE
PROPERTY InterruptionIsHeeded
