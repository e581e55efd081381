CONSTANTS
  Sockets = {s1, s2}
  Utterances = {u1}
  QueueSize = 2
  MinFrames = 1
  MaxChunks = 3
  None = None
SPECIFICATION FairSpec
CHECK_DEADLOCK FALSE
PROPERTIES UtterancesEnd AudioIsForwarded
