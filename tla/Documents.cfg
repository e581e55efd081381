CONSTANTS
  Deleters = {d1, d2}
  MaxRetries = 3
  None = None
SPECIFICATION FairSpec
CHECK_DEADLOCK FALSE
INVARIANTS TypeOK EmbeddedIsSearchable DeletedIsGone InProgressIsWorkedOn
PROPERTY TaskEnds
