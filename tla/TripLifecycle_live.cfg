SPECIFICATION FairSpec
CONSTANTS
  None = None
  Trips = {t1}
  Runs = {r1, r2}
  Requests = {q1, q2}
  Sweep = sweep
  Faults = {"graph", "restart"}
  PlanFrom = {"pending", "planning", "awaiting_approval"}
  PlansPerTrip = 2
PROPERTIES RunsEnd OverdueIsSettled RowsAreReleased
CHECK_DEADLOCK FALSE
