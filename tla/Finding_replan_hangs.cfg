SPECIFICATION FairSpec
CONSTANTS
  None = None
  Trips = {t1}
  Runs = {r1, r2}
  Requests = {q1}
  Sweep = sweep
  Faults = {"graph"}
  PlanFrom = {"pending", "planning", "awaiting_approval", "completed", "failed", "cancelled"}
  PlansPerTrip = 2
PROPERTY ReplanEnds
CHECK_DEADLOCK FALSE
