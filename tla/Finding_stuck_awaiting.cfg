SPECIFICATION FairSpec
CONSTANTS
  None = None
  Trips = {t1}
  Runs = {r1, r2}
  Requests = {q1}
  Sweep = sweep
  Faults = {"restart"}
  PlanFrom = {"pending", "planning", "awaiting_approval"}
  PlansPerTrip = 1
PROPERTY SweptIsLeft
CHECK_DEADLOCK FALSE
