SPECIFICATION Spec
CONSTANTS
  None = None
  Trips = {t1}
  Runs = {r1, r2, r3}
  Requests = {q1, q2}
  Sweep = sweep
  Faults = {}
  PlanFrom = {"pending", "planning", "awaiting_approval"}
  PlansPerTrip = 1
INVARIANT RejectStopsPipeline
CHECK_DEADLOCK FALSE
