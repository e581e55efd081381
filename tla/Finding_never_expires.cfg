SPECIFICATION WiredSpec
CONSTANTS
  None = None
  Trips = {t1}
  Runs = {r1, r2}
  Requests = {q1}
  Sweep = sweep
  Faults = {}
  PlanFrom = {"pending", "planning", "awaiting_approval"}
  PlansPerTrip = 1
PROPERTY AwaitingIsLeft
CHECK_DEADLOCK FALSE
