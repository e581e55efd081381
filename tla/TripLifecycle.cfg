SPECIFICATION Spec
CONSTANTS
  None = None
  Trips = {t1}
  Runs = {r1, r2, r3}
  Requests = {q1, q2}
  Sweep = sweep
  Faults = {"graph"}
  PlanFrom = {"pending", "planning", "awaiting_approval", "completed", "failed", "cancelled"}
  PlansPerTrip = 2
SYMMETRY Symmetry
INVARIANTS TypeOK PlanningHasRunner CompletedIsAnswered
CHECK_DEADLOCK FALSE
