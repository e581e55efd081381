SPECIFICATION Spec
CONSTANTS
  None = None
  Trips = {t1}
  Runs = {r1, r2, r3}
  Requests = {q1, q2}
  Sweep = sweep
  Faults = {"graph", "db", "outage", "restart"}
  PlanFrom = {"pending", "planning", "awaiting_approval", "completed", "failed", "cancelled"}
  PlansPerTrip = 2
SYMMETRY Symmetry
INVARIANT AwaitingIsAnswerable
PROPERTY KeepsGate
CHECK_DEADLOCK FALSE
