CONSTANTS
  Sockets = {s1, s2}
  Notices = {n1}
  Updates = {a1}
  Enabled = {"email", "push"}
  None = None
SPECIFICATION FairSpec
CHECK_DEADLOCK FALSE
INVARIANTS TypeOK RegistryIsCurrent BroadcastReachesAll DeliveryIsOnRecord
PROPERTIES GoneIsForgotten Recorded
