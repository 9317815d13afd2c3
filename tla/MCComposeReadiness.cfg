SPECIFICATION Spec
CONSTANTS
  db = db
  api = api
  Delayed <- AnyDelayed
  Services <- TwoServices
  Held <- SomeHeld
  PortsMayClash = FALSE
INVARIANT
  ReadinessDelaysAreCleared
