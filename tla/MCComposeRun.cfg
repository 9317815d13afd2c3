SPECIFICATION FairSpec
CONSTANTS
  db = db
  api = api
  Delayed <- AnyDelayed
  Services <- TwoServices
  Held <- SomeHeld
  PortsMayClash = TRUE
INVARIANTS
  TypeOK
  EvidenceIsOfTheSchedule
  AttemptIsOver
  TimeoutIsDiagnosed
PROPERTIES
  NoStartOnceCancelled
  ConflictIsDiagnosed
  RunReturns
  IsIsolated
