SPECIFICATION FairSpec
CONSTANTS
  Runs <- Two
  Workloads <- Two
  Manifests <- MCManifests
  Schedules <- MCSchedules
  Spawns <- AnySpawn
  Parallel = 1
INVARIANTS
  TypeOK
  NoProcessOutlivesItsRun
  CrashIsTheTargetsOwn
  VerdictHasItsResets
PROPERTIES
  HealthyWasSeenWhole
  RunsReturn
  AreIsolated
