SPECIFICATION Spec
CONSTANTS
  Runs <- Two
  Workloads <- Two
  Manifests <- OneService
  Schedules <- NoDelay
  Spawns <- AnySpawn
  Parallel = 1
INVARIANTS
  SpawnFailureIsReported
