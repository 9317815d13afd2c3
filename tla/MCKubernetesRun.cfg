SPECIFICATION FairSpec
CHECK_DEADLOCK FALSE
CONSTANTS
  Runs <- Two
  Workloads <- Two
  Targets <- MCTargets
  WorkloadKind <- Kind2
  Labelled <- Two
  Schedules <- MCSchedules
  Parallel = 1
INVARIANTS
  TypeOK
  VerdictIsOfItsOwnPods
  JudgedByItsOwnWorkloads
  VerdictFollowsItsCommands
PROPERTIES
  JudgedOnceDecided
