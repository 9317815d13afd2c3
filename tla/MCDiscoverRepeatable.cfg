SPECIFICATION FairSpec
CONSTANTS
  NumDims = 3
  Delays = {0, 1, 2, 3}
  DelayOptions = {0, 1, 2, 3}
  Candidates <- ThreeDimCandidates
  Failures <- OneFailure
  NoFailure = NoFailure
  NoReason = NoReason
  NoSignature = NoSignature
  Platforms <- MonotonePlatforms
  BaselineRuns = 1
  ConfirmationRuns = 2
  ReplayRuns = 1
  Budgeted = FALSE
  MaxSchedules = 0
  Options <- WorkingOptions
INVARIANTS
  PublishedScheduleIsMinimal
PROPERTIES
  ReproducibleFailureIsFound
