SPECIFICATION Spec
CONSTANTS
  NumDims = 3
  Delays = {0, 1}
  DelayOptions <- ListedDelays
  Candidates <- AdaptivePlan
  Failures <- UnsignedFailures
  NoFailure = NoFailure
  NoReason = NoReason
  NoSignature = NoSignature
  Platforms <- MixedPlatforms
  BaselineRuns = 2
  ConfirmationRuns = 2
  ReplayRuns = 1
  Budgeted = TRUE
  MaxSchedules = 12
  Options <- AllOptions
INVARIANTS
  NoFailureIsExhaustive
  ConclusiveScopeIsReported
  NoFailureCoversTheGrid
  FailureIsFound
