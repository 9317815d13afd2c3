SPECIFICATION FairSpec
CONSTANTS
  NumDims = 2
  Delays = {0, 1, 2}
  DelayOptions = {0, 1, 2}
  Candidates <- LargeCandidates
  Failures <- TwoFailures
  NoFailure = NoFailure
  NoReason = NoReason
  NoSignature = NoSignature
  Platforms <- FlakyPlatforms
  BaselineRuns = 2
  ConfirmationRuns = 2
  ReplayRuns = 2
  Budgeted = FALSE
  MaxSchedules = 0
  Options <- VerifiedAnyhow
INVARIANTS
  TypeOK
  PublishedRaceIsSupported
  RunsAreBounded
PROPERTIES
  KeepsPromise
  EveryStepAdvances
  DiscoveryReturns
