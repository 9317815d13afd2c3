SPECIFICATION Spec
CONSTANTS
  NumDims = 2
  Delays = {0, 1, 2}
  DelayOptions = {0, 1, 2}
  Candidates <- LargeCandidates
  Failures <- TwoFailures
  NoFailure = NoFailure
  NoReason = NoReason
  NoSignature = NoSignature
  Platforms <- FlakyPlatforms
  BaselineRuns = 1
  ConfirmationRuns = 2
  ReplayRuns = 1
  Budgeted = FALSE
  MaxSchedules = 0
  Options <- VerifiedOptions
INVARIANT
  ArtifactEvidenceIsOfTheRace
