SPECIFICATION Spec
CHECK_DEADLOCK FALSE
CONSTANTS
  r1 = r1
  Runs <- OneRun
  Outcomes <- OnlyNoFailure
  Faulty = FALSE
  Folders <- MCFolders
  MaxDrops = 3
INVARIANTS
  ComposeUploadsAreJudged
