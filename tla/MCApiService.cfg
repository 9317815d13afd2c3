SPECIFICATION FairSpec
CHECK_DEADLOCK FALSE
CONSTANTS
  r1 = r1
  Runs <- OneRun
  Outcomes <- MCOutcomes
  Faulty = TRUE
  Folders <- MCFolders
  MaxDrops = 3
INVARIANTS
  TypeOK
  WorkspaceOutlivesItsUse
  EndedSearchHoldsNoClone
  StreamsAreCurrent
  ReportsAreOfCompletedRuns
PROPERTIES
  OneTerminalPhase
  RunsEnd
  OutcomesAreShown
