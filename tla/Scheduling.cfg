SPECIFICATION FairSpec
CONSTANTS
  Run <- FourRuns
  Steps = {1, 2}
  Overdue = 1
  MaxJobs = 2
  MaxExtra = 1
  MaxInterrupts = 1
INVARIANTS TypeOK ChainsAccounted RowMatchesQueue
PROPERTIES KeepsPolling GoesQuiet
