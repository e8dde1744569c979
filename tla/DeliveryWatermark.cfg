SPECIFICATION Spec
CONSTANTS
  older = older
  newer = newer
  Log = {older, newer}
  Dates <- TwoLogs
  MaxAttempts = 2
  Telegram = TRUE
  MaxJobs = 2
  MaxFaults = 0
INVARIANTS HighWaterMark
