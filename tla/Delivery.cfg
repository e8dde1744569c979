SPECIFICATION FairSpec
CONSTANTS
  older = older
  newer = newer
  Log = {older, newer}
  Dates <- TwoLogs
  MaxAttempts = 2
  Telegram = TRUE
  MaxJobs = 2
  MaxFaults = 1
INVARIANTS TypeOK SuccessIsComplete NoRepeatedSend AttemptBudget
           TelegramInOrder WatermarkDelivered
PROPERTIES SettledIsFinal MarkLostByOverlap Settles
