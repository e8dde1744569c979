SPECIFICATION FairSpec
CONSTANTS
  one = one
  two = two
  Job = {one, two}
  NoJob = NoJob
  Key = {"seed", "new"}
  Seed = "seed"
  Cooldown = 2
  MaxRetries = 1
  RetryAfters = {}
  FetchTime = 1
  SniffTime = 1
  BrowserTime = 1
  RequestTimeout = 1
  Headroom = 4
  MaxInterrupts = 1
INVARIANTS TypeOK FirstRequestInTime
PROPERTIES SniffsSpaced SelfHeals
