SPECIFICATION Spec
CONSTANTS
  k1 = k1
  k2 = k2
  w1 = w1
  w2 = w2
  NoKey = NoKey
  NoWorker = NoWorker
  Key <- OneKey
  Worker <- TwoWorkers
  MaxJobs = 2
  Batch = 2
  LeaseTimeout = 2
  DuplicateWindow = 3
  RetryBase = 1
  RetryCap = 3
  MaxAttempts = 2
  Stagger <- AtOnce
  Gated <- OneKey
  Disabled <- NoKeys
  Concurrency = 1
  AcceptedReports <- Honest
  MayOverrun = TRUE
  MaxFaults = 0
INVARIANT
  AtMostOnce
