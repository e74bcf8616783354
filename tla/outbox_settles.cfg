SPECIFICATION FairSpec
CONSTANTS
  k1 = k1
  k2 = k2
  w1 = w1
  w2 = w2
  NoKey = NoKey
  NoWorker = NoWorker
  Key <- TwoKeys
  Worker <- TwoWorkers
  MaxJobs = 2
  Batch = 1
  LeaseTimeout = 1
  DuplicateWindow = 1
  RetryBase = 1
  RetryCap = 1
  MaxAttempts = 2
  Stagger <- AtOnce
  Gated <- OneKey
  Disabled <- SecondKey
  Concurrency = 1
  AcceptedReports <- AnyReport
  MayOverrun = TRUE
  MaxFaults = 1
INVARIANT
  SentReachedChat
PROPERTY
  EveryJobSettles
  OnlyUncertainBlocks
