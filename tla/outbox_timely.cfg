SPECIFICATION Spec
SYMMETRY WorkerSymmetry
CONSTANTS
  k1 = k1
  k2 = k2
  w1 = w1
  w2 = w2
  NoKey = NoKey
  NoWorker = NoWorker
  Key <- TwoKeys
  Worker <- TwoWorkers
  MaxJobs = 3
  Batch = 2
  LeaseTimeout = 2
  DuplicateWindow = 3
  RetryBase = 2
  RetryCap = 1
  MaxAttempts = 2
  Stagger <- AtOnce
  Gated <- OneKey
  Disabled <- NoKeys
  Concurrency = 2
  AcceptedReports <- Honest
  MayOverrun = FALSE
  MaxFaults = 1
INVARIANTS
  TypeOK
  OneRowPerKey
  ExclusiveLease
  AtMostOnce
  TruthfulVerdict
  GateNeverSwallows
PROPERTY
  KeepsContract
