SPECIFICATION DeliverySpec
CONSTANTS
  history = history
  feed = feed
  push = push
  k1 = k1
  c1 = c1
  r1 = r1
  h1 = h1
  f1 = f1
  p1 = p1
  w1 = w1
  Poll = Poll
  NoJob = NoJob
  NoKey = NoKey
  NoWorker = NoWorker
  Source <- AllSources
  Polled <- PolledSources
  Text <- OneText
  Chat <- OneChat
  Key <- OneKey
  SourceOf <- SourceOfAlert
  KeyOf <- SameText
  Alert <- TwoReports
  EventAt <- OneEvent
  Callback <- OneCallback
  DuplicateWindow = 3
  MaxFlight = 1
  RareKinds <- RefusedOnly
  MaxRare = 1
  MaxTime = 4
  Worker <- OneWorker
  MaxJobs = 2
  Batch = 1
  LeaseTimeout = 2
  RetryBase = 1
  RetryCap = 1
  MaxAttempts = 2
  Stagger <- AtOnce
  Gated <- OneKey
  Disabled <- NoKeys
  Concurrency = 1
  AcceptedReports <- Honest
  MayOverrun = FALSE
  MaxFaults = 1
INVARIANT
  OneMessagePerEvent
PROPERTY
  KeepsRows
  KeepsPipeline
CHECK_DEADLOCK FALSE
