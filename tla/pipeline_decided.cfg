SPECIFICATION FairSpec
CONSTANTS
  history = history
  feed = feed
  push = push
  k1 = k1
  c1 = c1
  c2 = c2
  r1 = r1
  h1 = h1
  h2 = h2
  f1 = f1
  p1 = p1
  Poll = Poll
  Source <- AllSources
  Polled <- PolledSources
  Key <- OneKey
  SourceOf <- SourceOfAlert
  KeyOf <- SameKey
  Alert <- TwoWaves
  EventAt <- Waves
  Chat <- OneChat
  Callback <- OneCallback
  Window = 1
  MaxFlight = 1
  RareKinds <- AnyFault
  MaxRare = 1
  MaxTime = 2
INVARIANT
  NeverDropped
  RememberedIsTold
PROPERTY
  PolledIsDecided
CHECK_DEADLOCK FALSE
