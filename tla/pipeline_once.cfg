SPECIFICATION Spec
CONSTANTS
  history = history
  feed = feed
  push = push
  k1 = k1
  c1 = c1
  c2 = c2
  r1 = r1
  h1 = h1
  h2 = h2
  f1 = f1
  p1 = p1
  Poll = Poll
  Source <- AllSources
  Polled <- PolledSources
  Key <- OneKey
  SourceOf <- SourceOfAlert
  KeyOf <- SameKey
  Alert <- ThreeReports
  EventAt <- Repeated
  Chat <- TwoChats
  Callback <- OneCallback
  Window = 3
  MaxFlight = 1
  RareKinds <- RefusedOnly
  MaxRare = 1
  MaxTime = 6
INVARIANT
  OncePerEvent
SYMMETRY ChatsAlike
CHECK_DEADLOCK FALSE
