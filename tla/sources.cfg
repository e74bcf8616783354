SPECIFICATION PollerFairSpec
CONSTANTS
  Listener = {l1, l2}
  Polled = {p1, p2}
  MaxFaults = 2
  MaxThrows = 1
INVARIANT
  PollsTypeOK
  ReportedUpIsUp
  ConnectionsDoNotPileUp
PROPERTY
  HearsAgain
  TicksAnswered
