SPECIFICATION Spec
CONSTANTS
  Listener = {}
  MaxFaults = 2
INVARIANT
  ProlongedDisconnectPaged
