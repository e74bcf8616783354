SPECIFICATION FairWakeupSpec
CONSTANTS
  Batch = 1
  MaxWaiting = 2
  MaxFaults = 1
  MaxClients = 2
  BreakOnAnswer = TRUE
  MaxMail = 1
INVARIANT
  WakeupTypeOK
  NeverStalls
  WakeupKept
  AnnouncedIsLookedUp
  NeverStranded
  OneListener
  NoClientLeak
PROPERTY
  RowsTaken
