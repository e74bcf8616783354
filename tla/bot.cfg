SPECIFICATION FairSpec
CONSTANTS
  MaxUpdates = 3
  MaxPrompts = 2
  MaxFaults = 2
  DefaultSwitch = "on"
INVARIANT
  OnlyTheCurrentIsLost
  OncePerUpdate
  ToldIsSo
PROPERTY
  EveryUpdateTaken
CHECK_DEADLOCK FALSE
