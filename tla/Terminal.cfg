SPECIFICATION FairSpec
CONSTANTS
  Tick = 2
  Das = 5
  Arr = 3
  SoftArr = 3
  KeyTimeout = 5
  RepMin = 3
  RepMax = 6
  Keys = {"Left", "Down"}
  MaxSteps = 2
  PendingCap = 2
  Delays = {0, 3}
  MaxBacklog = 6
INVARIANTS TimeConserved KeysOnce 
PROPERTIES KeysTakeEffect
CHECK_DEADLOCK FALSE
