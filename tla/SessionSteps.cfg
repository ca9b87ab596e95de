\* Steps of up to two actions, a place or a restart among them.
SPECIFICATION SessionSpec
CONSTANTS
  W = 4
  H = 4
  SpawnX = 0
  Kinds = {"I", "T"}
  BagSize = 2
  RngStates <- MCRngStates
  NextBag <- MCNextBag
  NextRng <- MCNextRng
  PreviewLen = 2
  None = None
  U32Max = 8
  DropIntervals <- MCNoDelay
  SoftDropMult = 1
  SoftDropGrace = 1
  LockDelay = 1
  LockResetLimit = 0
  LineClearPause = 0
  LandingFlash = 0
  LinesPerLevel = 2
  StepModulus = 1
  TickTimes = {1}
  Inputs = {"MoveLeft", "RotateCw", "HardDrop", "Hold", "Restart"}
  MaxPieces = 3
  MaxEpisodes = 1
  Seeds = {1}
  MaxActions = 2
INVARIANTS SnapshotFollows  PlaceLands
CHECK_DEADLOCK FALSE
