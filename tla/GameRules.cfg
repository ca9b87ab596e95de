\* The rules with every timer at its shortest: drops, kicks, holds and clears.
SPECIFICATION Spec
CONSTANTS
  W = 4
  H = 6
  SpawnX = 0
  Kinds = {"I", "O", "T"}
  BagSize = 3
  RngStates <- MCRngStates
  NextBag <- MCNextBag
  NextRng <- MCNextRng
  PreviewLen = 2
  None = None
  U32Max = 8
  DropIntervals <- MCNoDelay
  SoftDropMult = 1
  SoftDropGrace = 1
  LockDelay = 1
  LockResetLimit = 0
  LineClearPause = 0
  LandingFlash = 0
  LinesPerLevel = 2
  StepModulus = 1
  TickTimes = {1}
  Inputs = {"MoveLeft", "MoveRight", "HardDrop", "RotateCw", "RotateCcw", "Hold"}
  MaxPieces = 6
  MaxEpisodes = 0
INVARIANTS TypeOK ActiveFits NoFullRows PlayableHasActive  NextQueueFresh HoldOncePerPiece PieceAccounting
PROPERTIES EpisodeMonotone
CHECK_DEADLOCK FALSE
