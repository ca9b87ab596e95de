\* The clock: gravity, lock delay, soft drop, line-clear pause, pause and restart.
SPECIFICATION Spec
CONSTANTS
  W = 4
  H = 4
  SpawnX = 0
  Kinds = {"I", "T"}
  BagSize = 2
  RngStates <- MCRngStates
  NextBag <- MCNextBag
  NextRng <- MCNextRng
  PreviewLen = 2
  None = None
  U32Max = 8
  DropIntervals <- MCSlowTiming
  SoftDropMult = 2
  SoftDropGrace = 2
  LockDelay = 2
  LockResetLimit = 2
  LineClearPause = 1
  LandingFlash = 1
  LinesPerLevel = 1
  StepModulus = 2
  TickTimes = {1}
  Inputs = {"MoveLeft", "MoveRight", "SoftDrop", "HardDrop", "RotateCw", "Hold", "Pause", "Restart"}
  MaxPieces = 2
  MaxEpisodes = 1
INVARIANTS LockTimersOnlyGrounded SoftDropExpires
CHECK_DEADLOCK FALSE
