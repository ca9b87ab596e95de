\* Boards of 3 by 4 cells; 16 seeds and two bags; terminals of up to 2 by 2 cells;
\* three recorded steps; two connections of two observations, two attempts.
SPECIFICATION Spec
CONSTANTS
  W = 3
  H = 4
  U32Max = 5000
  PlayKinds = {"I", "T"}
  SeedHalves = {0, 1, 4660, 65535}
  MaxDraws = 15
  Views <- MCViews
  Picture <- MCPicture
  Mark <- MCMark
  StaticViews <- MCStatic
  Sizes <- MCSizes
  Interval = 2
  Passes = {1, 2}
  Seeds <- MCSeeds
  CutSeed <- MCCutSeed
  Remotes <- MCRemotes
  Locals <- MCLocals
  Start <- MCStart
  After <- MCAfter
  Digest <- MCDigest
  MaxRecords = 3
  MaxAttempts = 2
  Frames = 2
  Connections = 2
INVARIANTS ClearAlwaysScores DealtInBags PreviewKept  ScreenIsFresh
           WholeTapeVerifies CutTapeIsPrefix MismatchReproduced ShownIsNewest
PROPERTIES ClearsAtOnce  ConnectionReplaced
CHECK_DEADLOCK FALSE
