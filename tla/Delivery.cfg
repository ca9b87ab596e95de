SPECIFICATION FairSpec
CONSTANTS
  Clients = {c1}
  TickMs = 16
  Hz = 60
  MaxEvents = 1
  MaxTicks = 3
  MaxChanges = 1
INVARIANTS EventOnce CadenceExact
PROPERTIES CatchesUp SnapshotAnswered
CHECK_DEADLOCK FALSE
