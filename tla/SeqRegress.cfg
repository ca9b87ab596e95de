SPECIFICATION Spec
CONSTANTS
  Clients = {c1}
  TickMs = 16
  Hz = 60
  MaxEvents = 1
  MaxTicks = 3
  MaxChanges = 1
PROPERTIES SeqIncreases
CHECK_DEADLOCK FALSE
