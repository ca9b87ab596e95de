\* Two clients: hellos, claims, releases and every way to leave.
SPECIFICATION Spec
CONSTANTS
  Clients = {1, 2}
  None = None
  Lines = {"hello", "claim", "release"}
  Roles = {"auto", "observer"}
  Streams = {TRUE}
  MailboxCapacity = 1
  QueueCapacity = 1
  BatchSize = 1
  MaxSeq = 2
  MaxOwed = 2
INVARIANTS ControllerRegistered StatusFresh
PROPERTIES NoStealing
CHECK_DEADLOCK FALSE
