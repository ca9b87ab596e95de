\* A client promoted before its hello.
SPECIFICATION Spec
CONSTANTS
  Clients = {1, 2}
  None = None
  Lines = {"hello"}
  Roles = {"auto", "observer"}
  Streams = {FALSE}
  MailboxCapacity = 2
  QueueCapacity = 1
  BatchSize = 1
  MaxSeq = 2
  MaxOwed = 1
INVARIANTS ObserverNeverPromoted
CHECK_DEADLOCK FALSE
