\* Answers come and shutdowns end.
SPECIFICATION FairSpec
CONSTANTS
  Clients = {1, 2}
  None = None
  Lines = {"hello", "command", "mismatch", "unknown", "garbage"}
  Roles = {"auto"}
  Streams = {FALSE}
  MailboxCapacity = 1
  QueueCapacity = 1
  BatchSize = 2
  MaxSeq = 2
  MaxOwed = 1
PROPERTIES ShutdownEnds AnswerComes
CHECK_DEADLOCK FALSE
