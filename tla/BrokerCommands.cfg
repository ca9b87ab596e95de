\* Two clients: commands, good and bad, through a queue and mailboxes of one.
SPECIFICATION Spec
CONSTANTS
  Clients = {1, 2}
  None = None
  Lines = {"hello", "command"}
  Roles = {"auto"}
  Streams = {FALSE}
  MailboxCapacity = 1
  QueueCapacity = 1
  BatchSize = 2
  MaxSeq = 3
  MaxOwed = 2
INVARIANTS CommandOrder NoSilentLoss
CHECK_DEADLOCK FALSE
