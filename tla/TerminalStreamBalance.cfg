\* One client, more output than the queues hold.
CONSTANTS
  Clients = {c1}
  QueueCap = 1
  ScrollbackCap = 2
  ReadChunk = 1
  ConsumerQueue = 1
  MaxBytes = 3
SPECIFICATION Spec
CHECK_DEADLOCK FALSE
INVARIANT
  AccountingBalances
