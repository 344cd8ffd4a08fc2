\* One client; more output than the queues hold.
CONSTANTS
  Clients = {c1}
  QueueCap = 1
  ScrollbackCap = 2
  ReadChunk = 1
  ConsumerQueue = 1
  MaxBytes = 2
SPECIFICATION FairSpec
CHECK_DEADLOCK FALSE
INVARIANTS
  OutputInOrder
  ClosureMeansExited
PROPERTIES
  NothingLeaks
  StayingClientLearnsExit
