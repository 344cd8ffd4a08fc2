\* One consumer; writes shorter than, as long as and wrapping a ring of three bytes.
CONSTANTS
  Consumers = {k1}
  ScrollbackCap = 3
  ReadChunk = 3
  ConsumerQueue = 1
  MaxBytes = 5
SPECIFICATION FairSpec
CHECK_DEADLOCK FALSE
INVARIANTS
  SeamlessAttach
  ClosedOnce
  LastScreenfulFirst
PROPERTIES
  KillCompletes
  NeverStallsChild
