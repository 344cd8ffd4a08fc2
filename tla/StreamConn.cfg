\* A queue of two frames; more frames than it holds.
CONSTANTS
  p1 = p1
  p2 = p2
  terminal = terminal
  events = events
  Conns = {terminal, events}
  Feeds <- TerminalAndEvents
  QueueCap = 2
  MaxFrames = 5
SPECIFICATION FairApart
CHECK_DEADLOCK FALSE
INVARIANTS
  NothingHidden
  NothingCountedTwice
PROPERTIES
  ProducerNeverWaits
  HolesReported
  ImplementsLossyStream
