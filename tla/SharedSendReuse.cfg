SPECIFICATION Spec
CONSTANTS
  s1 = s1
  s2 = s2
  Senders = {s1}
  Closers = {}
  Reactor = reactor
  Worker = worker
  MaxMsgs = 2
  MaxBatch = 1
  MaxReads = 2
  Quota = 2
  Limit = 1
INVARIANT BufferThere
CHECK_DEADLOCK FALSE
