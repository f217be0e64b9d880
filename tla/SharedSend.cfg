SPECIFICATION Spec
CONSTANTS
  s1 = s1
  s2 = s2
  Senders = {s1, s2}
  Closers = {c1}
  Reactor = reactor
  Worker = worker
  MaxMsgs = 1
  MaxBatch = 1
  MaxReads = 1
  Quota = 2
  Limit = 1
SYMMETRY Symmetry
INVARIANTS OneFate NoLostWakeup
PROPERTIES NoPutDuringRead NoWaitUnderReactor
CHECK_DEADLOCK FALSE
