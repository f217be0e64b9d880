SPECIFICATION FairSpec
CONSTANTS
  Senders = {s1}
  Closers = {c1}
  Reader = reader
  Finalizer = fin
  MaxMsgs = 2
  MaxBatch = 2
  MaxReads = 1
  MaxPackets = 1
  CtxCancel = TRUE
INVARIANTS ReleasedExactly WireOrder BufferSafe
PROPERTIES CloseCompletes AcceptedHandled
CHECK_DEADLOCK FALSE
