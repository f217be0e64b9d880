CONSTANTS
  p1 = p1
  p2 = p2
  Producers = {p1, p2}
  Cap = 2
  MaxItems = 2
  MaxBatch = 2
SPECIFICATION Spec
SYMMETRY Symmetry
INVARIANTS NeverOverCapacity FIFO NoSlotRace EmptyMeansDrained ReportedExactly
PROPERTY CloseIsFinal
