CONSTANTS
  Producers = {p1, p2}
  Nodes = {n1, n2, n3, n4}
  Nil = Nil
  RecycleCap = 1
  MaxItems = 2
  MaxBatch = 2
SPECIFICATION FairSpec
PROPERTIES ImplementsMailbox AllDelivered
