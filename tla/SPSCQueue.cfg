CONSTANTS
  Cap = 4
  MaxItems = 6
  MaxBatch = 3
SPECIFICATION FairSpec
INVARIANT NoOverlap
PROPERTIES ImplementsFIFO ProducerReturns
