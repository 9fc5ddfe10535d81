CONSTANTS
  Result = {r1, r2}
  BufferSize = 2
  NumExporters = 2
  MaxSends = 3
SPECIFICATION PipeFairSpec
INVARIANTS FanOutInOrder
PROPERTIES ImplementsDelivery DrainTerminates EventuallyExported
