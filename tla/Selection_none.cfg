\* Two backends, two concurrent requests, the 32 steps of the code.
SPECIFICATION Spec
CONSTANTS
  r1 = r1
  r2 = r2
  Requests <- TwoRequests
  NumBackends = 2
  MaxIterations = 32
  CounterSize = 2
SYMMETRY SameRequests
INVARIANTS
  NoneMeansAllUnready
