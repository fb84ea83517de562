\* Two backends, two concurrent requests, no step to spare, and a counter that
\* wraps around in the middle of the backends.
SPECIFICATION FairSpec
CONSTANTS
  r1 = r1
  r2 = r2
  Requests <- TwoRequests
  NumBackends = 2
  MaxIterations = 3
  CounterSize = 3
INVARIANTS
  AloneFindsReady
  SeenReadyIsChosen
PROPERTIES
  SelectEnds
