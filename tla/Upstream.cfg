\* Three backends that come and go, one request over and over, fair checks.
SPECIFICATION FairSpec
CONSTANTS
  r1 = r1
  Requests <- OneRequest
  NumBackends = 3
  MaxIterations = 3
  CounterSize = 3
  Entry = "entry"
PROPERTIES
  ImplementsSelection
  FlagsSettle
  DeadIsSpared
  RecoversAlone
