\* Five requests of every kind; 0 is an id that no user has.
SPECIFICATION Spec
CONSTANTS
  r1 = r1
  r2 = r2
  r3 = r3
  r4 = r4
  r5 = r5
  Requests <- FiveRequests
  PathIds = {0, 1, 2}
  NumShards = 2
  MaxId = 6
  ShardOf <- Parity
SYMMETRY SameRequests
INVARIANTS
  IInv
  StoreMatchesAnswers
  IdsUnique
  ListSound
