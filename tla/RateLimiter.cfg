\* Five calls on a key, with concurrent sweeps over three shards and resets.
SPECIFICATION Spec
CONSTANTS
  k1 = k1
  a1 = a1
  a2 = a2
  a3 = a3
  a4 = a4
  a5 = a5
  s1 = s1
  Requests <- FiveRequests
  Keys <- OneKey
  KeyOf <- SameKey
  Sweepers <- OneSweeper
  NumShards = 3
  ShardOf <- MiddleShard
  MaxRequests = 2
  Window = 2
  MinInstant <- JustBeforeStart
  MaxDelay = 1
  MaxClock = 4
SYMMETRY SameCalls
INVARIANTS
  IInv
  WindowLimit
  NoEmptyDeque
PROPERTIES
  RetryAfterSuffices
  EvictLeavesNoStaleKey
  ImplementsSlidingWindow
