\* Rounds that are shorter, as long as and longer than the interval.
SPECIFICATION Spec
CONSTANTS
  e1 = e1
  e2 = e2
  a1 = a1
  a2 = a2
  Entries <- TwoEntries
  Addresses <- TwoAddresses
  BackendsOf <- Sharing
  Interval = 3
  Timeout = 2
  CheckFrequency = 1
  MaxClock = 14
INVARIANTS
  IInv
  FlagsFresh
PROPERTIES
  FlipsJustified
  ImplementsRounds
