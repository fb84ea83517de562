\* The intervals of the code, against the documented second layer of checks.
SPECIFICATION Spec
CONSTANTS
  e1 = e1
  e2 = e2
  a1 = a1
  a2 = a2
  Entries <- TwoEntries
  Addresses <- TwoAddresses
  BackendsOf <- Sharing
  Interval = 5
  Timeout = 1
  CheckFrequency = 1
  MaxClock = 7
INVARIANTS
  DetectedAtCheckFrequency
