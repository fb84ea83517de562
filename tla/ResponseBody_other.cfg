\* Bodies of up to two pieces that are not JSON.
SPECIFICATION Spec
CONSTANTS
  Documents <- SomeDocuments
  MaxPieces = 2
INVARIANTS
  OtherUntouched
CHECK_DEADLOCK FALSE
