\* Every document shape, bodies of up to four pieces, every chunking.
SPECIFICATION Spec
CONSTANTS
  Documents <- SomeDocuments
  MaxPieces = 4
INVARIANTS
  BodyInv
  JsonAllOrNothing
  OnlyJsonRewritten
  Annotated
CHECK_DEADLOCK FALSE
