SPECIFICATION Spec
CONSTANTS
  Declarations <- MoreDeclarations
  Batches <- TagBatches
  Values <- MCValues
INVARIANTS
  SameAsAlone
CHECK_DEADLOCK FALSE
