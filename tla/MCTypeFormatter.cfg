SPECIFICATION Spec
CONSTANTS
  Declarations <- MCDeclarations
  Batches <- MCBatches
  Values <- MCValues
INVARIANTS
  EveryValueAccepted
  NoOtherValueAccepted
  SchemasAreWellFormed
  SameAsAlone
CHECK_DEADLOCK FALSE
