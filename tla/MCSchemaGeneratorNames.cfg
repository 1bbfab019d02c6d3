SPECIFICATION FairGeneratorSpec
CONSTANTS
  Programs <- Ambiguous
  Sessions <- AmbiguousSessions
  MaxCalls = 2
  MaxHeap = 45
  Depth = 4
INVARIANTS
  SchemaMeansTheSource
CHECK_DEADLOCK FALSE
