SPECIFICATION FairGeneratorSpec
CONSTANTS
  Programs <- RingPrograms
  Sessions <- RingSessions
  MaxCalls = 2
  MaxHeap = 45
  Depth = 4
INVARIANTS
  NoMissingDefinition
CHECK_DEADLOCK FALSE
