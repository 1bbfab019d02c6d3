SPECIFICATION FairGeneratorSpec
CONSTANTS
  Programs <- MCPrograms
  Sessions <- MCSessions
  MaxCalls = 2
  MaxHeap = 50
  Depth = 4
INVARIANTS
  SchemaMeansTheSource
  RefsMeanTheirTypes
  NoMissingDefinition
  ConflictsAreReal
PROPERTIES
  CollectorSpec
  EveryRequestReturns
CHECK_DEADLOCK FALSE
