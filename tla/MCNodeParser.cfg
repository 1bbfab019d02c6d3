SPECIFICATION FairSpec
CONSTANTS
  Programs <- MCPrograms
  MaxCalls = 2
  Depth = 4
INVARIANTS
  TypeOK
  NoDanglingReference
  TypesMeanTheSource
  TypesFollowTheSource
  OneNameOneType
PROPERTIES
  CachedTypesAreFinal
  IdsAreFinal
  EveryCallReturns
CHECK_DEADLOCK FALSE
