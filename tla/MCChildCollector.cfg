SPECIFICATION FairSpec
CONSTANTS
  d1 = d1
  d2 = d2
  o1 = o1
  o2 = o2
  ref = ref
  Types <- MCTypes
  Definitions <- MCDefinitions
  Graphs <- MCGraphs
  MaxRuns = 2
INVARIANTS
  TypeOK
  FirstRunComplete
  CollectsOnlyReachable
PROPERTIES
  EntriesAreFinal
  EveryRunEnds
CHECK_DEADLOCK FALSE
