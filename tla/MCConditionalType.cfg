SPECIFICATION Spec
CONSTANTS
  Declarations <- MCDeclarations
  CheckTypes <- MCCheckTypes
  ExtendsTypes <- MCExtendsTypes
  Values <- MCValues
  ParentContext <- MCParentContext
INVARIANTS
  AssignableIsSound
  PlainIsComplete
  Distributes
  NothingIsLost
CHECK_DEADLOCK FALSE
