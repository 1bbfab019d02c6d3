SPECIFICATION Spec
CONSTANTS
  Nodes <- MCNodes
  Symbols <- MCSymbols
  Bases <- MCBases
  Drafts <- MCDrafts
  Heritages <- MCHeritages
  ExtraTags = {"enum", "anyOf"}
  Descriptions = {"markdown", "full"}
  MaxAdded = 3
  InexactInt <- MCInexactInt
INVARIANTS
  
  CommentsAreRead
  CommentsAreInherited
  AnnotationsAreSpread
CHECK_DEADLOCK FALSE
