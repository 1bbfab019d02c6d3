SPECIFICATION Spec
CONSTANTS
  Declarations <- MCDeclarations
  Operands <- MCOperands
  Queries <- MCQueries
  Members <- MCMembers
  Partners <- MCPartners
  Texts <- MCTexts
  Variables <- MCVariables
  Enums <- MCEnums
  CaseOf <- MCCaseOf
  HideFunctions = FALSE
  Indexes <- MCIndexes
  Values <- MCValues
  MaxOperators = 2
INVARIANTS
  OperatorsMean
  MappedTypesMean
  WrittenTypesMean
CHECK_DEADLOCK FALSE
