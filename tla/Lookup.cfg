SPECIFICATION FairLookupSpec
CONSTANTS
  Base = 2
  ExOr <- UnitXor
  AbiHash <- HashValues
  Cases <- AllCases
INVARIANT
  FirstDefinition
PROPERTY
  Returns
