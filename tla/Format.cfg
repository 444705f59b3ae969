SPECIFICATION FormatSpec
CONSTANTS
  IntSize = 1
  LongSize = 2
  Calls <- AllCalls
INVARIANT
  NameSpelled
PROPERTY
  ReadsBack
