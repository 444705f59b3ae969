SPECIFICATION Spec
CONSTANTS
  PageSize = 4
  FileSize = 16
  Limit = 44
  Headers <- AllHeaders
  Bases = {0, 8}
  Outcomes = {TRUE, FALSE}
INVARIANTS
  ImageAsAsked
  ProtectedAsAsked
  HolesClosed
  PhdrFound
