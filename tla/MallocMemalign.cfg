SPECIFICATION Spec
CONSTANTS
  PageSize = 256
  StaticBase = 256
  Arena = {3}
  Requests = {100}
  Alignments = {64}
  AlignedRequests = {8}
  Word = 4096
  Callocs = {}
  MaxLive = 3
INVARIANT
  HoldsDescriptor
