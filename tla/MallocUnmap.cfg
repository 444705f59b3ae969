SPECIFICATION Spec
CONSTANTS
  PageSize = 256
  StaticBase = 256
  Arena <- UnmapArena
  Requests = {320, 1800}
  Alignments = {4}
  AlignedRequests = {312}
  Word = 4096
  Callocs = {}
  MaxLive = 4
INVARIANTS
  OnlyMapped
  Conservation
