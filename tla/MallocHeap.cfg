SPECIFICATION Spec
CONSTANTS
  PageSize = 256
  StaticBase = 1024
  Arena = {2, 6, 7}
  Requests = {1, 100}
  Alignments = {64}
  AlignedRequests = {20}
  Word = 4096
  Callocs <- SomeCallocs
  MaxLive = 3
INVARIANTS
  HeapCheck
  NoOverlap
  HoldsDescriptor
  Promised
  Conservation
PROPERTY
  Implements
