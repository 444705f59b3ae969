SPECIFICATION Spec
CONSTANTS
  EhdrSize = 2
  e_phentsize = 2
  e_shentsize = 1
  SegmentSize = 4
  MessageSize = 1
  Gap = 2
  Align = 64
  PageSize = 16
  Half = 1024
  Files <- SomeFiles
INVARIANTS
  ContentsKept
  TablesMoved
  LoadedApart
  EntryChained
