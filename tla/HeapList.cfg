SPECIFICATION Spec
CONSTANTS
  First_fa <- StaticArea
  Chunks <- MappedChunks
  Sizes = {8, 60}
  MaxUsed = 3
INVARIANT
  heap_check
PROPERTY
  Implements
