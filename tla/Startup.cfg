SPECIFICATION Spec
CONSTANTS
  PageSize = 16
  PhdrSize = 8
  Highest = 4096
  Boots <- AllBoots
  Mains <- SomeMains
  Orders <- AllOrders
  ArgCounts = {1, 2, 3}
  EnvCounts = {0, 2}
INVARIANTS
  BootRead
  ObjectDescribed
  EntersUnlessMoved
