CONSTANTS
  b1 = b1
  b2 = b2
  Junk = Junk
  Bytes = {b1, b2}
  InitCapacity = 3
  MaxPush = 4
  MaxSize = 3
SPECIFICATION Spec
SYMMETRY Symmetry
INVARIANT QueueInv
INVARIANT AlwaysRoom
INVARIANT Contents
