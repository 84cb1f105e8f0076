SPECIFICATION Spec
CONSTANTS
  Slots = {s1, s2}
  NoSlot = NoSlot
  Capacity = 2
  MaxPushes = 5
INVARIANTS
  TypeOK
  Bounded
  Accounted
  InOrder
  NewestKept
PROPERTIES
  QueuedLeaves
