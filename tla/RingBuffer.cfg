SPECIFICATION Spec
CONSTANTS
  Byte = {0, 1}
  Capacity = 3
  MaxCall = 4
INVARIANTS
  TypeOK
  OffersOnlyFreeRoom
  OffersAllFreeRoom
  ThrowsOnlyWhenFull
PROPERTIES
  IsByteStream
