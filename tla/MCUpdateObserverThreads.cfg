CONSTANTS
  o1 = o1
  o2 = o2
  Offset = {o1, o2}
  ThreadOffset = {o1, o2}
  MaxValue = 1
  Room = 4
  NoValue = NoValue
SPECIFICATION Spec
SYMMETRY Symmetry
INVARIANTS
  ReadsAreCommitted
