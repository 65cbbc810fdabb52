CONSTANTS
  o1 = o1
  o2 = o2
  Offset = {o1, o2}
  ThreadOffset = {o1}
  MaxValue = 1
  Room = 3
  NoValue = NoValue
SPECIFICATION Spec
INVARIANTS
  RequestsAreLive
  ValuesAreAnswers
  CacheIsTold
