CONSTANTS
  c1 = c1
  c2 = c2
  v1 = v1
  v2 = v2
  Var = {v1, v2}
  Master <- Ids
  Virtual <- Ids
  Caller = {c1, c2}
  VarsOf <- SharedVars
  KnownVar = {v1}
  MaxCalls = 3
  MaxUpdates = 1
  MaxBurst = 1
  MaySplit = FALSE
  MayTimeout = FALSE
  MayBreak = FALSE
SPECIFICATION Spec
INVARIANTS
  SharedVariablesWork
CHECK_DEADLOCK FALSE
