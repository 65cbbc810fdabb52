CONSTANTS
  Button = {"AB_ECAM_TOCFG", "AB_ECAM_CLR"}
  Knob = {"AB_MPL_ECAMU_Power"}
  Level = {0, 16, 17}
  Master = {22}
  MasterLVar <- MCMasterLVar
  NumPos = 2
  Debounce = 1
  Key = {0, 31}
  KeyLVar <- MCKeyLVar
  RxLines = 2
  CallsAtFirst = FALSE
  LVarValue <- MCLVarValue
  MaxMoves = 2
  MaxRestarts = 2
  MaxLines = 3
SPECIFICATION Spec
INVARIANTS
  InputsReach
  LightsShow
CHECK_DEADLOCK FALSE
