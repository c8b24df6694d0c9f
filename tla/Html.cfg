\* Two rounds instead of ten: rows of four and stacks of two are at the limit.
CONSTANTS
  None = None
  Pages <- MCPages
  MaxPasses = 2
  MaxDivPasses = 5
SPECIFICATION Spec
INVARIANTS
  TypeOK
  WordsSurvive
  NothingLeftOver
CHECK_DEADLOCK FALSE
