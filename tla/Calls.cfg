SPECIFICATION Spec
CONSTANTS
  MaxParams = 4
  MaxArgs = 3
  MaxKws = 2
  ParamLists <- MCParamLists
  ArgLists <- MCArgLists
  KwLists <- MCKwLists
INVARIANTS
  SameMatch
  BindsAsPython
  RejectsAsPython
CHECK_DEADLOCK FALSE
