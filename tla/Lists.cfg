SPECIFICATION Spec
CONSTANTS
  List = {la, lb}
  Value = {1, 2}
  Key = {0, 1}
  InitCap = 2
  W = 4
  Bound <- MCBound
  Step <- MCStep
  MaxLen = 3
  MaxBoth = 3
  MaxDepth = 2
  MaxTurns = 3
  SliceDepth = 0
  Junk = Junk
  None = None
INVARIANT MemoryOK
PROPERTY ListsAsPython
VIEW WhatMatters
SYMMETRY ListSymmetry
CHECK_DEADLOCK FALSE
