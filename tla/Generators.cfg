SPECIFICATION GenSpec
CONSTANTS
  Wrap = 4
  Fuel = 25
  MaxLen = 4
  MaxMain = 2
  MaxNext = 4
  MaxObjects = 7
  Programs <- MCPrograms
INVARIANTS
  DeliversAsPython
  FramesMatchCalls
CHECK_DEADLOCK FALSE
