SPECIFICATION Spec
CONSTANTS
  Widths = {0, 1, 2}
INVARIANTS TypeOK LevelsMatchBlocks BlocksAsWritten AcceptsAsPython
