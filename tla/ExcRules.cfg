SPECIFICATION Spec
CONSTANTS
  stop = stop
  err = err
  null = null
  Exc <- MCExc
  NoExc = null
  Stop = stop
  MaxDepth = 4
  Features = {}
INVARIANTS HandlerDiscipline InflightIsOwed RethrowsOutward
PROPERTIES FinallyRuns UnwindEnds ImplementsPython
