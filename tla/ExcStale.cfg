SPECIFICATION Spec
CONSTANTS
  stop = stop
  err = err
  null = null
  Exc <- MCExc
  NoExc = null
  Stop = stop
  MaxDepth = 5
  Features = {"exit_try_body"}
INVARIANT NoStaleLanding
