SPECIFICATION Spec
CONSTANTS
  stop = stop
  err = err
  null = null
  Exc <- MCExc
  NoExc = null
  Stop = stop
  MaxDepth = 4
  Features = {"exit_try_body", "exit_two_finallys", "handle_in_rethrow"}
INVARIANT TypeOK
