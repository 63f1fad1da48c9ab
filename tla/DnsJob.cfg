SPECIFICATION Spec
CONSTANTS
  Host = {h1, h2}
  Thread = {t1, t2}
  Address = {a1, a2}
  Freed = Freed
  Nobody = Nobody
  Deadline = 2
INVARIANTS TypeOK OneOwner JobIsOwn
PROPERTIES AnswerIsOwn CallReturns JobsAreFreed
