CONSTANTS
  e1 = e1  e2 = e2  n1 = n1  n2 = n2  p1 = p1  p2 = p2
  NoCommand = NoCommand  NoProc = NoProc
  Evals = {e1, e2}
  Others = {n1}
  Procs = {p1, p2}
  FirstOwner = p1
  Heirs = {p2}
  MaxPending = 1
  MaxReq = 2
  MaxResolutions = 1
SPECIFICATION FairSpec
CHECK_DEADLOCK FALSE
INVARIANTS TypeOK CommandsKept RightResult  ShutdownHasCause
PROPERTIES SerialExecution AcceptedAnswered FirstOwnerDeathStops DestroyReturns
