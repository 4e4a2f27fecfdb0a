CONSTANTS
  s1 = s1  s2 = s2  a1 = a1  a2 = a2  g1 = g1  api = api
  c1 = c1  c2 = c2  c3 = c3
  Root = root  NoRequest = NoRequest  NoCall = NoCall
  SyncEvals = {s1}
  AsyncEvals = {a1}
  GasReads = {}
  OnBusyError = {}
  Awaiting = {s1}
  Callers = {c1, c3}
  CallerOf <- MCCallerOf
  Apis = {api}
  MaxQueueSize = 1
  MaxCalls = 2
SPECIFICATION FairSpec
CHECK_DEADLOCK FALSE
INVARIANTS TypeOK CallbacksKept
PROPERTIES NoLostUpdate EveryRequestAnswered DeadCallerFreesContext
