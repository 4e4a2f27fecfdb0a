CONSTANTS
  s1 = s1  s2 = s2  a1 = a1  a2 = a2  g1 = g1  api = api
  c1 = c1  c2 = c2  c3 = c3
  Root = root  NoRequest = NoRequest  NoCall = NoCall
  SyncEvals = {s1, s2}
  AsyncEvals = {a1, a2}
  GasReads = {g1}
  OnBusyError = {a2}
  Awaiting = {s1}
  Callers = {c1, c2, c3}
  CallerOf <- MCCallerOf
  Apis = {}
  MaxQueueSize = 2
  MaxCalls = 0
SPECIFICATION Spec
CHECK_DEADLOCK FALSE
INVARIANTS QueueCounted AnsweredOnce ActiveIsUnderWay WorkConserving
PROPERTIES SerialExecution
