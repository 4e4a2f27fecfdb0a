CONSTANTS
  Components = {"budget"}
  MaxEvals = 2
  Timeouts = {0, 1, 2, 3, 4, 6}  Grace = 2  MaxQueued = 2  MaxParked = 3
  Horizon = 10  Absent = Absent  Infinity = Infinity
  Requests = {r1, r2, r3}  MaxAwaits = 2
  Asyncs = {f1}  Plain = Plain  Thenable = Thenable  MaxPromises = 3
  MaxPairs = 2  MaxReactions = 2  MaxStack = 2  MaxRuns = 2
  Stacks = {s1, s2, a1}  AsyncStacks = {a1}  Resources = {r1, r2, r3}
  Nothing = Nothing  MaxFrames = 3
  Base = 2  FirstBytes <- MCFirstBytes  MaxBytes = 5  Shapes <- MCShapes
  Ints <- MCInts  Spells <- MCSpells  MaxViews = 2  MaxOps = 3
  Contexts = {s1, s2}  MaxCalls = 3  MaxHostCalls = 2
  MapKeys = {k1, k2, k3, k4}  MapHash <- MCHash  MapWalkers = {1}  MaxAdds = 5
  Populations <- MCPopulations  MaxLinks = 2  MaxRecords = 2
  f1 = f1  r1 = r1  r2 = r2  r3 = r3  s1 = s1  s2 = s2  a1 = a1
  k1 = k1  k2 = k2  k3 = k3  k4 = k4
SPECIFICATION Spec
CHECK_DEADLOCK FALSE
INVARIANTS UnboundedOnlyOnRequest
