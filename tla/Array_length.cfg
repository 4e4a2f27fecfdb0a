CONSTANTS
  Components = {"array"}
  ArrayValues = {0}  ArrayCompactAt = 2  ArrayOps = 4
  NoModule = NoModule  ma = ma  mb = mb  mc = mc  md = md  i1 = i1  i2 = i2
SPECIFICATION Spec
CHECK_DEADLOCK FALSE
INVARIANTS LengthAboveIndices
