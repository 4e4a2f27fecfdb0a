CONSTANTS
  Components = {"regexp", "objects", "array", "methods", "module", "marshal"}
  ArrayValues = {0, 1}  ArrayCompactAt = 1  ArrayOps = 3
  NoModule = NoModule  ma = ma  mb = mb  mc = mc  md = md  i1 = i1  i2 = i2
SPECIFICATION Spec
CHECK_DEADLOCK FALSE
INVARIANTS TypeOK FindsTheMatch Agrees MethodsAgree
   ConversionsAgree
