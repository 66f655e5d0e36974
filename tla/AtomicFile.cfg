SPECIFICATION Spec
CONSTANTS
  w1 = w1
  w2 = w2
  f1 = f1
  f2 = f2
  f3 = f3
  a = a
  b = b
  Missing = Missing
  Writers = {w1, w2}
  Files = {f1, f2, f3}
  Contents = {a, b}
  Plan <- MCPlan
INVARIANTS AllOrNothing WholeFiles
