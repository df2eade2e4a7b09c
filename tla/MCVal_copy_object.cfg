SPECIFICATION Spec
CONSTANTS
  v1 = v1  v2 = v2  v3 = v3  k1 = k1  k2 = k2  o1 = o1  bx1 = bx1  bx2 = bx2  bx3 = bx3
  Null = Null  Free = Free  EmptyVar = EmptyVar
  Vars = {v1, v2}
  Keys = {k1}
  MaxArray = 2
  Depth = 1
  MaxVals = 5
  Plain = {"x"}
  Objects = {o1}
  Boxes = {bx1, bx2}
  Hazards = {"copy_object"}
SYMMETRY Symmetry
INVARIANTS OwnReference
CHECK_DEADLOCK FALSE
