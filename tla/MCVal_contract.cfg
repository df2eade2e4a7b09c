SPECIFICATION Spec
CONSTANTS
  v1 = v1  v2 = v2  v3 = v3  k1 = k1  k2 = k2  o1 = o1  bx1 = bx1  bx2 = bx2  bx3 = bx3
  Null = Null  Free = Free  EmptyVar = EmptyVar
  Vars = {v1, v2}
  Keys = {k1}
  MaxArray = 2
  Depth = 2
  MaxVals = 8
  Plain = {"x"}
  Objects = {o1}
  Boxes = {bx1, bx2}
  Hazards = {}
SYMMETRY Symmetry
INVARIANTS NoFault StoredIsCopy
CHECK_DEADLOCK FALSE
