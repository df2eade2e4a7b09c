SPECIFICATION Spec
CONSTANTS
  v1 = v1  v2 = v2  v3 = v3  a = a  b = b
  NoView = NoView
  Root = v1
  Views = {v1, v2, v3}
  Ids = {a, b}
  MaxCalls = 3
SYMMETRY Symmetry
VIEW OneEnd
INVARIANTS TrackedOnlyIfWanted LinksAgree NativeMirrorsTree WindowTreeFinite FindComplete
CHECK_DEADLOCK FALSE
