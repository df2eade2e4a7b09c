SPECIFICATION Spec
CONSTANTS
  h1 = h1  h2 = h2  h3 = h3  b1 = b1  b2 = b2  b3 = b3  lit = lit
  Null = Null  NoRet = NoRet  Nul = "0"  Uninit = "?"
  Strings = {h1, h2}
  Blocks = {b1, b2, b3}
  Lits = {lit}
  LitText <- MixedText
  Texts <- LetterA
  Char = {"a", " "}
  Blank = {" "}
  MaxLen = 3
  RefLimit = 1000
  Hazards = {}
SYMMETRY Symmetry
INVARIANTS NoFault NoLeak
PROPERTIES ValueSemantics
CHECK_DEADLOCK FALSE
