SPECIFICATION Spec
CONSTANTS
  h1 = h1  h2 = h2  h3 = h3  b1 = b1  b2 = b2  b3 = b3  lit = lit
  Null = Null  NoRet = NoRet  Nul = "0"  Uninit = "?"
  Strings = {h1, h2, h3}
  Blocks = {b1, b2}
  Lits = {lit}
  LitText <- UniformText
  Texts <- LetterA
  Char = {"a"}
  Blank = {}
  MaxLen = 2
  RefLimit = 4
  Hazards = {"self_assign", "self_insert", "clear_static", "assign_static", "substr_null", "erase_slice", "cstr_slice", "insert_past", "short_read"}
SYMMETRY Symmetry
VIEW WithoutRet
INVARIANTS TypeOK RefsExact InBounds
PROPERTIES Isolation
CHECK_DEADLOCK FALSE
