SPECIFICATION Spec
CONSTANTS
  Alphabet <- MCAlphabet
  Beginnings <- MCBeginnings
  MaxTyped = 4
  Docs <- MCDocs
  MaxDocs = 3
  KeyOrder <- MCKeyOrder
  Searches <- MCSearches
  Replacements <- MCReplacements
INVARIANTS ParseEnds JsonReadsBack SearchesAgree
CHECK_DEADLOCK FALSE
