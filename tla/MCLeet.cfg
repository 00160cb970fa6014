SPECIFICATION Spec
CONSTANTS
  Num <- MCNum
  MaxTotal = 4
  Words <- MCWords
  Matrices <- MCMatrices
INVARIANTS
  ArraysAgree
  WordsAgree
  ShapesAgree
CHECK_DEADLOCK FALSE
