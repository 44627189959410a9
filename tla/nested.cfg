CONSTANTS
  R = R
  I = I
  J = J
  CI = CI
  a = a
  b = b
  c = c
  d = d
  p = p
  q = q
  Item <- MCItem
  Symbol <- MCSymbol
  Process = {}
  Root = R
  ContextItem = CI
  Children <- NestedChildren
  Above <- NestedAbove
  Processing <- NoProcessing
  main = main
  other = other
  third = third
  Source = {main, other, third}
  MainFile = main
  NoSource = NoSource
  NoReference = NoReference
  Byte <- MCByte
  LENGTH_MAX = 15
  Grammars <- NestedGrammars
  Files <- NestedFiles
SPECIFICATION FairSpec
INVARIANTS StackIsExact IndexInReadingOrder
PROPERTIES BacktrackRestores AllFindsMandatory FiniteDocumentTerminates
