CONSTANTS
  R = R
  I = I
  J = J
  CI = CI
  a = a
  b = b
  c = c
  d = d
  p = p
  q = q
  Item <- MCItem
  Symbol <- MCSymbol
  Process = {p, q}
  Root = R
  ContextItem = CI
  Children <- JumpChildren
  Above <- JumpAbove
  Processing <- JumpProcessing
  main = main
  other = other
  third = third
  Source = {main, other, third}
  MainFile = main
  NoSource = NoSource
  NoReference = NoReference
  Byte <- MCByte
  LENGTH_MAX = 15
  Grammars <- JumpGrammars
  Files <- JumpFiles
SPECIFICATION Spec
INVARIANTS StackDiscipline MatchesLieInRange
PROPERTIES JumpReturns MethodsUseCurrentValues
