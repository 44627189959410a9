CONSTANTS
  R = R
  I = I
  J = J
  CI = CI
  a = a
  b = b
  c = c
  d = d
  p = p
  q = q
  Item <- MCItem
  Symbol <- MCSymbol
  Process = {}
  Root = R
  ContextItem = CI
  Children <- ContextChildren
  Above <- ContextAbove
  Processing <- NoProcessing
  main = main
  other = other
  third = third
  Source = {main, other, third}
  MainFile = main
  NoSource = NoSource
  NoReference = NoReference
  Byte <- MCByte
  LENGTH_MAX = 15
  Grammars <- ContextGrammars
  Files <- ContextFiles
SPECIFICATION Spec
INVARIANTS DefinitionContextIsLive ReadsOwnSource SourceStackSuffices
