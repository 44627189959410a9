CONSTANTS
  root = root
  inner = inner
  outer = outer
  nested = nested
  template = template
  setup = setup
  s1 = s1
  s2 = s2
  n = n
  NoId = NoId
  NoName = NoName
  LengthMax <- MCMax
  Document <- MCDocument
SPECIFICATION Spec
INVARIANTS EveryObjectHasOneOwner GrammarMirrorsSection IndexFindsGrammar ParentIsContainer
  SomeValueFits
CHECK_DEADLOCK FALSE
