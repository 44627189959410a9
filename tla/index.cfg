CONSTANTS
  p = p
  q = q
  u = u
  int = int
  s = s
  n1 = n1
  Name = {p, q}
  Value = {u}
  Type = {int}
  NoText = NoText
  NormDataElement <- MCNormData
  Reference <- MCReference
  SetId = {s}
  NoId = NoId
  RefRange <- MCRange
  Limit <- IndexLimit
  NULL = NULL
  NormData = NormData
SPECIFICATION Spec
INVARIANTS StateFollowsDocument IndexHoldsObject
PROPERTY GivesUpOnlyTwo
CHECK_DEADLOCK FALSE
SYMMETRY NameSymmetry
