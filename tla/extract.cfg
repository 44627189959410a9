SPECIFICATION Spec
CONSTANTS
  NoName = ""
  NormData = "normData"
  Blank = Blank
  Alphabet <- MCAlphabet
  Inflate <- MCInflate
  Paint <- MCPaint
  Formats <- MCFormats
  Magick = "magick"
  NoGrammar = "none"
  NoIdentifier = "unknown"
  Documents <- MCDocuments
  Instructions <- MCInstructions
  Libraries <- MCLibraries
  Ignored <- MCIgnored
INVARIANTS
  IdsAreUnique
  EveryValueWritten
  ReferencesResolve
  RangesAreExact
CHECK_DEADLOCK FALSE
