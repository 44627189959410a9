CONSTANTS
  Programs <- MCPrograms
  Grammars <- MCGrammars
  Files <- MCFiles
  Fonts <- MCFonts
  Factors <- MCFactors
  Ascii <- Characters
  LENGTH_MAX = 268435455
  Before <- MCBefore
  UINT32 = 67108864
SPECIFICATION Spec
PROPERTIES
  PulledWhereAsked
  AddressesFollowSeparators
  ValuesEndAtSeparators
  
CHECK_DEADLOCK FALSE
