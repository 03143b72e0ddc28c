SPECIFICATION Spec
CONSTANTS
  MaxByte = 2
  KeySpace <- MCKeySpace
  AskedPrefixes <- MCAsked
  Limits <- MCLimits
  defaultLimit = 2
  maxLimit = 3
  MaxWrites = 2
INVARIANTS
  TypeOK
  BoundsArePrefix
  PagesSound
  PagesComplete
PROPERTY ScanEnds
