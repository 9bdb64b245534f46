SPECIFICATION FairSpec
CONSTANTS
  SIZE_MAX = 63
  Kinds <- MCKinds
INVARIANTS
  ArrayOK
  AgreesWithCstrBuf
PROPERTIES
  GrowsInProportion
  CallReturns
