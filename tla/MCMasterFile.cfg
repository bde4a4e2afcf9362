SPECIFICATION Spec
CONSTANTS
  Token <- MCToken
  Texts <- MCTexts
  Before <- MCBefore
  Factories <- MCFactories
  MaxPointerHops = 32
  MaxLabel = 63
  MaxName = 255
  MaxUint32 = 8
  MaxString = 255
INVARIANT MasterFileTypeOK
INVARIANT StrictIsReference
INVARIANT LenientAgrees
PROPERTY ZoneAllOrNothing
