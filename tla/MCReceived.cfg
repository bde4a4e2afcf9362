SPECIFICATION Spec
CONSTANTS
  Jobs <- MCJobs
  MaxPointerHops = 32
  MaxLabel = 63
  MaxName = 6
  MaxUint32 = 2147483647
  MaxString = 4
INVARIANT ReceivedTypeOK
INVARIANT ReceivedIsCanonical
INVARIANT HandlerMeansOctets
INVARIANT KeyTagIsRFC
INVARIANT TextIsWritten
