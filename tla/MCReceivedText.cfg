SPECIFICATION Spec
CONSTANTS
  Jobs <- ContractJobs
  MaxPointerHops = 32
  MaxLabel = 63
  MaxName = 255
  MaxUint32 = 2147483647
  MaxString = 255
INVARIANT ConvertsOrFails
