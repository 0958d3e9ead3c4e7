SPECIFICATION CrashSpec
CONSTANTS
  Capacity = 2
  MaxExtents = 2
  WordSize = 16
PROPERTY AllocatedWasFree
