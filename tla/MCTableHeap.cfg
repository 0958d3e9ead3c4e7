CONSTANTS
    a = a
    c = c
    Rows = {a, c}
    SizeOf <- MCSizeOf
    PageBytes = 5
    SlotBytes = 1
    SlotCapacity = 2
    MaxPages = 3
    MaxRows = 3
    ScanPages = 2
SPECIFICATION Spec
INVARIANTS RowsReadBack InsertableListExact HeapShape ScanReachesAll
PROPERTIES GrowsOnlyWhenFull
