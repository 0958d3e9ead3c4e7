SPECIFICATION StorageSpec
CONSTANTS
  Frames = {f1, f2}
  Clients = {c1, c2, c3}
  NumPages = 3
  Values = {0, 1}
  Zero = 0
  NoPage = NoPage
  NoFrame = NoFrame
  NoHandle = NoHandle
  Deletable = {"absent"}
  Capacity = 2
  MaxExtents = 2
  WordSize = 8
SYMMETRY PoolSymmetry
INVARIANTS
  HeldPageStays
  FramesAccounted
  BooksBalance
PROPERTIES
  ImplementsPageStore
  LowestFreeFirst
