SPECIFICATION Spec
CONSTANTS
  Frames = {f1, f2}
  Clients = {c1, c2}
  NumPages = 3
  Values = {0, 1}
  Zero = 0
  NoPage = NoPage
  NoFrame = NoFrame
  NoHandle = NoHandle
  Deletable = {"absent", "cached"}
SYMMETRY PoolSymmetry
INVARIANT HeldPageStays
