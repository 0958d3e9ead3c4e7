SPECIFICATION FairSpec
CONSTANT Threads = {a, b, c, d}
INVARIANTS
  Exclusion
  NobodyForgotten
PROPERTY WriterGetsIn
