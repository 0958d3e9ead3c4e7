SPECIFICATION Spec
CONSTANTS
  Frames <- MCFrames
  Capacity = 4
  NoFrame = NoFrame
INVARIANT TwoRotations
PROPERTIES
  LeastRecentFirst
  SecondChance
  ImplementsReplacer
