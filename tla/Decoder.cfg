\* The decoder with every feature, a chunk at a time, for ever.
SPECIFICATION FairSpec
CONSTANTS
  PayloadBits = 4
  FloatBytes = 1
  ValueBits = 10
  FormatMax = 2
  MaxDepth = 1
  Features <- AllFeatures
  Target32 = FALSE
  Input <- WideInput
  PayloadInput <- OneByte
  MaxChunk = 2
INVARIANTS
  TypeOK
  BitsBelowShift
  CleanAccumulator
  CountsMatchState
PROPERTIES
  FeedTerminates
  InvalidIsLatched
  KeepsContract
