\* Up to two short payloads in every way of cutting them.
SPECIFICATION AccumulatingSpec
CONSTANTS
  PayloadBits = 4
  FloatBytes = 1
  ValueBits = 10
  FormatMax = 3
  MaxDepth = 0
  Features <- OnlyFixlen
  Target32 = FALSE
  Input <- BlobInput
  PayloadInput = {0, 31}
  MaxChunk = 2
  MaxMessage = 6
  N = 2
INVARIANTS
  PayloadsArriveWhole
