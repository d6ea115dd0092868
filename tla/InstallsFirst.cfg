\* The documented order, install before taking back, with one spare buffer.
SPECIFICATION RecyclingSpec
CONSTANTS
  PayloadBits = 3
  FloatBytes = 1
  ValueBits = 8
  FormatMax = 7
  MaxDepth = 2
  Features <- AllFeatures
  Target32 = FALSE
  Buffers <- TwoBuffers
  Size <- TwoSizes
  First = "a"
  Offsets = {0, 1}
  Constructors = {"with_handover"}
  LAZY_SEQ_DEPTH = 1
  FieldInputs <- Short
  SequenceIds = {0, 1}
  MaxMessage = 8
  TakesFirst = FALSE
  HeaderRoom = 1
INVARIANTS
  NeverStarves
