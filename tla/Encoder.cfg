\* No sink, one that copies and one that takes, and a caller that swaps too.
SPECIFICATION Spec
CONSTANTS
  PayloadBits = 3
  FloatBytes = 1
  ValueBits = 8
  FormatMax = 7
  MaxDepth = 2
  Features <- AllFeatures
  Target32 = FALSE
  a = a
  b = b
  c = c
  Buffers <- ThreeBuffers
  Size <- Sizes
  First = b
  Offsets = {0, 1}
  Constructors = {"with_offset", "with_flush", "with_handover"}
  LAZY_SEQ_DEPTH = 1
  FieldInputs <- Scalars
  SequenceIds = {0}
  MaxMessage = 4
INVARIANTS
  TypeOK
  NoBufferFullWithASink
PROPERTIES
  KeepsPromise
