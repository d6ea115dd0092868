\* The same caller, held to what the README says of every call.
SPECIFICATION RecoverySpec
CONSTANTS
  PayloadBits = 3
  FloatBytes = 1
  ValueBits = 8
  FormatMax = 7
  MaxDepth = 3
  Features <- AllFeatures
  Target32 = FALSE
  Buffers <- ThreeBuffers
  Size <- ThreeSizes
  First = "a"
  Offsets = {0, 1}
  Constructors = {"with_offset"}
  LAZY_SEQ_DEPTH = 2
  FieldInputs <- Short
  SequenceIds = {0, 1}
  MaxMessage = 7
INVARIANTS
  ResumesAtTheCut
CHECK_DEADLOCK FALSE
