\* Cuts anywhere, calls made again or given up.  The caller stops when it has no
\* buffer left or the message is as long as it may get.
SPECIFICATION RecoverySpec
CONSTANTS
  PayloadBits = 3
  FloatBytes = 1
  ValueBits = 8
  FormatMax = 7
  MaxDepth = 3
  Features <- AllFeatures
  Target32 = FALSE
  Buffers <- ThreeBuffers
  Size <- ThreeSizes
  First = "a"
  Offsets = {0, 1}
  Constructors = {"with_offset"}
  LAZY_SEQ_DEPTH = 2
  FieldInputs <- Short
  SequenceIds = {0, 1}
  MaxMessage = 7
INVARIANTS
  HeldBackAreOpen
  ResumesUnlessOpening
PROPERTIES
  KeepsPromise
CHECK_DEADLOCK FALSE
