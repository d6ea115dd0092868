\* A blob longer than a length word of the value type can say.
SPECIFICATION TripSpec
CONSTANTS
  PayloadBits = 3
  FloatBytes = 2
  ValueBits = 8
  FormatMax = 127
  MaxDepth = 3
  Features <- AllFeatures
  Target32 = FALSE
  Buffers <- OneBuffer
  Size <- FiftyBytes
  First = "a"
  Offsets = {0}
  Constructors = {"with_flush"}
  LAZY_SEQ_DEPTH = 2
  FieldInputs <- LongBlob
  SequenceIds = {}
  MaxMessage = 36
INVARIANTS
  ReadsBack
