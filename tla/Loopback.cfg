\* Two fields of any writers, in sequences, through a two-byte window.
SPECIFICATION LoopSpec
CONSTANTS
  PayloadBits = 3
  FloatBytes = 2
  ValueBits = 8
  FormatMax = 127
  MaxDepth = 2
  Features <- AllFeatures
  Target32 = FALSE
  Buffers <- OneBuffer
  Size <- TwoBytes
  First = "a"
  Offsets = {0}
  Constructors = {"with_flush"}
  LAZY_SEQ_DEPTH = 1
  FieldInputs <- EveryWriter
  SequenceIds = {1}
  MaxMessage = 9
  MaxChunk = 2
INVARIANTS
  Arrives
  ReceiverClean
  ReadsBack
