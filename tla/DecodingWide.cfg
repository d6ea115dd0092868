\* Every message of up to 5 bytes over the wide alphabet, every feature on.
SPECIFICATION HistorySpec
CONSTANTS
  PayloadBits = 4
  FloatBytes = 1
  ValueBits = 10
  FormatMax = 3
  MaxDepth = 2
  Features <- AllFeatures
  Target32 = TRUE
  Input <- WideInput
  PayloadInput = {0, 31}
  MaxChunk = 3
  MaxMessage = 5
INVARIANTS
  EventsAreTheMessages
  VerdictIsTheMessages
