\* Chunks of anything in any order.
SPECIFICATION SourceSpec
CONSTANTS
  N = 3
  Chunks <- SmallChunks
  MaxTotal = 4
INVARIANTS
  NeverSpliced
PROPERTIES
  HandedBackOnce
  RefusedHoweverTorn
