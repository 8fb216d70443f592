SPECIFICATION FairSpec
CONSTANTS
  Bindings = {"a", "b", "c", "d"}
  NoBinding = "null"
  Rows <- Long
  BufferLen = 2
  MayFail = TRUE
INVARIANTS TypeOK RowsInOrder FinishedLoopSees BindTakesEffect
PROPERTIES LoopEnds
