SPECIFICATION Spec
CONSTANTS
  Bindings = {"a", "b", "c", "d"}
  NoBinding = "null"
  Rows <- Long
  BufferLen = 2
  MayFail = FALSE
INVARIANTS NoMutation
