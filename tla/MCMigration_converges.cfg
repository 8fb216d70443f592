SPECIFICATION RestartingSpec
CONSTANTS
  Migrators = {m1}
  Versions = {"1", "001", "2"}
  NoVersion = "NULL"
  StoredAs <- Numbers
  Names <- Undoable
  Paths <- None
  Parts = 2
  EntryPoints = {"directory"}
  Strict = FALSE
  Fragile = {}
  Others = FALSE
  MaxCrashes = 2
  MaxRows = 2
INVARIANTS NothingElseIsLeftOut
PROPERTIES EventuallyMigrated
