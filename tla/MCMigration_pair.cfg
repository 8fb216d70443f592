SPECIFICATION RunningSpec
CONSTANTS
  Migrators = {m1, m2}
  Versions = {"1", "2"}
  NoVersion = "NULL"
  StoredAs <- Themselves
  Names <- TwoUps
  Paths <- None
  Parts = 2
  EntryPoints = {"directory"}
  Strict = TRUE
  Fragile = {"1", "2"}
  Others = TRUE
  MaxCrashes = 1
  MaxRows = 2
INVARIANTS LedgerIsTrue
PROPERTIES RunsReturn
