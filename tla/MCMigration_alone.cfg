SPECIFICATION Spec
CONSTANTS
  Migrators = {m1}
  Versions = {"1", "001", "2"}
  NoVersion = "NULL"
  StoredAs <- Numbers
  Names <- Untidy
  Paths <- InMigrations
  Parts = 2
  EntryPoints = {"directory", "file", "execute", "undo"}
  Strict = TRUE
  Fragile = {"1", "2"}
  Others = FALSE
  MaxCrashes = 1
  MaxRows = 2
INVARIANTS TypeOK OkMeansMigrated SqlAgreesWithLedger
