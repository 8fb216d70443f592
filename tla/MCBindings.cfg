SPECIFICATION Spec
CONSTANTS
  Queries <- MCQueries
  NoName <- Anonymous
  Keys <- MCKeys
  Good = {"v"}
  Unsupported = {"set"}
  TooBig = {"huge"}
  Null = "null"
  Columns = {"name", "surname"}
  MaxLen = 2
INVARIANTS TypeOK
PROPERTIES ArrayIsBoundUpToFailure DictionaryLeavesNothingStale OneShotRunsWithWhatItWasGiven InsertStoresTheDictionary ErrorsAreTheLastCalls
