SPECIFICATION Spec
CONSTANTS
  WideLimit = 32
  NarrowLimit = 4
  Steps <- PowersOfTwo
  Mantissa = 16
  Digits = 8
  Overflow = 31
  Epoch = 2
  Words = {"abc", "zeros", "hex", "nan", "day", "tail", "bad"}
  Meaning <- SomeMeaning
  Data = {"empty", "bytes"}
  Empty = "empty"
  Columns = {"none", "numeric", "text"}
  Givens <- Objects
  MaxDrift = 3
INVARIANTS TypeOK CopiesKeepTheObject NumbersSurvive DatesDrift
