SPECIFICATION Spec
CONSTANTS
  Conns = {c1}
  Stmts = {s1, s2, s3}
  Helpers <- FinalizingHelpers
  Rules <- AllRules
  NoStmt = NoStmt
  NoConn = NoConn
  MaxRefs = 2
  MaxDepth = 2
INVARIANTS NoFault NoHandleLeak
PROPERTIES ImplementsSharedHandle
CHECK_DEADLOCK FALSE
