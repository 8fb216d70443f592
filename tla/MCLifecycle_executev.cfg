SPECIFICATION Spec
CONSTANTS
  Conns = {c1}
  Stmts = {s1, s2}
  Helpers <- OnlyExecutev
  Rules <- AllRules
  NoStmt = NoStmt
  NoConn = NoConn
  MaxRefs = 2
  MaxDepth = 2
INVARIANTS FreedStatementIsFinalized
CHECK_DEADLOCK FALSE
