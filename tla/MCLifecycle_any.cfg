SPECIFICATION Spec
CONSTANTS
  Conns = {c1}
  Stmts = {s1, s2, s3}
  Helpers <- HelperKinds
  Rules <- NoRules
  NoStmt = NoStmt
  NoConn = NoConn
  MaxRefs = 2
  MaxDepth = 3
SYMMETRY MCSymmetry
INVARIANTS TypeOK RetainCountsAreExact StatementPinsConnection RunningCallIsSafe
CHECK_DEADLOCK FALSE
