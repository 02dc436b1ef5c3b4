\* Up to seven statements in if-statements nested two deep, with both
\* return_implies_state() functions.
CONSTANTS
  Checks = {"IS_ERR", "IS_ERR_OR_NULL", "PTR_RET"}
  Ops = {"!=", "<"}
  Consts <- MCConsts
  Errnos <- MCErrnos
  MaxStmts = 6
  MaxDepth = 2
SPECIFICATION Spec
INVARIANT TypeOK
INVARIANT NoMissedDeref
CHECK_DEADLOCK FALSE
