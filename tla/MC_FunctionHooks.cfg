\* fn() has hooks, gn() has none and goes to the return_implies rows of the
\* fact database: up to seven statements calling either, conditions f() == 0,
\* where each side of the condition matches the ranges of one hook group.
CONSTANTS
  undef = undef
  Undef <- undef
  Funcs = {"fn", "gn"}
  Checkers <- MCCheckers
  Whole = {0, 1, 2, 3}
  Rows <- MCRows
  Returns = {0, 1, 2}
  NStates = 4
  Ops = {"=="}
  Consts = {0}
  MaxStmts = 7
SPECIFICATION Spec
INVARIANT TypeOK
INVARIANT HookStateSound
INVARIANT ExtraSound
CHECK_DEADLOCK FALSE
