\* if (f() == 1) on fn(), with hooks on [0,0] and [1,2], or on gn(), with
\* database rows for 0 and 1..2: the false side matches both hook groups or
\* both rows.
CONSTANTS
  undef = undef
  Undef <- undef
  Funcs = {"fn", "gn"}
  Checkers <- MCCheckers
  Whole = {0, 1, 2, 3}
  Rows <- MCRows
  Returns = {0, 1, 2}
  NStates = 4
  Ops = {"=="}
  Consts = {1}
  MaxStmts = 6
SPECIFICATION Spec
CHECK_DEADLOCK FALSE
INVARIANT HookStateSound
