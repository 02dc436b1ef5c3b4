\* ret = PTR_ERR(p) after p = f() for f in kernel.returns_err_ptr.
\* PTR_ERR() is given the error range without an IS_ERR() check.
CONSTANTS
  Checks = {"IS_ERR", "IS_ERR_OR_NULL", "PTR_RET"}
  Ops = {"!=", "<"}
  Consts <- MCConsts
  Errnos <- MCErrnos
  MaxStmts = 7
  MaxDepth = 2
SPECIFICATION Spec
INVARIANT PtrErrSound
CHECK_DEADLOCK FALSE
