\* Two sequential if-statements followed by a condition on a variable both
\* if-statements merged: the history walk of separate_pools reaches the pool
\* of the first join, which does not belong to the path being filtered.
CONSTANTS
  x = x
  y = y
  Vars = {x, y}
  VarOrder <- MCVarOrder
  Vals = {0, 1}
  AssignVals = {1}
  Consts = {1}
  Ops = {"=="}
  CaseVals = {}
  Faults = {}
  Sides = {1}
  MaxChildren = 4
  MaxStmts = 5
  MaxPools = 4
  MaxDepth = 1
SPECIFICATION Spec
INVARIANT ImpliedSound
CHECK_DEADLOCK FALSE
