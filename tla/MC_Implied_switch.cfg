\* Switch statements after an if-statement: every case label and the
\* default filter the raw slist through the merge histories, the arms are
\* merged at their breaks, and conditions follow the switch.
CONSTANTS
  x = x
  y = y
  Vars = {x, y}
  VarOrder <- MCVarOrder
  Vals = {0, 1}
  AssignVals = {1}
  Consts = {1}
  Ops = {"=="}
  CaseVals = {0, 1}
  Faults = {}
  Sides = {1}
  MaxChildren = 3
  MaxStmts = 4
  MaxPools = 6
  MaxDepth = 1
SPECIFICATION Spec
INVARIANT TypeOK
INVARIANT ImpliedSound
PROPERTY ImpliesBranchValue
CHECK_DEADLOCK FALSE
