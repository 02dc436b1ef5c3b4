\* One merge before the condition: nested if-statements, conditions inside
\* branches, but at most one join (two pools).
CONSTANTS
  x = x
  y = y
  Vars = {x, y}
  VarOrder <- MCVarOrder
  Vals = {0, 1, 2}
  AssignVals = {2}
  Consts = {1}
  Ops = {"<"}
  CaseVals = {}
  Faults = {"oom", "timeout"}
  Sides = {0, 1}
  MaxChildren = 4
  MaxStmts = 6
  MaxPools = 2
  MaxDepth = 2
SPECIFICATION Spec
INVARIANT ImpliedSound
PROPERTY ImpliesBranchValue
CHECK_DEADLOCK FALSE
INVARIANT GetImplicationsSound
