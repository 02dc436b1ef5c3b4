\* The self-assignment a = a on a variable that has no relations.
CONSTANTS
  a = a
  b = b
  c = c
  V = {a, b, c}
  Sym <- MCSym
  Name <- MCName
  Vals = {0, 1}
  MaxSteps = 2
SPECIFICATION Spec
CHECK_DEADLOCK FALSE
INVARIANT NoSingletonClass
