\* Up to five assignments between three variables with two values.
CONSTANTS
  a = a
  b = b
  c = c
  V = {a, b, c}
  Sym <- MCSym
  Name <- MCName
  Vals = {0, 1}
  MaxSteps = 5
SPECIFICATION Spec
INVARIANT TypeOK
INVARIANT RelatedListsSearchable
INVARIANT EquivSymmetric
INVARIANT EquivValuesEqual
PROPERTY EquivRefinement
CHECK_DEADLOCK FALSE
