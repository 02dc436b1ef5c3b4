\* A kernel build with --info: up to three assignments to s, p or u across
\* files and two runs, and lookups of each in the database of the earlier run.
CONSTANTS
  s = s
  p = p
  u = u
  Locs = {s, p}
  KernelParams = {p}
  Untagged = u
  Values = {0, 1, 2}
  Kernel = TRUE
  Info = TRUE
  MaxStmts = 3
SPECIFICATION Spec
INVARIANT TypeOK
INVARIANT DbDataSound
