\* A kernel build with --info: a value an assignment stores in p
\* (update_mtag_data) comes back from the database as all p can hold.
CONSTANTS
  s = s
  p = p
  u = u
  Locs = {s, p}
  KernelParams = {p}
  Untagged = u
  Values = {0, 1, 2}
  Kernel = TRUE
  Info = TRUE
  MaxStmts = 4
SPECIFICATION Spec
INVARIANT KernelParamIgnored
