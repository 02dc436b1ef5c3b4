\* ERR_PTR(x) for x merged from up to two paths, each with one range whose
\* bounds lie either side of -4095 and 0 or at the ends of whole_range.
CONSTANTS
  WholeMin <- MCWholeMin
  WholeMax <- MCWholeMax
  Points <- MCPoints
SPECIFICATION Spec
INVARIANT ErrPtrArgReported
CHECK_DEADLOCK FALSE
