---------------------------- MODULE MC_ErrPtrArg ----------------------------
EXTENDS ErrPtrArg

\* whole_range of a 64-bit long long, stood in for by the ends of TLC's
\* integers: the hook only compares a bound with them for equality.
MCWholeMin == -2147483647 - 1
MCWholeMax == 2147483647

\* The bounds either side of the two thresholds of match_err_ptr().
MCPoints == {MCWholeMin, -5001, -4096, -4095, -1, 0, 1, MCWholeMax}
=============================================================================
