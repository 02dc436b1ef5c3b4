------------------------------ MODULE MC_ErrPtr ------------------------------
EXTENDS ErrPtr

\* PTR_RET(p) compared with 0 and with an error code between the two an
\* ERR_PTR() may carry.
MCConsts == {0, -5}
MCErrnos == {-12, -1}
=============================================================================
