----------------------------- MODULE MC_MtagData -----------------------------
(* Two tagged variables, s (a static) and p (a kernel module parameter),   *)
(* an untagged expression u, and the type's values 0..2.                   *)
EXTENDS MtagData

CONSTANTS s, p, u
=============================================================================
