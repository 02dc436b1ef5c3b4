---------------------------- MODULE MC_Implied ----------------------------
(* Instantiation of Implied for TLC: two variables, values 0..2.           *)
EXTENDS Implied

CONSTANTS x, y

MCVarOrder == << x, y >>
=============================================================================
