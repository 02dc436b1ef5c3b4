--------------------------- MODULE MC_Constraints ---------------------------
(* Three variables whose symbol order and name order disagree: a and c    *)
(* share a symbol (two members of one struct), b's symbol is later but    *)
(* its name sorts first.                                                   *)
EXTENDS Constraints

CONSTANTS a, b, c

MCSym == (a :> 1) @@ (b :> 2) @@ (c :> 1)
MCName == (a :> 2) @@ (b :> 1) @@ (c :> 3)
=============================================================================
