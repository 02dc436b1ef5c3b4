---------------------------- MODULE EquivClasses ----------------------------
(***************************************************************************)
(* What the constraint tracker promises (smatch_constraints.c, the comment *)
(* of set_equiv() and remove_from_equiv()): the variables known to be     *)
(* equal form a partition of the variables, an assignment l = r moves l   *)
(* into r's class, and any other modification of v takes v out of its     *)
(* class.  Variables in one class hold one value.                          *)
(*   cls  cls[v]: the class of v (v itself when v is related to nothing)   *)
(*   val  the concrete value of each variable                              *)
(***************************************************************************)
EXTENDS FiniteSets

CONSTANTS V, Vals

VARIABLES cls, val
vars == <<cls, val>>

Init ==
  /\ cls = [v \in V |-> {v}]
  /\ val \in [V -> Vals]

\* l = r: l leaves its class and joins r's.
Assign(l, r) ==
  LET C == cls[r] \cup {l}
  IN /\ cls' = [x \in V |-> IF x \in C THEN C ELSE cls[x] \ {l}]
     /\ val' = [val EXCEPT ![l] = val[r]]

\* v = c: v is related to nothing any more.
Modify(v, c) ==
  /\ cls' = [x \in V |-> IF x = v THEN {v} ELSE cls[x] \ {v}]
  /\ val' = [val EXCEPT ![v] = c]

Next ==
  \/ \E l, r \in V : Assign(l, r)
  \/ \E v \in V, c \in Vals : Modify(v, c)

Spec == Init /\ [][Next]_vars

=============================================================================
