-------------------------- MODULE MC_FunctionHooks --------------------------
(* fn() and gn() return 0, 1 or 2; x's type holds 0..3.  Three checkers   *)
(* register, in any order:                                                *)
(*  A: return_implies_state("fn", 0, 0, h1) setting state 1;              *)
(*     add_function_hook("fn", h5) setting state 0;                       *)
(*  B: return_implies_state("fn", 1, 2, h2) advancing the state;          *)
(*     add_function_assign_hook("fn", h3) advancing the state;            *)
(*     return_implies_state("fn", 0, 0, h4) advancing the state;          *)
(*  C: add_macro_assign_hook("fn", h6) setting state 2;                   *)
(*     add_db_return_implies_callback(1, ...) setting state 2;            *)
(*     add_db_return_implies_callback(2, ...) advancing the state.        *)
(* gn() has no hooks.  The database has rows for both with the return    *)
(* values 0 (a fact type no handler is registered for) and 1..2           *)
(* (advancing the state).                                                 *)
EXTENDS FunctionHooks

CONSTANTS undef

Reg(call, fn, range, kind, val) ==
  [call |-> call, fn |-> fn, range |-> range, kind |-> kind, val |-> val, type |-> 0]
DbReg(type, kind, val) ==
  [call |-> "add_db_return_implies_callback", fn |-> "", range |-> {},
   kind |-> kind, val |-> val, type |-> type]

CheckerA == << Reg("return_implies_state", "fn", {0}, "set", 1),
               Reg("add_function_hook", "fn", {}, "set", 0) >>
CheckerB == << Reg("return_implies_state", "fn", {1, 2}, "next", 0),
               Reg("add_function_assign_hook", "fn", {}, "next", 0),
               Reg("return_implies_state", "fn", {0}, "next", 0) >>
CheckerC == << Reg("add_macro_assign_hook", "fn", {}, "set", 2),
               DbReg(1, "set", 2),
               DbReg(2, "next", 0) >>

MCCheckers == {CheckerA, CheckerB, CheckerC}

FnRows ==
  << [ret |-> {0},    type |-> 3, kind |-> "set", val |-> 0],
     [ret |-> {1, 2}, type |-> 2, kind |-> "set", val |-> 0] >>

MCRows == [f \in {"fn", "gn"} |-> FnRows]

\* Registered ranges are equal or disjoint and cover what fn() returns;
\* so do the database rows.
Ranged == {r \in UNION {ToSet(c) : c \in MCCheckers} : r.call = "return_implies_state"}
ASSUME \A h1, h2 \in Ranged : h1.range = h2.range \/ h1.range \cap h2.range = {}
ASSUME UNION {h.range : h \in Ranged} = {0, 1, 2}
ASSUME UNION {row.ret : row \in ToSet(FnRows)} = {0, 1, 2}
=============================================================================
