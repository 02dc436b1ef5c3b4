------------------------------ MODULE ErrPtr ------------------------------
(***************************************************************************)
(* The ERR_PTR() dereference checker (check_err_ptr_deref.c) following one *)
(* pointer p through the if-statements of a function.  Its state of p is  *)
(* an sm_state of its own: the state (err_ptr, checked, or merged at a     *)
(* join) and sm->possible, the states of the paths merged into it.         *)
(*   cur     the current path: reachable or not, the sm_state of p (NoSm   *)
(*           if the checker has none) and the range SMATCH_EXTRA gives     *)
(*           ret = PTR_ERR(p)                                              *)
(*   stack   the if-statements open on the current path, with the path    *)
(*           to be taken at the else (then-phase) or the saved then-path  *)
(*   worlds  ghost: the concrete runs that reach the current path: what p *)
(*           points to, whether a warning was given on p since it was     *)
(*           assigned, and the value of ret                                *)
(*   missed  ghost: a dereference of a possible error pointer passed       *)
(*           without a warning                                             *)
(***************************************************************************)
EXTENDS Integers, Sequences, FiniteSets

CONSTANTS
  Checks,      \* the return_implies_state() functions called in conditions
  Ops,         \* the comparison operators: subset of {"==", "!=", "<"}
  Consts,      \* the constants f(p) is compared with
  Errnos,      \* the error codes an ERR_PTR() carries (in -4095..-1)
  MaxStmts,    \* bound on the statements analysed
  MaxDepth     \* bound on the nesting of if-statements

ASSUME Checks \subseteq {"IS_ERR", "IS_ERR_OR_NULL", "PTR_RET"}
ASSUME Ops \subseteq {"==", "!=", "<"} /\ Errnos \subseteq -4095..-1

VARIABLES cur, stack, worlds, missed, stmts
vars == <<cur, stack, worlds, missed, stmts>>

NoSm == [state |-> "none", possible |-> {}]
Sm(s) == [state |-> s, possible |-> {s}]

(***************************************************************************)
(* Helpers of the state store                                              *)
(***************************************************************************)

\* set_state(my_id, p, &s): a fresh sm_state, its own only possible state.
SetState(path, s) == [path EXCEPT !.sm = Sm(s)]

\* Mutant: the merged sm_state keeps only its own state as possible, as a
\* freshly allocated one does.
MergeSmNoPossible(a, b) ==
  IF a = NoSm /\ b = NoSm THEN NoSm
  ELSE Sm(IF a.state = b.state THEN a.state ELSE "merged")

\* merge_sm_states(): the state survives if both sides agree, otherwise it
\* is &merged; possible is the union.  A side without an sm_state of p
\* contributes &undefined.
MergeSm(a, b) ==
  LET ua == IF a = NoSm THEN Sm("undefined") ELSE a
      ub == IF b = NoSm THEN Sm("undefined") ELSE b
  IN IF a = NoSm /\ b = NoSm THEN NoSm
     ELSE [state |-> IF ua.state = ub.state THEN ua.state ELSE "merged",
           possible |-> ua.possible \cup ub.possible]

\* merge_slist() at the end of an if-statement; an unreachable path (after
\* a return) contributes nothing.  SMATCH_EXTRA keeps ret's range only
\* where both paths agree on it.
MergePaths(t, f) ==
  CASE ~t.reach -> f
    [] ~f.reach -> t
    [] OTHER -> [reach |-> TRUE, sm |-> MergeSm(t.sm, f.sm),
                 ret |-> IF t.ret = f.ret THEN t.ret ELSE "any"]

(***************************************************************************)
(* Hooks of the checker                                                    *)
(***************************************************************************)

\* Mutant: the PTR_RET() hooks registered the other way round.
ReturnImpliesSwapped ==
  << [fn |-> "IS_ERR", lo |-> 0, hi |-> 0, state |-> "checked"],
     [fn |-> "IS_ERR", lo |-> 1, hi |-> 1, state |-> "err_ptr"],
     [fn |-> "IS_ERR_OR_NULL", lo |-> 0, hi |-> 0, state |-> "checked"],
     [fn |-> "IS_ERR_OR_NULL", lo |-> 1, hi |-> 1, state |-> "err_ptr"],
     [fn |-> "PTR_RET", lo |-> -4096, hi |-> -1, state |-> "err_ptr"],
     [fn |-> "PTR_RET", lo |-> 0, hi |-> 0, state |-> "checked"] >>

\* check_err_ptr_deref(): the return_implies_state() registrations, in
\* order: match_checked() for the range meaning "not an error pointer",
\* match_err() for the range meaning "an error pointer".
ReturnImplies ==
  << [fn |-> "IS_ERR", lo |-> 0, hi |-> 0, state |-> "checked"],
     [fn |-> "IS_ERR", lo |-> 1, hi |-> 1, state |-> "err_ptr"],
     [fn |-> "IS_ERR_OR_NULL", lo |-> 0, hi |-> 0, state |-> "checked"],
     [fn |-> "IS_ERR_OR_NULL", lo |-> 1, hi |-> 1, state |-> "err_ptr"],
     [fn |-> "PTR_RET", lo |-> 0, hi |-> 0, state |-> "checked"],
     [fn |-> "PTR_RET", lo |-> -4096, hi |-> -1, state |-> "err_ptr"] >>

Holds(op, a, b) ==
  CASE op = "==" -> a = b [] op = "!=" -> a # b [] op = "<" -> a < b

\* ok_to_use(): the modification hook, called for p's sm_state if any.
OkToUse(path) ==
  IF path.sm # NoSm /\ path.sm.state # "checked" THEN SetState(path, "checked")
  ELSE path

\* Mutant: check_is_err_ptr() testing sm->state instead of sm->possible.
WarnsOnState(path) == path.sm # NoSm /\ path.sm.state = "err_ptr"

\* check_is_err_ptr(): warn if err_ptr is among the possible states.
WarnsOn(path) == path.sm # NoSm /\ "err_ptr" \in path.sm.possible

\* The value PTR_ERR(p) has for a run where p points to v.
PtrErr(v) == CASE v = "err" -> "errno" [] v = "null" -> "zero" [] OTHER -> "big"

(***************************************************************************)
(* Actions                                                                 *)
(***************************************************************************)
Step ==
  /\ cur.reach
  /\ stmts < MaxStmts
  /\ stmts' = stmts + 1

\* The runs after p is assigned a value of vs: an error pointer carries
\* one of Errnos.
Assigned(vs) ==
  UNION {{[w EXCEPT !.p = v, !.e = e, !.warned = FALSE] :
            e \in IF v = "err" THEN Errnos ELSE {0}} : w \in worlds, v \in vs}

\* p = f() for f in kernel.returns_err_ptr: the modification hook runs,
\* then match_returns_err_ptr() sets err_ptr.  f returns an ERR_PTR() or
\* a valid pointer.
AssignErrFunc ==
  /\ Step
  /\ cur' = SetState(OkToUse(cur), "err_ptr")
  /\ worlds' = Assigned({"err", "valid"})
  /\ UNCHANGED <<stack, missed>>

\* p = q for anything the checker does not follow: only ok_to_use().
AssignOther ==
  /\ Step
  /\ cur' = OkToUse(cur)
  /\ worlds' = Assigned({"null", "valid"})
  /\ UNCHANGED <<stack, missed>>

\* ret = PTR_ERR(p): match_ptr_err() gives ret the range -4095..-1 when
\* p's state is err_ptr; otherwise ret's range is not known.
AssignPtrErr ==
  /\ Step
  /\ cur' = [cur EXCEPT !.ret = IF cur.sm.state = "err_ptr" THEN "errno" ELSE "any"]
  /\ worlds' = {[w EXCEPT !.ret = PtrErr(w.p)] : w \in worlds}
  /\ UNCHANGED <<stack, missed>>

\* *p: match_dereferences() and check_is_err_ptr(); a warning sets the
\* state to checked.
Deref ==
  /\ Step
  /\ \/ /\ WarnsOn(cur)
        /\ cur' = SetState(cur, "checked")
        /\ worlds' = {[w EXCEPT !.warned = TRUE] : w \in worlds}
        /\ UNCHANGED missed
     \/ /\ ~WarnsOn(cur)
        /\ missed' = (missed \/ \E w \in worlds : w.p = "err" /\ ~w.warned)
        /\ UNCHANGED <<cur, worlds>>
  /\ UNCHANGED stack

\* Opening an if-statement: the true path becomes current and the false
\* path is kept for the else.
Branch(tpath, tworlds, fpath, fworlds) ==
  /\ Step
  /\ Len(stack) < MaxDepth
  /\ cur' = tpath
  /\ worlds' = tworlds
  /\ stack' = Append(stack, [phase |-> "then", other |-> fpath, otherWorlds |-> fworlds])
  /\ UNCHANGED missed

\* The value f(p) returns on a run.
Returns(f, w) ==
  CASE f = "IS_ERR" -> IF w.p = "err" THEN 1 ELSE 0
    [] f = "IS_ERR_OR_NULL" -> IF w.p \in {"err", "null"} THEN 1 ELSE 0
    [] f = "PTR_RET" -> IF w.p = "err" THEN w.e ELSE 0

\* true_comparison_range_lr() and false_comparison_range_lr() for
\* f(p) op c against the range lo..hi a hook is registered for.
RangeTrue(op, h, c) ==
  CASE op = "==" -> h.lo <= c /\ c <= h.hi
    [] op = "!=" -> ~(h.lo = c /\ h.hi = c)
    [] op = "<" -> h.lo < c
RangeFalse(op, h, c) ==
  CASE op = "==" -> ~(h.lo = c /\ h.hi = c)
    [] op = "!=" -> h.lo <= c /\ c <= h.hi
    [] op = "<" -> h.hi >= c

\* call_implies_callbacks() on one side: the RANGED_CALL hooks of f whose
\* range can make the comparison come out on that side run, in the order
\* they were registered, in one fake slist; the last state set in it is
\* what the side gets.  With none, p is left alone.
CallImplies(path, f, op, c, side) ==
  LET hs == SelectSeq(ReturnImplies, LAMBDA h :
              h.fn = f /\ IF side THEN RangeTrue(op, h, c) ELSE RangeFalse(op, h, c))
  IN IF hs = << >> THEN path ELSE SetState(path, hs[Len(hs)].state)

\* if (f(p) op c) for f in IS_ERR, IS_ERR_OR_NULL, PTR_RET (if (IS_ERR(p))
\* is IS_ERR(p) != 0): the return_implies_state() hooks set p's state on
\* each side; match_condition() finds no state for the call itself.
CallCond(f, op, c) ==
  Branch(CallImplies(cur, f, op, c, TRUE), {w \in worlds : Holds(op, Returns(f, w), c)},
         CallImplies(cur, f, op, c, FALSE), {w \in worlds : ~Holds(op, Returns(f, w), c)})

\* if (p): match_condition() sets checked on the false side if p has a
\* state; the true side is left alone.
TruthCond ==
  LET f == IF cur.sm # NoSm THEN SetState(cur, "checked") ELSE cur
  IN Branch(cur, {w \in worlds : w.p # "null"}, f, {w \in worlds : w.p = "null"})

\* if (bar) on anything else.
OpaqueCond == Branch(cur, worlds, cur, worlds)

\* return: the current path ends.
Return ==
  /\ Step
  /\ cur' = [cur EXCEPT !.reach = FALSE]
  /\ worlds' = {}
  /\ UNCHANGED <<stack, missed>>

\* else: the then-path is saved, the false path becomes current.
Else ==
  /\ stack # << >>
  /\ stack[Len(stack)].phase = "then"
  /\ cur' = stack[Len(stack)].other
  /\ worlds' = stack[Len(stack)].otherWorlds
  /\ stack' = [stack EXCEPT ![Len(stack)] =
                 [phase |-> "else", other |-> cur, otherWorlds |-> worlds]]
  /\ UNCHANGED <<missed, stmts>>

\* end of the if-statement.
Join ==
  /\ stack # << >>
  /\ stack[Len(stack)].phase = "else"
  /\ cur' = MergePaths(stack[Len(stack)].other, cur)
  /\ worlds' = stack[Len(stack)].otherWorlds \cup worlds
  /\ stack' = SubSeq(stack, 1, Len(stack) - 1)
  /\ UNCHANGED <<missed, stmts>>

Init ==
  /\ cur = [reach |-> TRUE, sm |-> NoSm, ret |-> "any"]
  /\ stack = << >>
  /\ worlds = {[p |-> v, e |-> 0, warned |-> FALSE, ret |-> "unknown"] : v \in {"null", "valid"}}
  /\ missed = FALSE
  /\ stmts = 0

Next ==
  \/ AssignErrFunc \/ AssignOther \/ AssignPtrErr \/ Deref
  \/ \E f \in Checks, op \in Ops, c \in Consts : CallCond(f, op, c)
  \/ TruthCond \/ OpaqueCond \/ Return
  \/ Else \/ Join

Spec == Init /\ [][Next]_vars

(***************************************************************************)
(* Properties                                                              *)
(***************************************************************************)
State == {"err_ptr", "checked", "merged", "undefined", "none"}
Path == [reach : BOOLEAN,
         sm : [state : State, possible : SUBSET {"err_ptr", "checked", "undefined"}],
         ret : {"any", "errno"}]
World == [p : {"err", "null", "valid"}, e : Errnos \cup {0}, warned : BOOLEAN,
          ret : {"unknown", "errno", "zero", "big"}]

TypeOK ==
  /\ cur \in Path
  /\ worlds \subseteq World
  /\ \A i \in 1..Len(stack) :
       stack[i].phase \in {"then", "else"} /\ stack[i].other \in Path
  /\ missed \in BOOLEAN
  /\ stmts \in 0..MaxStmts

(* No ERR_PTR() dereference goes unreported: whenever *p is reached by a  *)
(* run in which p holds an error pointer from a kernel.returns_err_ptr    *)
(* function, the checker warns there or warned on that run since p was   *)
(* assigned, across the merges of the possible states at every join.      *)
NoMissedDeref == ~missed

(* PTR_ERR(p) is given the range -4095..-1 only where p is an error       *)
(* pointer on every run reaching that point (match_ptr_err()).            *)
PtrErrSound ==
  cur.ret = "errno" => \A w \in worlds : w.ret = "errno"
=============================================================================
