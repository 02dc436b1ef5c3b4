--------------------------- MODULE FunctionHooks ---------------------------
(***************************************************************************)
(* The event dispatcher and the interprocedural fact store of smatch       *)
(* (smatch_function_hooks.c), seen through one checker state: the state   *)
(* `lock` that the hooks registered for the functions called set.  Some   *)
(* functions have hooks; for the others the fact database answers.        *)
(*                                                                         *)
(* A hook is a record [type, range, kind, val]: its handler either sets   *)
(* the state to val (kind "set") or advances the state it reads (kind     *)
(* "next": a counter modulo NStates).  A return_implies row of the fact   *)
(* database is [ret, type, kind, val]: when f() returns a value in ret,   *)
(* the database handlers of that type run with the row.  Every checker    *)
(* registers its hooks at start-up, in an order the checker table fixes   *)
(* and this file does not; then the analysis of x = f(), f() and          *)
(* if (f() op c) begins.                                                  *)
(*   lock    the checker's state on the current path: a set of values, or *)
(*           Undef (merged with a path that never set it)                  *)
(*   worlds  ghost: the concrete values of the state on the paths that    *)
(*           reach this point (each call picks its return value)          *)
(*   extra   the range SMATCH_EXTRA gives the assigned variable x         *)
(*   xvals   ghost: the values x can hold                                  *)
(***************************************************************************)
EXTENDS Integers, Sequences, FiniteSets, SequencesExt

CONSTANTS
  Funcs,       \* the functions called
  Checkers,    \* each checker's registration calls, in program order
  Rows,        \* Rows[f]: the return_implies rows of f, in SQL's order
  Whole,       \* the values of x's type
  Returns,     \* the values a function can return
  NStates,     \* checker states are 0..NStates-1
  Ops,         \* comparison operators: subset of {"==", "!=", "<"}
  Consts,      \* the constants fn() is compared with
  Undef,       \* the state of a path that never set the variable
  MaxStmts     \* bound on the number of statements analysed

States == 0..(NStates - 1)
LEFT == 1
RIGHT == 0

ASSUME Undef \notin States
ASSUME DOMAIN Rows = Funcs /\ Returns \subseteq Whole

VARIABLES
  callbacks,   \* func_hash: callbacks[f] is what search_callback returns
  dbImplies,   \* db_implies_list: the database handlers, [type, kind, val]
  pending,     \* the checkers whose register function has not run yet
  lock, worlds, stmts, extra, xvals
vars == <<callbacks, dbImplies, pending, lock, worlds, stmts, extra, xvals>>

(***************************************************************************)
(* Value domain and handlers                                               *)
(***************************************************************************)
Holds(op, a, b) ==
  CASE op = "==" -> a = b
    [] op = "!=" -> a # b
    [] op = "<"  -> a < b

HoldsLR(op, a, c, left) == IF left = LEFT THEN Holds(op, a, c) ELSE Holds(op, c, a)

\* true_comparison_range_lr / possibly_true_range_lists_rl and their
\* false counterparts: some value of R makes (fn() op c) true / false.
PossiblyTrue(op, R, c, left) == \E a \in R : HoldsLR(op, a, c, left)
PossiblyFalse(op, R, c, left) == \E a \in R : ~HoldsLR(op, a, c, left)

\* One handler run on the abstract state S (it reads get_state()).
Apply(h, S) ==
  IF h.kind = "set" THEN {h.val}
  ELSE {IF s = Undef THEN Undef ELSE (s + 1) % NStates : s \in S}

\* The same handler on one concrete value.
ApplyC(h, v) == IF h.kind = "set" THEN h.val ELSE (v + 1) % NStates

\* Handlers run one after the other in one slist: each reads what the
\* previous one set.
ApplyAll(hs, S) == FoldLeft(LAMBDA acc, h : Apply(h, acc), S, hs)
ApplyAllC(hs, v) == FoldLeft(LAMBDA acc, h : ApplyC(h, acc), v, hs)

(***************************************************************************)
(* Scratch slists.  __push_fake_cur_slist() starts recording the states   *)
(* set; reads still see them; __pop_fake_cur_slist() returns what was set *)
(* and restores the slist of before the push.  A popped slist records     *)
(* whether it holds any state at all (nonnull), whether it holds `lock`,  *)
(* lock's value there, and x's range there ({} when x was not set).       *)
(***************************************************************************)
NullSlist == [nonnull |-> FALSE, set |-> FALSE, lock |-> {}, x |-> {}]

\* The slist popped after the handlers hs ran on S and x was given xr.
Fake(hs, S, xr) ==
  [nonnull |-> hs # << >> \/ xr # {}, set |-> hs # << >>,
   lock |-> IF hs = << >> THEN {} ELSE ApplyAll(hs, S), x |-> xr]

\* A state on one side of a merge only is merged with the undefined state:
\* Undef for the checker, the whole range for SMATCH_EXTRA.
MergeState(a, b, undef) ==
  IF a = {} /\ b = {} THEN {} ELSE IF a = {} \/ b = {} THEN a \cup b \cup undef ELSE a \cup b

\* merge_slist(&to, slist): merging with a NULL slist gives the other one.
MergeSlist(to, sl) ==
  CASE ~to.nonnull -> sl
    [] ~sl.nonnull -> to
    [] OTHER -> [nonnull |-> TRUE, set |-> to.set \/ sl.set,
                 lock |-> MergeState(to.lock, sl.lock, {Undef}),
                 x |-> MergeState(to.x, sl.x, Whole)]

\* Mutant: the popped slist installed whether or not it holds the state.
InstallAlways(sl) == sl.lock

\* The FOR_EACH_PTR(..., sm) __set_sm / __set_true_false_sm loop over a
\* popped slist: the current path takes lock's state if the slist has one.
Install(sl) == IF sl.set THEN sl.lock ELSE lock

\* The same loop for x: x takes the merged range if the slist holds x.
InstallX(sl, before) == IF sl.x # {} THEN sl.x ELSE before

MergeAll(sls) == FoldLeft(MergeSlist, NullSlist, sls)

(***************************************************************************)
(* Registration.  A registration call is a record: call is the function   *)
(* called, fn the function hooked, and the hook's range, kind and val (or *)
(* for add_db_return_implies_callback the fact type).                     *)
(***************************************************************************)
CallType == [add_function_hook |-> "REGULAR", add_function_assign_hook |-> "ASSIGN",
             add_macro_assign_hook |-> "MACRO", return_implies_state |-> "RANGED"]

\* One call: alloc_fcall_back + add_callback appends to the list of fn;
\* add_db_return_implies_callback appends to db_implies_list.
RegisterCall(st, r) ==
  IF r.call = "add_db_return_implies_callback"
  THEN [st EXCEPT !.db = Append(@, [type |-> r.type, kind |-> r.kind, val |-> r.val])]
  ELSE [st EXCEPT !.cb[r.fn] = Append(@, [type |-> CallType[r.call], range |-> r.range,
                                          kind |-> r.kind, val |-> r.val])]

(***************************************************************************)
(* Callback lists                                                          *)
(***************************************************************************)

\* The entries of f of one type, in registration order.
OfType(f, t) == SelectSeq(callbacks[f], LAMBDA h : h.type = t)

\* get_same_ranged_call_backs(call_backs, range).
GetSameRangedCallBacks(f, R) ==
  SelectSeq(callbacks[f], LAMBDA h : h.type = "RANGED" /\ h.range = R)

\* The ranges assign_ranged_funcs() handles, in the order it meets them
\* (in_list_exact(handled_ranges, ...) skips a range met before).
HandledRanges(f) ==
  LET cb == callbacks[f]
      first(i) == /\ cb[i].type = "RANGED"
                  /\ \A j \in 1..(i - 1) : ~(cb[j].type = "RANGED" /\ cb[j].range = cb[i].range)
      idx == SelectSeq([i \in 1..Len(cb) |-> i], first)
  IN [k \in 1..Len(idx) |-> cb[idx[k]].range]

\* What return_implies_state() promises: when f() returns r, the handlers
\* registered for a range holding r have run.
RangedTruth(f, r, v) ==
  ApplyAllC(SelectSeq(callbacks[f], LAMBDA h : h.type = "RANGED" /\ r \in h.range), v)

\* The database handlers a row runs (db_implies_list entries of its type).
DbHandlers(row) == SelectSeq(dbImplies, LAMBDA d : d.type = row.type)

(***************************************************************************)
(* Actions                                                                 *)
(***************************************************************************)

\* create_function_hook_hash() made the table; a checker's register
\* function makes its registration calls in order, one checker at a time.
RegisterChecker(c) ==
  /\ c \in pending
  /\ \E st \in {FoldLeft(RegisterCall, [cb |-> callbacks, db |-> dbImplies], c)} :
       /\ callbacks' = st.cb
       /\ dbImplies' = st.db
  /\ pending' = pending \ {c}
  /\ UNCHANGED <<lock, worlds, stmts, extra, xvals>>

\* A statement of the analysis, after every checker has registered.
Step == /\ pending = {}
        /\ stmts < MaxStmts
        /\ stmts' = stmts + 1
        /\ UNCHANGED <<callbacks, dbImplies, pending>>

\* call_call_backs(call_backs, type, fn, expr) on the current slist.
CallCallBacks(f, t) ==
  /\ lock' = ApplyAll(OfType(f, t), lock)
  /\ worlds' = {ApplyAllC(OfType(f, t), v) : v \in worlds}

\* match_function_call(): fn(); runs the REGULAR_CALL hooks.
MatchFunctionCall(f) ==
  /\ Step
  /\ callbacks[f] # << >>
  /\ CallCallBacks(f, "REGULAR")
  /\ UNCHANGED <<extra, xvals>>

\* match_macro_assign(): x = MACRO(); runs the MACRO_ASSIGN hooks.
MatchMacroAssign(f) ==
  /\ Step
  /\ callbacks[f] # << >>
  /\ CallCallBacks(f, "MACRO")
  /\ UNCHANGED <<extra, xvals>>

\* Mutant: alloc_estate_range(tmp->range->min, tmp->range->min).
EstateRangeMin(R) == Min(R)..Min(R)

\* alloc_estate_range(tmp->range->min, tmp->range->max).
EstateRange(R) == Min(R)..Max(R)

\* Mutant: every ranged hook run in one scratch slist.
AssignRangedFuncsShared(f, S) ==
  MergeAll(<< Fake(OfType(f, "RANGED"), S, UNION {EstateRange(h.range) : h \in ToSet(OfType(f, "RANGED"))}) >>)

\* assign_ranged_funcs(): one scratch slist per distinct range, in which
\* that range's handlers run and set_extra_mod gives x the range; the
\* scratch slists are merged and the result installed.
AssignRangedFuncs(f, S) ==
  MergeAll([k \in DOMAIN HandledRanges(f) |->
              Fake(GetSameRangedCallBacks(f, HandledRanges(f)[k]), S,
                   EstateRange(HandledRanges(f)[k]))])

\* db_assign_callback() for one row: its handlers run and
\* set_extra_expr_mod gives x the row's return range, in a scratch slist.
DbAssignCallback(row, S) == Fake(DbHandlers(row), S, row.ret)

\* Mutant: each row's scratch slist replaces the result instead of being
\* merged into it.
DbReturnImpliesAssignLast(f) ==
  \E sl \in {IF Rows[f] = << >> THEN NullSlist ELSE DbAssignCallback(Last(Rows[f]), lock)} :
    /\ lock' = Install(sl)
    /\ extra' = InstallX(sl, Whole)
    /\ worlds' = IF Rows[f] = << >> THEN worlds
                 ELSE {ApplyAllC(DbHandlers(row), v) : v \in worlds, row \in ToSet(Rows[f])}

\* db_return_implies_assign(): the scratch slists of all rows merged.
DbReturnImpliesAssign(f) ==
  \E sl \in {MergeAll([i \in DOMAIN Rows[f] |-> DbAssignCallback(Rows[f][i], lock)])} :
    /\ lock' = Install(sl)
    /\ extra' = InstallX(sl, Whole)
    /\ worlds' = IF Rows[f] = << >> THEN worlds
                 ELSE {ApplyAllC(DbHandlers(row), v) : v \in worlds, row \in ToSet(Rows[f])}

\* match_assign_call(): x = fn().  SMATCH_EXTRA has given x the whole
\* range of its type.  Without hooks, the fact database; otherwise the
\* ASSIGN_CALL hooks on the current slist, then the ranged ones.
MatchAssignCall(f) ==
  /\ Step
  /\ xvals' = Returns
  /\ IF callbacks[f] = << >> THEN DbReturnImpliesAssign(f)
     ELSE \E S1 \in {ApplyAll(OfType(f, "ASSIGN"), lock)} :
          \E sl \in {AssignRangedFuncs(f, S1)} :
             /\ lock' = IF sl.set THEN sl.lock ELSE S1
             /\ extra' = InstallX(sl, Whole)
             /\ worlds' = {RangedTruth(f, r, ApplyAllC(OfType(f, "ASSIGN"), v)) :
                             v \in worlds, r \in Returns}

\* call_implies_callbacks(): one scratch slist for the true side, in which
\* every ranged hook whose range can make the comparison true runs, and
\* one for the false side.
CallImpliesCallbacks(f, op, c, left, side) ==
  LET hs == SelectSeq(callbacks[f], LAMBDA h :
              /\ h.type = "RANGED"
              /\ IF side THEN PossiblyTrue(op, h.range, c, left)
                 ELSE PossiblyFalse(op, h.range, c, left))
  IN /\ lock' = Install(MergeSlist(NullSlist, Fake(hs, lock, {})))
     /\ worlds' = {RangedTruth(f, r, v) :
                     v \in worlds, r \in {x \in Returns : HoldsLR(op, x, c, left) = side}}

\* compare_db_implies_callbacks(): one scratch slist per side, in which
\* db_compare_callback() runs the handlers of every row whose return range
\* can make the comparison come out on that side.
CompareDbImpliesCallbacks(f, op, c, left, side) ==
  LET rows == SelectSeq(Rows[f], LAMBDA row :
                IF side THEN PossiblyTrue(op, row.ret, c, left)
                ELSE PossiblyFalse(op, row.ret, c, left))
      hs == FoldLeft(LAMBDA acc, row : acc \o DbHandlers(row), << >>, rows)
  IN /\ lock' = Install(Fake(hs, lock, {}))
     /\ worlds' = IF Rows[f] = << >> THEN worlds
                  ELSE {ApplyAllC(DbHandlers(row), v) :
                          v \in worlds,
                          row \in {w \in ToSet(Rows[f]) :
                                     \E r \in w.ret : HoldsLR(op, r, c, left) = side}}

\* function_comparison(): if (fn() op c) (left) or if (c op fn()), followed
\* on its true (side) or false path.
FunctionComparison(f, op, c, left, side) ==
  /\ Step
  /\ IF callbacks[f] # << >> THEN CallImpliesCallbacks(f, op, c, left, side)
     ELSE CompareDbImpliesCallbacks(f, op, c, left, side)
  /\ UNCHANGED <<extra, xvals>>

Init ==
  /\ callbacks = [f \in Funcs |-> << >>]
  /\ dbImplies = << >>
  /\ pending = Checkers
  /\ \/ \E s \in States : lock = {s} /\ worlds = {s}
     \/ lock = {Undef} /\ worlds = States
  /\ stmts = 0
  /\ extra = Whole
  /\ xvals = Whole

Next ==
  \/ \E c \in pending : RegisterChecker(c)
  \/ \E f \in Funcs :
       \/ MatchFunctionCall(f)
       \/ MatchMacroAssign(f)
       \/ MatchAssignCall(f)
       \/ \E op \in Ops, c \in Consts, left \in {LEFT, RIGHT}, side \in BOOLEAN :
            FunctionComparison(f, op, c, left, side)

Spec == Init /\ [][Next]_vars

(***************************************************************************)
(* Properties                                                              *)
(***************************************************************************)
TypeOK ==
  /\ pending \subseteq Checkers
  /\ lock \subseteq States \cup {Undef}
  /\ lock # {}
  /\ worlds \subseteq States
  /\ stmts \in 0..MaxStmts
  /\ extra \subseteq Whole
  /\ xvals \subseteq Whole

(* The hooks' states are sound: on every path, each concrete state the    *)
(* checker's variable can have after the calls, with f() returning any    *)
(* of its values, is in the state the hooks installed (or that state is   *)
(* merged with Undef).  This is what the isolation of assign_ranged_funcs *)
(* and db_assign_callback in scratch slists is for, whatever order the    *)
(* checkers registered their hooks in.                                     *)
HookStateSound == \A v \in worlds : v \in lock \/ Undef \in lock

(* After x = f(), the range SMATCH_EXTRA holds for x allows every value   *)
(* f() can return: assign_ranged_funcs gives x each handled range in its  *)
(* scratch slist and db_assign_callback each row's return range, and the  *)
(* merge of the scratch slists is their union.                            *)
ExtraSound == xvals \subseteq extra
====
