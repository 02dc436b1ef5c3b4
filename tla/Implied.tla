------------------------------ MODULE Implied ------------------------------
(***************************************************************************)
(* The state-merge / implication engine of smatch (smatch_implied.c) over *)
(* the merge tree of SMATCH_EXTRA bindings kept by the state store.        *)
(*                                                                         *)
(* The analysed function is a nondeterministic sequence of assignments    *)
(* of constants, if-statements on an untracked condition, if-statements on *)
(* a comparison of a tracked variable with a constant, else-switches and  *)
(* joins.  The store keeps                                                 *)
(*   sm     the arena of every sm_state ever allocated (index = address),  *)
(*   pools  every slist frozen by merge_slist (index = address),           *)
(*   cur    the current slist: one binding per variable,                   *)
(*   stack  the open if-statements: the slist and the ghost worlds of the  *)
(*          branch not taken yet (then) or of the finished then-branch.    *)
(* worlds is a ghost variable: the set of concrete valuations of the       *)
(* variables along the paths that reach the current program point.  It    *)
(* gives the implication engine a ground truth to be sound against.       *)
(***************************************************************************)
EXTENDS Integers, Sequences, FiniteSets, SequencesExt, TLC

CONSTANTS
  Vars,         \* the tracked variables (model values)
  VarOrder,     \* the slist order of Vars (a sequence listing each once)
  Vals,         \* the integer values a variable may hold
  AssignVals,   \* the constants assigned
  Consts,       \* the constants conditions compare with
  Ops,          \* the comparison operators: subset of {"==", "!=", "<"}
  CaseVals,     \* the constants of the case labels of switch statements
  Faults,       \* the faults separate_and_filter may meet: subset of {"oom", "timeout"}
  Sides,        \* the sides the variable is written on: subset of {LEFT, RIGHT}
  MaxChildren,  \* the nr_children bound of separate_pools/remove_my_pools
  MaxStmts,     \* bound on the number of statements analysed
  MaxPools,     \* bound on the number of pools frozen
  MaxDepth      \* bound on the nesting of if-statements

ASSUME Vars # {} /\ ToSet(VarOrder) = Vars /\ Len(VarOrder) = Cardinality(Vars)
ASSUME Consts \cup AssignVals \cup CaseVals \subseteq Vals /\ 0 \in Vals
ASSUME Ops \subseteq {"==", "!=", "<"}
ASSUME Faults \subseteq {"oom", "timeout"}
ASSUME {MaxChildren, MaxStmts, MaxPools, MaxDepth} \subseteq Nat

VARIABLES sm, pools, cur, stack, worlds, stmts, bail
vars == <<sm, pools, cur, stack, worlds, stmts, bail>>

NULL == 0     \* the NULL sm_state and the NULL pool
RIGHT == 0
LEFT == 1

(***************************************************************************)
(* Value domain (smatch_extra range lists, abstracted to finite sets).     *)
(* With lr = LEFT the binding is the left operand, with RIGHT the right.   *)
(***************************************************************************)
Holds(op, a, b) ==
  CASE op = "==" -> a = b
    [] op = "!=" -> a # b
    [] op = "<"  -> a < b

HoldsLR(op, a, c, lr) == IF lr = LEFT THEN Holds(op, a, c) ELSE Holds(op, c, a)

PossiblyTrue(op, S, C, lr) == \E a \in S, c \in C : HoldsLR(op, a, c, lr)
PossiblyFalse(op, S, C, lr) == \E a \in S, c \in C : ~HoldsLR(op, a, c, lr)

(***************************************************************************)
(* State store (smatch_slist.c, not in this source tree).                  *)
(***************************************************************************)
Leaf(v, S) ==
  [name |-> v, vals |-> S, left |-> NULL, right |-> NULL, merged |-> FALSE,
   implied |-> FALSE, my_pool |-> NULL, nr_children |-> 0]

\* Mutant: the new binding's address taken one past the end of the arena.
MergeSmStatesOffByOne(a, one, two) ==
  IF one = two THEN [arena |-> a, ret |-> one]
  ELSE [arena |-> Append(a, [name |-> a[one].name,
                             vals |-> a[one].vals \cup a[two].vals,
                             left |-> one, right |-> two, merged |-> TRUE,
                             implied |-> FALSE, my_pool |-> NULL,
                             nr_children |-> a[one].nr_children
                                             + a[two].nr_children + 2]),
        ret |-> Len(a) + 2]

\* merge_sm_states(one, two): the join of two bindings of one variable.
MergeSmStates(a, one, two) ==
  IF one = two THEN [arena |-> a, ret |-> one]
  ELSE [arena |-> Append(a, [name |-> a[one].name,
                             vals |-> a[one].vals \cup a[two].vals,
                             left |-> one, right |-> two, merged |-> TRUE,
                             implied |-> FALSE, my_pool |-> NULL,
                             nr_children |-> a[one].nr_children
                                             + a[two].nr_children + 2]),
        ret |-> Len(a) + 1]

\* A binding's my_pool is the first pool it was frozen in.
SetPool(a, n, p) == IF a[n].my_pool = NULL THEN [a EXCEPT ![n].my_pool = p] ELSE a

\* merge_slist(&one, two): freeze both slists as the pools p and p + 1 and
\* join them variable by variable; an identical binding carries over.
MergeSlist(a, p, one, two) ==
  LET step(acc, v) ==
        LET o == one[v]
            t == two[v]
            m == MergeSmStates(SetPool(SetPool(acc.arena, o, p), t, p + 1), o, t)
        IN IF o = t THEN acc
           ELSE [arena |-> m.arena, slist |-> [acc.slist EXCEPT ![v] = m.ret]]
  IN FoldLeft(step, [arena |-> a, slist |-> one], VarOrder)

EmptySlist == [v \in {} |-> NULL]

\* __set_true_false_sm of every binding of an implied slist.
Overlay(slist, implied) ==
  [v \in Vars |-> IF v \in DOMAIN implied THEN implied[v] ELSE slist[v]]

(***************************************************************************)
(* separate_pools() and do_compare(): classify every pool the binding was *)
(* set in as true, false, both (the binding cannot exist) or neither.     *)
(***************************************************************************)
RECURSIVE Walk(_, _)
Walk(a, n) ==
  IF n = NULL \/ a[n].nr_children > MaxChildren THEN {}
  ELSE {n} \cup Walk(a, a[n].left) \cup Walk(a, a[n].right)

DoCompare(a, P, n, op, C, lr) ==
  LET s == IF a[n].implied THEN P[a[n].my_pool][a[n].name] ELSE n
      istrue == ~PossiblyFalse(op, a[s].vals, C, lr)
      isfalse == ~PossiblyTrue(op, a[s].vals, C, lr)
  IN IF a[n].my_pool = NULL THEN [t |-> {}, f |-> {}]
     ELSE [t |-> IF istrue THEN {a[s].my_pool} ELSE {},
           f |-> IF isfalse THEN {a[s].my_pool} ELSE {}]

\* Mutant: the true and false stacks exchanged.
SeparatePoolsSwapped(a, P, root, op, C, lr) ==
  LET W == Walk(a, root)
  IN [f |-> UNION {DoCompare(a, P, n, op, C, lr).t : n \in W},
      t |-> UNION {DoCompare(a, P, n, op, C, lr).f : n \in W}]

SeparatePools(a, P, root, op, C, lr) ==
  LET W == Walk(a, root)
  IN [t |-> UNION {DoCompare(a, P, n, op, C, lr).t : n \in W},
      f |-> UNION {DoCompare(a, P, n, op, C, lr).f : n \in W}]

(***************************************************************************)
(* remove_my_pools(): rebuild a binding without the parts that come from  *)
(* the pools in stk.  Returns the new binding (or NULL), whether anything *)
(* was removed, and the arena with the bindings it allocated.             *)
(***************************************************************************)
\* pool_in_pools(): identity membership of a pool in a stack.  add_pool keeps
\* a stack sorted by address, so the early exit at a larger one loses none.
PoolInPools(pool, stk) == pool \in stk

RECURSIVE RemoveMyPools(_, _, _)
RemoveMyPools(n, stk, a) ==
  IF n = NULL \/ a[n].nr_children > MaxChildren
    THEN [ret |-> NULL, modified |-> FALSE, arena |-> a]
  ELSE IF PoolInPools(a[n].my_pool, stk)
    THEN [ret |-> NULL, modified |-> TRUE, arena |-> a]
  ELSE IF ~a[n].merged
    THEN [ret |-> n, modified |-> FALSE, arena |-> a]
  ELSE
    LET l == RemoveMyPools(a[n].left, stk, a)
        r == RemoveMyPools(a[n].right, stk, l.arena)
        b == r.arena
        one == IF l.ret = NULL THEN r.ret ELSE l.ret
        clone == [b[one] EXCEPT !.merged = TRUE, !.implied = TRUE,
                                !.my_pool = a[n].my_pool,
                                !.left = l.ret, !.right = r.ret]
        m == MergeSmStates(b, l.ret, r.ret)
        joined == [m.arena EXCEPT ![m.ret].my_pool = a[n].my_pool,
                                  ![m.ret].implied = TRUE]
    IN IF ~(l.modified \/ r.modified)
         THEN [ret |-> n, modified |-> FALSE, arena |-> b]
       ELSE IF l.ret = NULL /\ r.ret = NULL
         THEN [ret |-> NULL, modified |-> TRUE, arena |-> b]
       ELSE IF l.ret = NULL \/ r.ret = NULL
         THEN [ret |-> Len(b) + 1, modified |-> TRUE, arena |-> Append(b, clone)]
       ELSE [ret |-> m.ret, modified |-> TRUE, arena |-> joined]

\* One binding of the FOR_EACH_PTR loop of filter_stack(): r is what
\* remove_my_pools() returned; it is added when it is not NULL and its
\* modified flag is the one wanted; after an addition out_of_memory() is
\* asked unless the count of earlier additions is a multiple of 10.
AddFiltered(acc, v, r, want, oom) ==
  IF r.ret # NULL /\ r.modified = want
    THEN [arena |-> r.arena, slist |-> (v :> r.ret) @@ acc.slist,
          counter |-> acc.counter + 1, nomem |-> acc.counter % 10 # 0 /\ oom]
  ELSE [acc EXCEPT !.arena = r.arena]

\* return NULL once memory ran out, else the list built.
FilterResult(res) ==
  [arena |-> res.arena, slist |-> IF res.nomem THEN EmptySlist ELSE res.slist]

\* Mutant: the test on the modified flag inverted.
FilterStackInverted(pre, stk, a, oom) ==
  LET step(acc, v) ==
        IF acc.nomem THEN acc
        ELSE AddFiltered(acc, v, RemoveMyPools(pre[v], stk, acc.arena), FALSE, oom)
  IN IF stk = {} THEN [arena |-> a, slist |-> EmptySlist]
     ELSE FilterResult(FoldLeft(step, [arena |-> a, slist |-> EmptySlist, counter |-> 0,
                                       nomem |-> FALSE], VarOrder))

\* filter_stack(): the bindings of pre that change once stk is removed.
\* After adding a binding it asks out_of_memory(), except when the count of
\* bindings added before is a multiple of 10; when memory is out (oom) the
\* whole result is dropped (NULL).
FilterStack(pre, stk, a, oom) ==
  LET step(acc, v) ==
        IF acc.nomem THEN acc
        ELSE AddFiltered(acc, v, RemoveMyPools(pre[v], stk, acc.arena), TRUE, oom)
  IN IF stk = {} THEN [arena |-> a, slist |-> EmptySlist]
     ELSE FilterResult(FoldLeft(step, [arena |-> a, slist |-> EmptySlist, counter |-> 0,
                                       nomem |-> FALSE], VarOrder))

\* separate_and_filter(): the implied slists of the true and false paths.
\* fail.oom: memory runs out from the first filter_stack() on (1), from the
\* second (2) or not at all (0); fail.timeout: the call took more than
\* seven seconds, which sets __bail_on_rest_of_function (bail) after both
\* slists are computed.  An unmerged binding returns before either.
SeparateAndFilter(a, P, root, op, C, lr, pre, fail) ==
  LET st == SeparatePools(a, P, root, op, C, lr)
      tr == FilterStack(pre, st.f, a, fail.oom = 1)
      fa == FilterStack(pre, st.t, tr.arena, fail.oom \in {1, 2})
  IN IF ~a[root].merged
       THEN [arena |-> a, t |-> EmptySlist, f |-> EmptySlist, bail |-> FALSE]
     ELSE [arena |-> fa.arena, t |-> tr.slist, f |-> fa.slist, bail |-> fail.timeout]

\* The faults a call of separate_and_filter() may meet.
Fails == [oom : IF "oom" \in Faults THEN 0..2 ELSE {0},
          timeout : IF "timeout" \in Faults THEN BOOLEAN ELSE {FALSE}]
NoFail == [oom |-> 0, timeout |-> FALSE]

\* delete_equiv_slist() with no relations recorded: drop the variable.
DeleteEquivSlist(slist, v) == [w \in DOMAIN slist \ {v} |-> slist[w]]

\* tmp_range_list(num): the one-value range list num..num.
TmpRangeList(num) == {num}

(***************************************************************************)
(* implied_states_hook() followed by __extra_match_condition() for the    *)
(* condition (v op c) (lr = LEFT) or (c op v) (lr = RIGHT).  The true path *)
(* gets the implied true slist and v narrowed to the values that satisfy  *)
(* the condition; the false path is pushed to be taken at the else.        *)
(***************************************************************************)
Condition(v, op, c, lr, fail) ==
  /\ Len(stack) < MaxDepth
  /\ stmts < MaxStmts
  /\ stmts' = stmts + 1
  /\ \E r \in {SeparateAndFilter(sm, pools, cur[v], op, TmpRangeList(c), lr, cur, fail)} :
     LET impTrue == DeleteEquivSlist(r.t, v)
         impFalse == DeleteEquivSlist(r.f, v)
         old == sm[cur[v]]
         a == r.arena \o
                << Leaf(v, {x \in old.vals : HoldsLR(op, x, c, lr)}),
                   Leaf(v, {x \in old.vals : ~HoldsLR(op, x, c, lr)}) >>
     IN /\ sm' = a
        /\ cur' = [Overlay(cur, impTrue) EXCEPT ![v] = Len(a) - 1]
        /\ worlds' = {w \in worlds : HoldsLR(op, w[v], c, lr)}
        /\ stack' = Append(stack,
                      [phase |-> "then",
                       other |-> [Overlay(cur, impFalse) EXCEPT ![v] = Len(a)],
                       otherWorlds |-> {w \in worlds : ~HoldsLR(op, w[v], c, lr)},
                       mark |-> Len(a) + 1])
        /\ bail' = r.bail
        /\ UNCHANGED pools

(***************************************************************************)
(* Actions                                                                 *)
(***************************************************************************)

\* The first sm_state allocated on the current path since its if-statement
\* (or the function) started.
Mark == IF stack = << >> THEN Len(VarOrder) + 1 ELSE Last(stack).mark

\* Whether v was assigned on the current path since its if-statement began.
AssignedHere(v) == cur[v] >= Mark /\ ~sm[cur[v]].merged

\* v = c;  a fresh, non-merged binding.  A second assignment to v on the
\* same path only overwrites the first, and assignments to two variables
\* commute, so only the first assignment to v, in slist order, is enumerated.
Assign(v, c) ==
  /\ ~AssignedHere(v)
  /\ \A i, j \in 1..Len(VarOrder) :
        VarOrder[i] = v /\ j > i => ~AssignedHere(VarOrder[j])
  /\ stmts < MaxStmts
  /\ stmts' = stmts + 1
  /\ sm' = Append(sm, Leaf(v, {c}))
  /\ cur' = [cur EXCEPT ![v] = Len(sm) + 1]
  /\ worlds' = {[w EXCEPT ![v] = c] : w \in worlds}
  /\ UNCHANGED <<pools, stack>>

\* if (bar) on an untracked condition: both paths start from cur.
BranchOpaque ==
  /\ Len(stack) < MaxDepth
  /\ stmts < MaxStmts
  /\ stmts' = stmts + 1
  /\ stack' = Append(stack, [phase |-> "then", other |-> cur, otherWorlds |-> worlds,
                             mark |-> Len(sm) + 1])
  /\ UNCHANGED <<sm, pools, cur, worlds>>

\* handle_comparison(): if (v op c) or if (c op v).
\* Only merged variables are enumerated: on others handle_comparison()
\* derives nothing, which ZeroCompare already exercises.
Compare(v, op, c, lr) ==
  /\ sm[cur[v]].merged
  /\ \E fail \in Fails : Condition(v, op, c, lr, fail)

\* handle_zero_comparison(): if (v), taken as v != 0.
ZeroCompare(v) == \E fail \in Fails : Condition(v, "!=", 0, LEFT, fail)

\* else: the then-path is saved, the false path becomes current.
Else ==
  /\ stack # << >>
  /\ Last(stack).phase = "then"
  /\ stack' = [stack EXCEPT ![Len(stack)] =
                 [phase |-> "else", other |-> cur, otherWorlds |-> worlds,
                  mark |-> Len(sm) + 1]]
  /\ cur' = Last(stack).other
  /\ worlds' = Last(stack).otherWorlds
  /\ UNCHANGED <<sm, pools, stmts>>

\* end of the if-statement: merge_slist(&then, else).
Join ==
  /\ stack # << >>
  /\ Last(stack).phase = "else"
  /\ Len(pools) + 2 <= MaxPools
  /\ LET m == MergeSlist(sm, Len(pools) + 1, Last(stack).other, cur)
     IN /\ sm' = m.arena
        /\ cur' = m.slist
  /\ pools' = pools \o << Last(stack).other, cur >>
  /\ worlds' = Last(stack).otherWorlds \cup worlds
  /\ stack' = Front(stack)
  /\ UNCHANGED stmts

(***************************************************************************)
(* switch (v): every case label starts from the slist before the switch,  *)
(* the raw slist; every arm ends with a break that merges it into the     *)
(* slist after the switch (a NULL slist until the first break).  A switch *)
(* without a default has an empty default arm.  The stack entry of a      *)
(* switch keeps v, the raw slist and its worlds, the values                *)
(* __get_implied_values() gave, the case values seen, and the merged arms.*)
(***************************************************************************)

\* __implied_case_slist(): the raw slist overwritten with the implied true
\* slist of (v == one of vals); v itself gets vals unless the implication
\* produced a binding for it.  It runs on the arena and pools the break
\* before the label left.
ImpliedCaseSlist(a, P, raw, v, vals, fail) ==
  LET r == SeparateAndFilter(a, P, raw[v], "==", vals, LEFT, raw, fail)
  IN IF v \in DOMAIN r.t
       THEN [arena |-> r.arena, slist |-> Overlay(raw, r.t), bail |-> r.bail]
     ELSE [arena |-> Append(r.arena, Leaf(v, vals)),
           slist |-> Overlay(raw, (v :> Len(r.arena) + 1) @@ r.t), bail |-> r.bail]

\* Mutant: a break overwrites the slist after the switch instead of merging.
BreakMergeOverwrite(e) == [arena |-> sm, slist |-> cur, pools |-> pools]

\* break: the arm's slist merged into the slist after the switch.
BreakMerge(e) ==
  IF e.accNull THEN [arena |-> sm, slist |-> cur, pools |-> pools]
  ELSE LET m == MergeSlist(sm, Len(pools) + 1, e.acc, cur)
       IN [arena |-> m.arena, slist |-> m.slist, pools |-> pools \o << e.acc, cur >>]

\* The first case label (c) of switch (v).
SwitchStart(v, c) ==
  /\ Len(stack) < MaxDepth
  /\ stmts < MaxStmts
  /\ \E fail \in Fails : \E r \in {ImpliedCaseSlist(sm, pools, cur, v, {c}, fail)} :
     /\ stmts' = stmts + 1
     /\ bail' = r.bail
     /\ sm' = r.arena
     /\ cur' = r.slist
     /\ worlds' = {w \in worlds : w[v] = c}
     /\ stack' = Append(stack,
                   [phase |-> "case", var |-> v, other |-> cur, otherWorlds |-> worlds,
                    implied |-> sm[cur[v]].vals, seen |-> {c},
                    accNull |-> TRUE, acc |-> cur, accWorlds |-> {},
                    mark |-> Len(r.arena) + 1])
     /\ UNCHANGED pools

\* break; then the next label: case c, or the default (isDefault) with the
\* values __get_implied_values() gave less the case values seen
\* (top_range_list() after filter_top_range_list()).
NextLabel(e, isDefault, c) ==
  LET vals == IF isDefault THEN e.implied \ e.seen ELSE {c}
  IN \E b \in {BreakMerge(e)} :
     \E fail \in Fails : \E r \in {ImpliedCaseSlist(b.arena, b.pools, e.other, e.var, vals, fail)} :
     /\ Len(b.pools) <= MaxPools
     /\ bail' = r.bail
     /\ sm' = r.arena
     /\ cur' = r.slist
     /\ pools' = b.pools
     /\ worlds' = IF isDefault THEN {w \in e.otherWorlds : w[e.var] \notin e.seen}
                  ELSE {w \in e.otherWorlds : w[e.var] = c}
     /\ stack' = [stack EXCEPT ![Len(stack)] =
                   [e EXCEPT !.phase = IF isDefault THEN "default" ELSE "case",
                             !.seen = IF isDefault THEN e.seen ELSE e.seen \cup {c},
                             !.accNull = FALSE, !.acc = b.slist,
                             !.accWorlds = e.accWorlds \cup worlds,
                             !.mark = Len(r.arena) + 1]]
     /\ UNCHANGED stmts

\* case c: after a break (every arm ends with one).
Case(c) ==
  /\ stack # << >>
  /\ Last(stack).phase = "case"
  /\ c \notin Last(stack).seen
  /\ NextLabel(Last(stack), FALSE, c)

\* default: (or the end of the last arm of a switch without one).
Default ==
  /\ stack # << >>
  /\ Last(stack).phase = "case"
  /\ NextLabel(Last(stack), TRUE, 0)

\* The end of the switch: the default arm's break, then the merged slist.
EndSwitch ==
  /\ stack # << >>
  /\ Last(stack).phase = "default"
  /\ \E e \in {Last(stack)} : \E b \in {BreakMerge(e)} :
     /\ Len(b.pools) <= MaxPools
     /\ sm' = b.arena
     /\ cur' = b.slist
     /\ pools' = b.pools
     /\ worlds' = e.accWorlds \cup worlds
     /\ stack' = Front(stack)
     /\ UNCHANGED stmts

Init ==
  /\ sm = [i \in 1..Len(VarOrder) |-> Leaf(VarOrder[i], Vals)]
  /\ cur = [v \in Vars |-> CHOOSE i \in 1..Len(VarOrder) : VarOrder[i] = v]
  /\ pools = << >>
  /\ stack = << >>
  /\ worlds = [Vars -> Vals]
  /\ stmts = 0
  /\ bail = FALSE

\* Once __bail_on_rest_of_function is set the rest of the function is not
\* walked: no step follows.
Next ==
  /\ ~bail
  /\ \/ /\ \/ \E v \in Vars, c \in AssignVals : Assign(v, c)
           \/ BranchOpaque
           \/ Else
           \/ Join
           \/ EndSwitch
        /\ UNCHANGED bail
     \/ \E v \in Vars, op \in Ops, c \in Consts, lr \in Sides : Compare(v, op, c, lr)
     \/ \E v \in Vars : ZeroCompare(v)
     \/ \E v \in Vars, c \in CaseVals : SwitchStart(v, c)
     \/ \E c \in CaseVals : Case(c)
     \/ Default

Spec == Init /\ [][Next]_vars

(***************************************************************************)
(* Properties                                                              *)
(***************************************************************************)
Node == [name : Vars, vals : SUBSET Vals, left : Nat, right : Nat,
         merged : BOOLEAN, implied : BOOLEAN, my_pool : Nat, nr_children : Nat]

TypeOK ==
  /\ sm \in Seq(Node)
  /\ pools \in Seq([Vars -> 1..Len(sm)])
  /\ cur \in [Vars -> 1..Len(sm)]
  /\ \A i \in 1..Len(stack) : stack[i].phase \in {"then", "else", "case", "default"}
  /\ worlds \subseteq [Vars -> Vals]
  /\ stmts \in 0..MaxStmts
  /\ bail \in BOOLEAN

(* Soundness of the implications: on every open path, every concrete      *)
(* valuation that reaches it is allowed by the binding of every variable  *)
(* (implied_states_hook never removes a value the variable can hold; an   *)
(* indeterminate or oversized pool may only cost precision).              *)
SlistCovers(slist, W) == \A w \in W, v \in Vars : w[v] \in sm[slist[v]].vals

ImpliedSound ==
  /\ SlistCovers(cur, worlds)
  /\ \A i \in 1..Len(stack) : SlistCovers(stack[i].other, stack[i].otherWorlds)
  /\ \A i \in 1..Len(stack) :
       stack[i].phase \in {"case", "default"} /\ ~stack[i].accNull =>
         SlistCovers(stack[i].acc, stack[i].accWorlds)

\* get_implications(): what a check_ script asks of the current slist, the
\* implied true and false slists of (v op num).  No binding of the model
\* is undefined, so its early return on &undefined never fires.
GetImplications(v, op, num) == SeparateAndFilter(sm, pools, cur[v], op, {num}, LEFT, cur, NoFail)

(* A checker that asks get_implications() about (v op num) on the current *)
(* path and applies the true slist gets bindings that allow every value   *)
(* the variables hold on the paths where the comparison is true, and the  *)
(* false slist every value where it is false.                             *)
GetImplicationsSound ==
  \A v \in Vars, op \in Ops, num \in Consts :
    LET r == GetImplications(v, op, num)
        cover(imp, W) == \A w \in W, u \in DOMAIN imp : w[u] \in r.arena[imp[u]].vals
    IN /\ cover(r.t, {w \in worlds : Holds(op, w[v], num)})
       /\ cover(r.f, {w \in worlds : ~Holds(op, w[v], num)})

(* The implication the engine exists for (the comment at the top of       *)
(* smatch_implied.c): x and y were both set on the two paths of one       *)
(* if-statement and merged at its end; a later condition on x that is     *)
(* definitely true for x's value on one path and definitely false on the  *)
(* other gives y, on each side of the condition, the value y had on the   *)
(* matching path.                                                          *)
MergedAtSameJoin(y, v) ==
  LET r == sm[cur[v]]
      q == sm[cur[y]]
  IN /\ r.merged /\ ~r.implied /\ q.merged /\ ~q.implied
     /\ r.left # NULL /\ r.right # NULL /\ q.left # NULL /\ q.right # NULL
     /\ \A n \in {r.left, r.right, q.left, q.right} :
          ~sm[n].merged /\ sm[n].my_pool # NULL /\ sm[n].vals # {}
     /\ sm[q.left].my_pool = sm[r.left].my_pool
     /\ sm[q.right].my_pool = sm[r.right].my_pool

DefinitelyTrue(n, op, c, lr) == ~PossiblyFalse(op, sm[n].vals, {c}, lr)
DefinitelyFalse(n, op, c, lr) == ~PossiblyTrue(op, sm[n].vals, {c}, lr)

ImpliesBranchValue ==
  [][Len(stack') = Len(stack) + 1 /\ Len(sm') > Len(sm) =>
     \A v \in {w \in Vars : cur'[w] = Len(sm') - 1},
        op \in Ops \cup {"!="}, c \in Consts \cup {0}, lr \in {LEFT, RIGHT} :
       Condition(v, op, c, lr, NoFail) =>
         \A y \in Vars \ {v} :
           LET r == sm[cur[v]]
               q == sm[cur[y]]
               yt == sm'[cur'[y]].vals
               yf == sm'[Last(stack').other[y]].vals
           IN MergedAtSameJoin(y, v) =>
                /\ DefinitelyTrue(r.left, op, c, lr) /\ DefinitelyFalse(r.right, op, c, lr)
                   => yt = sm[q.left].vals /\ yf = sm[q.right].vals
                /\ DefinitelyFalse(r.left, op, c, lr) /\ DefinitelyTrue(r.right, op, c, lr)
                   => yt = sm[q.right].vals /\ yf = sm[q.left].vals
  ]_vars
=============================================================================
