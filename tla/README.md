# TLA+ models of the smatch dataflow core

This directory holds TLC-checkable models of the state-merge/implication
engine of smatch and of the equivalence tracking it depends on. The sources are
under `src/`, and the design is described in `spec.md`. `PROJECT.json` lists:

- the components;
- the runs;
- the mutants that show each checked property can fail;
- the map from every model definition to the source lines it translates;
- the findings;
- the hazards.

## 1. The system

| Part (spec section 2) | Source | What it keeps, what changes it |
|---|---|---|
| Value Domain | smatch_ranges.c (not in `src/`) | Range lists and the comparison of a list with a value under an operator (`possibly_true/false_range_list_lr`). Pure. |
| State Store | smatch_slist.c (not in `src/`) | `sm_state` nodes (`left`, `right`, `merged`, `implied`, `my_pool`, `nr_children`), the current slist, and the pools frozen by `merge_slist` at every join. |
| Implication Engine | `smatch_implied.c` | It is stateless between calls. A condition on a merged variable produces two implied slists that are written into the true and false paths. |
| Constraint Tracker | `smatch_constraints.c` | The relation list inside each SMATCH_EXTRA state. `set_equiv` (for `a = b`) and `remove_from_equiv` (when a variable is modified) rewrite whole equivalence classes. |
| Event Dispatcher | `smatch_function_hooks.c` | The callback registry is written once at start-up. Ranged-assignment and return-implies callbacks each run in their own fake slist, and those slists are merged afterwards. |
| Interprocedural Fact Store | `smatch_function_hooks.c` (`db_*`) | Rows of a SQL table. Each row's callbacks run in a scratch slist, and the scratch slists are merged. |
| ERR_PTR dereference checker | `check_err_ptr_deref.c` | One checker state per pointer (`err_ptr`, `checked`), set by assignment hooks, by `return_implies_state` hooks on `IS_ERR`, `IS_ERR_OR_NULL` and `PTR_RET`, and by conditions; read at every dereference through `sm->possible`. |
| Memory tag data (out of the core, spec section 1) | `smatch_mtag_data.c` | An in-memory SQL table of the ranges assigned to static and global variables, printed at the end of each file; the fact database built from those lines answers `get_db_data_rl` in the next run. |
| Out of the core (spec section 1) | `smatch_function_ptrs.c`, `check_debug.c` | A database writer and the debug printer. |

The parts interact in this order:

1. The flow walker forks the slist at an `if`.
2. It merges the two sides at the join (`merge_slist`). Both sides become pools, and each binding records its pool in `my_pool`.
3. A later condition calls `implied_states_hook`.
4. The hook walks the merge tree of the compared variable (`separate_pools`/`do_compare`). It collects the pools in which the condition is definitely true or definitely false.
5. It rebuilds every other binding without the pools of the opposite side (`filter_stack`/`remove_my_pools`).
6. It deletes the compared variable's equivalence class from the result (`delete_equiv_slist`).
7. It writes the result into the two paths.

Everything is single-threaded and depth-first (spec section 5), so the hard behaviours are sequences rather than races:

- a binding's history crossing several joins;
- a binding shared by both paths of a join, which keeps the first pool it was frozen in;
- node-count bails;
- an equivalence class rewritten while a stale pointer to its old state is held.

## 2. Modules

### `Implied.tla`: State Store and Implication Engine

**State:**

- `sm` is the arena of every `sm_state` (an index is an address).
- `pools` holds the frozen slists (an index is a pool address, so pools are compared by identity, as spec section 9 requires).
- `cur` is the current slist.
- `stack` holds the open `if`-statements. Each entry keeps the slist of the branch not taken yet, or of the finished then-branch.
- `stmts` counts the statements analysed, which bounds the model.
- `worlds` is a ghost variable: the concrete valuations that reach the current point. It is the ground truth that soundness is checked against.
- `bail` is `__bail_on_rest_of_function`: once it is set, no further statement of the function is analysed.

Values are finite sets of small integers, standing in for range lists.

**Operators translated from `src/smatch_implied.c`:**

- `Walk` and `SeparatePools` model `separate_pools`, including the `checked` list and the `nr_children` bail.
- `DoCompare` models `do_compare`, including the lookup of an implied binding in its own pool.
- `RemoveMyPools` models `remove_my_pools`, covering every return: the bail, excised, kept, unchanged, clone, and re-merge.
- `PoolInPools` models `pool_in_pools`: membership by identity. Its early exit assumes `add_pool` keeps stacks sorted by address (`smatch_slist.c`, not among these sources), so the model takes plain membership.
- `TmpRangeList(num)` models `tmp_range_list`: the range list `num..num` a condition compares against.
- `FilterStack` models `filter_stack`, with `AddFiltered` (one binding added, `counter` and the `out_of_memory` test every tenth) and `FilterResult` (the empty slist returned when memory ran out).
- `SeparateAndFilter` models `separate_and_filter`, including the 7-second timeout that sets `__bail_on_rest_of_function`.

**Faults.** The constant `Faults` says which of `"oom"` and `"timeout"` may happen, and `Fails` is the set of outcomes a condition can meet:
- `oom` 1: both `filter_stack` calls run out of memory;
- `oom` 2: only the second one does;
- `timeout`: the call took more than 7 seconds, so `bail` is set.
Out-of-memory only drops implications. A timeout ends the analysis of the function, so `Next` requires `~bail`. `GetImplications` and the `ImpliesBranchValue` scenario use `NoFail`: they ask what a successful call gives.
- `DeleteEquivSlist` models `delete_equiv_slist`. With no relations recorded, it deletes only the compared variable.
- `Condition` models `handle_comparison`/`handle_zero_comparison` followed by `__extra_match_condition`'s narrowing of the compared variable. `Overlay` models the `__set_true_false_sm` loop of `implied_states_hook`.
- `ImpliedCaseSlist` models `__implied_case_slist`: the raw slist (the slist before the switch) overwritten with the implied true slist of `v == vals`, with `v` set to `vals` when the implication gave no binding for it.
- `SwitchStart` takes `__get_implied_values` (the values `v` may hold before the switch). `NextLabel` models the `remaining_cases` bookkeeping: a case filters its value out, and the default gets what remains.
- `GetImplications` models `get_implications`, the query a check_ script makes on the current slist.

**Modelled from the spec (`spec_modelled` in the map):**

- The State Store: `Leaf`, `MergeSmStates`, `SetPool`, `MergeSlist`, following spec section 4.1 and the comment at `smatch_implied.c:42-45` (the first pool wins).
- The flow-walker actions `Assign`, `BranchOpaque`, `Else`, `Join`, and the switch actions `Case`, `Default`, `EndSwitch` with `BreakMerge`. Every arm ends with a `break`, which merges the arm into the slist after the switch. The next label's slist is implied on the arena and pools that merge left. A switch without a default has an empty default arm.

The actions are:

- `Assign(v, c)`;
- `BranchOpaque`, for `if (bar)` on an untracked condition;
- `Compare(v, op, c, lr)`, for `if (v op c)` or `if (c op v)` on a merged `v`;
- `ZeroCompare(v)`, for `if (v)`;
- `Else`;
- `Join`;
- `SwitchStart(v, c)`, `Case(c)`, `Default`, `EndSwitch`, for `switch (v)` with `break` after every arm.

A switch's stack entry keeps `v`, the raw slist and its worlds, the implied values, the case values seen, and the merged arms (`acc`, NULL until the first break).

### `Constraints.tla`: Constraint Tracker

**State:**

- `bound` is the set of variables with an SMATCH_EXTRA state.
- `related` is each state's relation list, a sequence ordered as the code orders it.
- `val` is a ghost holding the concrete values.

A variable is identified by `(sym, name)`. The constants `Sym` and `Name` give its symbol-pointer order and its `strcmp` order independently, because the ordering test of `add_related`/`del_related` (`tmp->sym < sym || strcmp(tmp->name, name) < 0`) is not lexicographic.

**Actions:**

- `SetEquiv(l, r)` models `set_equiv`. `right_sm` is read before `remove_from_equiv(l)`, as in the code.
- `Modify(v, c)` models `remove_from_equiv_expr` followed by the caller's fresh state for `v`.

The helpers `AddRelated`, `DelRelated`, `GetCommonRelationship` and `RemoveFromEquiv` translate the functions of the same names.

### `FunctionHooks.tla`: Event Dispatcher and Interprocedural Fact Store

The module follows one checker state, `lock`, that the hooks of the called
functions set. `Funcs` are the called functions: those with hooks and
those without, for which the fact database answers. It is a set of values, or contains `Undef` after a merge with a
path that never set it. The ghost `worlds` holds the concrete values the state
can take, with `fn()` returning any of `Returns`.

**Hooks and rows:**

- A hook `[type, range, kind, val]` either sets the state (`"set"`) or
  advances the state it reads (`"next"`). Handlers that read are what make
  isolation observable.
- The registry is built by a registration phase. `Checkers` maps each
  checker to the registration calls its `register_*` function makes, and
  `RegisterChecker(c)` runs them in order (`RegisterCall`): `add_function_hook`,
  `add_function_assign_hook`, `add_macro_assign_hook` and
  `return_implies_state` append to `callbacks[f]` (the list `search_callback`
  returns), `add_db_return_implies_callback` appends to `dbImplies`. The
  checkers register in any order (`pending`), and no call is analysed until
  all have registered, as at start-up (spec section 5).
- The fact database is the constant `Rows` (`Rows[f]` in SQL order), with
  the handlers `dbImplies`.
- `extra` is SMATCH_EXTRA's range for the assigned `x` in `x = f()`:
  `set_extra_mod` installs the range of the fake slist a ranged hook group
  or a row ran in (`InstallX`), and `xvals` is the ghost of what `f()` can
  return.

**Fake slists** are modelled from the spec (`Fake`, `MergeSlist`):

- A push records the states set.
- Reads see those states.
- A pop returns them and restores the slist.
- A state present on one side of a merge only is merged with `Undef`.

**Actions:**

- `MatchFunctionCall` models `match_function_call`.
- `MatchMacroAssign` models `match_macro_assign`.
- `MatchAssignCall` models `match_assign_call`. It runs the ASSIGN hooks,
  then `assign_ranged_funcs`; without hooks it runs
  `db_return_implies_assign`.
- Every action takes the called function `f`.
- `FunctionComparison(f, op, c, left, side)` models `function_comparison`. It
  runs `call_implies_callbacks` or `compare_db_implies_callbacks`, followed on
  the true or the false path.

### `EquivClasses.tla`: what the Constraint Tracker promises

An abstract specification: `cls[v]` is the class of `v`, a partition of
the variables. `Assign(l, r)` moves `l` into `r`'s class and `Modify(v, c)`
takes `v` out of its class. `Constraints.tla` instantiates it with the
refinement mapping `Classes` (the set a relation list names, or `{v}` for a
NULL list) and checks `EquivRefinement == Abs!Spec`.

### `ErrPtr.tla`: the ERR_PTR dereference checker

The module follows one pointer `p` through a function, with the same flow
walker as `Implied` (if, else, join) plus `return`, which makes a path
unreachable so that the join takes the other path alone.

- `cur.sm` is the checker's `sm_state` of `p`: its state and `possible`.
  A merge keeps the state if both sides agree, or makes it `merged`, and
  unites `possible`; a side without a state contributes `undefined`.
- `cur.ret` is the range SMATCH_EXTRA gives `ret = PTR_ERR(p)`: `errno` for
  -4095..-1, or `any`.
- The ghost `worlds` holds the runs reaching the path: what `p` points to
  (an error pointer with one of `Errnos`, NULL, or a valid pointer), whether
  a warning was given since `p` was assigned, and the value of `ret`.
  Pointers from untracked sources are not error pointers (the checker's
  contract: it only follows `kernel.returns_err_ptr` functions).

Actions, one per hook: `AssignErrFunc` (`ok_to_use`, then
`match_returns_err_ptr`), `AssignOther` (`ok_to_use`), `AssignPtrErr`
(`match_ptr_err`), `Deref` (`match_dereferences`, `check_is_err_ptr`),
`TruthCond` (`match_condition`), and `CallCond(f, op, c)`, the condition
`f(p) op c`: `call_implies_callbacks` runs, per side, the registered ranges
of `f` (`ReturnImplies`, in registration order) that can make the
comparison come out on that side, in one scratch slist, so the last one's
state wins (`CallImplies`). `if (IS_ERR(p))` is `IS_ERR(p) != 0`.

### `MtagData.tla`: Memory tag data

A variable is a location (the `(tag, offset)` pair of
`expr_to_mtag_name_offset`). A range list is a non-empty set of `Values`.

**State:**

- `mem` is the in-memory table `mtag_data`, a set of `[loc, rl]` rows.
- `printed` holds the rows `save_mtag_data` printed in this run.
- `db` is the on-disk table that `run_sql` reads.
- `inFile` says whether a file is being parsed.
- `idx` is `get_db_data_rl`'s static `idx`.
- `lookup` is the answer of the last `get_db_data_rl`.
- `stmts` counts the assignments, to bound the model.
- The ghosts `assigned` and `dbAssigned` hold the `(loc, value)` pairs the program stored in this run and in the run `db` was built from.

**Actions:**

- `UpdateMtagData(e, rl)` models `update_mtag_data`. `is_kernel_param` comes first. An untagged expression returns early. Otherwise it inserts `orig ∪ rl` as a new row, where `orig` is the row `select_orig_rl` returns. That select has no `ORDER BY` and `save_rl` keeps the last row, so `orig` is any row of the location (`OrigChoices`).
- `MatchGlobalAssign(e, rl)` inserts the initialiser's range.
- `MatchEndFile` models `match_end_file`: with `--info`, every row is printed.
- `GetDbDataRl(e)` models `get_db_data_rl`:
  - the untagged early return;
  - the lookup in `cached`, whose writes are commented out, so it never hits;
  - `get_vals`, which unions all rows;
  - the `is_whole_rl` check;
  - `idx` advancing.
- `StartFile` and `BuildDb` are modelled from outside `src/`. `BuildDb` rebuilds the database from the printed lines and starts a new run with an empty in-memory table.

`is_kernel_param` is translated as written: it looks for `__param_<name>.arg` in the static `vals`, which nothing writes.

### `ErrPtrArg.tla`: the ERR_PTR(x) argument check

`match_err_ptr` as a pure operator: `Bounds` folds the ranges of
`sm->possible`, skipping bounds equal to the ends of `whole_range`, and
`ErrPtrMsgs` gives the two messages. The one action applies it to every set
of one or two ranges with bounds around -4095 and 0. `whole_range` is 64-bit;
TLC's integers are 32-bit, so its ends are the ends of TLC's integers, which
the code only compares for equality.

## 3. Runs

The bounds and constants for every run are:

| Run | cfg | Bounds |
|---|---|---|
| `implied_single` (pass) | `MC_Implied_single.cfg` | 2 variables, values {0,1,2}, `<` and `!=`, both sides; 6 statements, one join, nesting 2; faults `oom` and `timeout` |
| `implied_switch` (pass) | `MC_Implied_switch.cfg` | values {0,1}, `==` and `!=`, case labels 0 and 1 plus default; 4 statements, up to three merges (a join and two breaks), nesting 1; `MaxChildren = 3`, so a binding merged at a break after the join (`nr_children` 4) takes the `separate_pools` bail at a later condition |
| `implied_unsound` (violation) | `MC_Implied_unsound.cfg` | values {0,1}; 5 statements, two joins, nesting 1 |
| `constraints` (pass) | `MC_Constraints.cfg` | 3 variables whose symbol and name orders disagree; 5 assignments, values {0,1} |
| `constraints_singleton` (violation) | `MC_Constraints_singleton.cfg` | as above, 2 assignments |
| `hooks` (pass) | `MC_FunctionHooks.cfg` | three checkers registering in any order: fn() gets hooks on [0,0] (two), [1,2], plus ASSIGN, REGULAR and MACRO hooks; gn() has none, and both have rows for 0 (no handler) and 1..2; fn() and gn() return 0..2 of a type 0..3; 4 states; 7 statements; `f() == 0` |
| `hooks_implies` (violation) | `MC_FunctionHooks_implies.cfg` | as `hooks`, 6 statements, `f() == 1` |
| `mtag` (pass) | `MC_MtagData.cfg` | kernel build with `--info`; a static s, a module parameter p and an untagged u; values {0,1,2}; 3 assignments over any number of files and runs |
| `mtag_kernel` (violation) | `MC_MtagData_kernel.cfg` | as `mtag` |
| `errptr` (pass) | `MC_ErrPtr.cfg` | IS_ERR, IS_ERR_OR_NULL, PTR_RET compared by `!=` and `<` with 0 and -5; errnos -12 and -1; 6 statements, nesting 2 |
| `errptr_ptr_err` (violation) | `MC_ErrPtr_ptrerr.cfg` | as `errptr`, 7 statements |
| `errptr_arg` (violation) | `MC_ErrPtrArg.cfg` | one or two ranges with bounds in {LLONG_MIN, -5001, -4096, -4095, -1, 0, 1, LLONG_MAX} |

What each run checks:

- **`implied_single`** checks `ImpliedSound`, `ImpliesBranchValue` and `GetImplicationsSound`.
  - `ImpliedSound`: every valuation reaching an open path is allowed by every binding of that path.
  - `ImpliesBranchValue`: the scenario of spec section 8. A condition that is true on one side of the join x and y were merged at, and false on the other, gives y that side's value on each path.
  - `GetImplicationsSound`: the slists `get_implications` hands a checker for `v op num` allow every value held on the paths where the comparison is true (false).
  - All three hold with one join before the condition, and while any `filter_stack` runs out of memory or a call times out. Both faults only drop implications.
- **`implied_switch`** checks `TypeOK`, `ImpliedSound` and `ImpliesBranchValue` over switch statements: an `if` merged before the switch, then case and default arms with assignments, merged at their breaks, and conditions after the switch. The switch takes the one nesting level (`MaxDepth = 1`), so no condition is inside an arm: at nesting 2 the run reaches the nested-join unsoundness of `implied_unsound` before any switch-specific case. `ImpliedSound` also covers the open switch's merged arms. All three hold. `ImpliesBranchValue` is checked here where the histories hold the pools of several breaks. With a fifth statement the state space reaches the two-join root cause of `implied_unsound`, through an `if`, not through the switch.
- **`implied_unsound`** is a violation run, and the main finding. TLC finds the violation in 10 states for this program:

  ```c
  if (x) y = 1;
  if (bar) x = 1;
  if (x == 1) ...
  ```

  1. `separate_pools` walks x's whole history and classifies the pool of the first `if`'s else-path (x = 0) as false.
  2. `filter_stack` then removes y's initial value from the true path.
  3. The true path is left with y = 1, but y = 0 is reachable through the second `if`'s then-path.

  Spec sections 4.3 and 7 promise that implications "never invent a false fact". A second mechanism needs nesting: a binding carried unchanged into a join keeps the first pool it was frozen in.
- **`constraints`** checks `RelatedListsSearchable`, `EquivSymmetric` and `EquivValuesEqual`.
  - `RelatedListsSearchable`: relation lists stay free of duplicates, and `get_common_relationship` finds every listed entry, despite the non-lexicographic order.
  - `EquivSymmetric`: a class is one list shared by all its members.
  - `EquivValuesEqual`: the members of a class hold equal values.
  - `EquivRefinement`: the relation lists implement `EquivClasses`: every step is an abstract `Assign`, `Modify` or a stutter under the mapping `Classes`.
- **`constraints_singleton`** is a violation run. `a = a` leaves the relation list `{a}`, although spec section 4.2 says a class of size one is not a relation.

- **`hooks`** checks `TypeOK`, `HookStateSound` and `ExtraSound`.
  `HookStateSound`: every concrete state the hooks can produce is in the
  installed state, whatever order the checkers registered in.
  `ExtraSound`: after `x = f()` SMATCH_EXTRA's range for `x` holds every
  value `f()` can return; the range each hook group installs is its whole
  `[min, max]` (`EstateRange`), and a row installs its `return_ranges`.
  - For assignments, this holds because `assign_ranged_funcs` runs each range
    in its own fake slist, and `db_assign_callback` does the same for each row.
  - It also holds for conditions whose two sides each match one group of
    hooks or rows.
  - Calls of fn() and gn() interleave, so the database's answers and the
    hooks' act on one state.
- **`hooks_implies`** is a violation run. It shows that the two condition
  paths do not isolate their handlers.
  - `call_implies_callbacks` (line 226) runs every matching ranged hook of a
    side in one fake slist, and so does `compare_db_implies_callbacks`
    (line 337).
  - For `if (fn() == 1)`, the false side matches both the `[0,0]` and the
    `[1,2]` groups. The last handler's state overwrites the others.
  - Starting from state 0, the code installs {3} while 1 and 2 are reachable.
    With gn()'s rows, it installs {2} while the old state 1 is reachable.
  - TLC reports the shorter counterexample, fn()'s. Without fn()'s ranged
    hooks, the same cfg gives gn()'s.

- **`mtag`** checks `TypeOK` and `DbDataSound`: when `get_db_data_rl`
  answers for a variable, the range holds every value the program stored in
  it in the run the database was built from. It takes assignments, the end
  of a file, a rebuild and a lookup, and it holds whichever earlier row
  `select_orig_rl` picks, because each insert adds a row and `get_vals`
  unions them all.
- **`mtag_kernel`** is a violation run. The comment in `is_kernel_param`
  (line 54) says kernel parameters are ignored, so that Smatch does not
  think they always hold their default. `vals` is never written, so
  `is_kernel_param` returns 0. An assignment to the parameter p is stored
  and printed, and after the rebuild `get_db_data_rl(p)` answers with that
  value alone (7 states).

- **`errptr`** checks `NoMissedDeref`: no dereference of `p` on a run where
  `p` is an error pointer passes without a warning there or earlier on that
  run since the assignment. It takes several steps: an assignment, a
  condition, a join that merges `err_ptr` with `checked`, and the
  dereference. Two code properties make it hold: `check_is_err_ptr` looks at
  `sm->possible`, not at the merged state; and for `PTR_RET(p) < -5` the
  false side matches both PTR_RET ranges in one scratch slist (the
  isolation defect of `hooks_implies`), where `match_err` is registered
  last, so the side keeps `err_ptr`.
- **`errptr_ptr_err`** is a violation run: `p = f(); ret = PTR_ERR(p);`
  gives `ret` the range -4095..-1 while `f` may have returned a valid
  pointer. `match_ptr_err` (line 149) reads `err_ptr`, which means "may be
  an error pointer", as "is one".
- **`errptr_arg`** is a violation run. `ErrPtrArgReported` asks for a
  message when a known bound (one that is not an end of `whole_range`) of
  some range of x lies outside -4095..0. TLC's trace is x in
  LLONG_MIN..-4096, as after `if (x < -4095) return ERR_PTR(x);`: every
  value is too low, but the lower bound is skipped as unknown and the
  upper bound is only compared with 0 (lines 127-134), so nothing is
  reported. A range whose only bound is a sentinel, such as
  LLONG_MIN..LLONG_MIN, is not required to be reported.

**Why the bounds are enough.** Each model reaches the interesting cases:

- Two joins are the least that show a history crossing two `if`-statements.
- Nesting 2 gives conditions inside branches and a binding shared across a join.
- Three variables with crossed orders cover every relative order the ordering test can meet (one shared symbol, one crossing pair).
- For `MtagData`, three assignments are enough to store two ranges for one variable and reach a lookup in the next run; with three values, a union short of the whole type is answered, and a union covering it is not.
- For `ErrPtr`, 6 statements with nesting 2 give an assignment, a condition inside a condition, returns on either path and a dereference after the join; the constants -5 and 0 put a comparison between two error codes and at the edge of the PTR_RET ranges.

Every pass run finishes in under two minutes.

**Mutants.** Every property of a passing run has a mutant: a plausible bug in a mapped definition that TLC catches.

- The true and false stacks are exchanged.
- The `modified` test of `filter_stack` is inverted.
- `merge_sm_states` returns an address off by one.
- `add_related` appends instead of inserting in order.
- `set_equiv` does not call `remove_from_equiv`.
- `assign_ranged_funcs` shares one fake slist across ranges.
- `db_return_implies_assign` keeps only the last row.
- A popped slist is installed even when it lacks the state.
- `check_err_ptr_deref` registers the PTR_RET hooks the other way round (`NoMissedDeref`).
- A merged `sm_state` keeps only its own state as possible (`TypeOK` of `ErrPtr`).
- `set_equiv` without `remove_from_equiv` breaks `EquivRefinement` too.
- A `break` overwrites the slist after the switch instead of merging into it (`ImpliedSound` of `implied_switch`).
- Exchanged true and false stacks break `GetImplicationsSound` too.
- `update_mtag_data` stores the earlier row without the union (`TypeOK` of `MtagData`: an empty row).
- `get_vals` overwrites instead of unioning (`DbDataSound`).
- `assign_ranged_funcs` installs only the range's minimum in the fake slist (`ExtraSound`).

## 4. Fairness

No liveness is claimed. The analysis of one function is a terminating, single-threaded walk, and the models bound it by a statement budget, so every cfg except `MC_MtagData*.cfg` says `CHECK_DEADLOCK FALSE`: the end of the function is a legitimate final state.

## 5. Not modelled (yet)

- **Timer and memory** are modelled as nondeterministic outcomes (`Faults`), not as elapsed time or a heap.
- **Switch fall-through:** a case reached without a `break` merges the case slist into the previous arm's. Every modelled arm ends with a `break`.
- **The SQL text and `sql_filter`:** a 1024-byte buffer that can truncate. This is string formatting and is not modelled.
- **Composition of `FunctionHooks` with `Implied`:** the states set through `__set_true_false_sm` becoming pools at the next join.
- **Composition of `Implied` with `Constraints`:** `delete_equiv_slist` over real relation lists, and aliases narrowed through `set_equiv_state_expr`.
- **Implications on the checker's states:** `implied_states_hook` also filters `ErrPtr`'s states after a condition on a merged SMATCH_EXTRA variable; `ErrPtr` leaves them unfiltered, which only adds possible states.
- **`smatch_function_ptrs.c`:** builds the names of function pointers as strings (`get_fnptr_name`) and prints them as SQL lines for the fact database. It keeps no state the engine reads; what it does is string formatting, which a model would only restate.
- **`smatch_mtag_data.c`:** the error message of `save_mtag_data` for a row without 4 columns, and the pointer-as-text encoding of ranges in the in-memory table, are left out.
- **`check_debug.c`:** prints the states it is asked about; its only state change is toggling `option_debug` (`__smatch_debug_on`/`off`), which the models' diagnostics do not read. Its handlers dereference the argument `get_argument_from_call_expr` returns without a NULL check, a crash on a call with too few arguments; that is a property of a malformed test file, not of the analysis.
