------------------------------ MODULE MtagData ------------------------------
(***************************************************************************)
(* The possible values of static and global variables (smatch_mtag_data.c).*)
(* While a file is parsed, every assignment to a tagged variable inserts a *)
(* row [loc, rl] into the in-memory table mtag_data: match_global_assign   *)
(* stores the initialiser's range, update_mtag_data the union of one       *)
(* earlier row of the same location and the assigned range.  At the end of *)
(* each file match_end_file prints every row (with --info); the build of   *)
(* the fact database loads those lines, and the next run's get_db_data_rl  *)
(* answers with the union of all rows of a location, or with nothing when  *)
(* that union is the whole type.  A location is a (tag, offset) pair, a    *)
(* range list a non-empty set of values.                                   *)
(***************************************************************************)
EXTENDS Integers, FiniteSets

CONSTANTS
  Locs,          \* the (tag, offset) pairs of tagged static and global variables
  KernelParams,  \* the variables of Locs that are kernel module parameters
  Untagged,      \* an expression expr_to_mtag_name_offset and get_mtag reject
  Values,        \* the values of the variables' type: the whole range
  Kernel,        \* option_project == PROJ_KERNEL
  Info,          \* option_info: save_mtag_data prints the rows
  MaxStmts       \* bound on the assignments of the model

ASSUME KernelParams \subseteq Locs /\ Untagged \notin Locs
ASSUME Kernel \in BOOLEAN /\ Info \in BOOLEAN

VARIABLES
  mem,        \* the in-memory table mtag_data: a set of [loc, rl] rows
  printed,    \* the "SQL: insert into mtag_data" lines printed in this run
  db,         \* the on-disk table mtag_data run_sql reads, built from a run
  inFile,     \* a file is being parsed
  idx,        \* the static idx of get_db_data_rl
  lookup,     \* the answer of the last get_db_data_rl call
  stmts,      \* assignments so far
  assigned,   \* history: the (loc, value) pairs stored in this run
  dbAssigned  \* history: the pairs stored in the run db was built from

vars == <<mem, printed, db, inFile, idx, lookup, stmts, assigned, dbAssigned>>

Exprs == Locs \cup {Untagged}
Ranges == SUBSET Values \ {{}}
Row(l, rl) == [loc |-> l, rl |-> rl]
RowsOf(T, l) == {r \in T : r.loc = l}
NoAnswer(e) == [expr |-> e, ret |-> 0, rl |-> {}]

\* The static stree vals is read by is_kernel_param and written nowhere.
vals == {}

\* is_kernel_param(name): looks for "__param_<name>.arg" among vals.
ParamName(name) == <<"__param", name, "arg">>
IsKernelParam(name) == Kernel /\ \E tmp \in vals : tmp = ParamName(name)

\* select_orig_rl: save_rl keeps the last row SQLite returns; the select has
\* no ORDER BY, so that is any row of the location, or NULL without one.
OrigChoices(l) == IF RowsOf(mem, l) = {} THEN {{}} ELSE {r.rl : r \in RowsOf(mem, l)}

\* insert_mtag_data: a new row, never an update of an earlier one.
InsertMtagData(l, rl) == mem' = mem \cup {Row(l, rl)}

\* The assignment of a value in rl to e, recorded in the history.
Store(e, rl) ==
  /\ inFile
  /\ stmts < MaxStmts
  /\ stmts' = stmts + 1
  /\ assigned' = assigned \cup (({e} \cap Locs) \X rl)

\* update_mtag_data storing the earlier row alone, without the union.
UpdateMtagDataOrig(e, rl) ==
  /\ Store(e, rl)
  /\ IF IsKernelParam(e) \/ e \notin Locs THEN UNCHANGED mem
     ELSE \E orig \in OrigChoices(e) : InsertMtagData(e, orig)
  /\ UNCHANGED <<printed, db, inFile, idx, lookup, dbAssigned>>

\* update_mtag_data(expr): an assignment inside a function.
UpdateMtagData(e, rl) ==
  /\ Store(e, rl)
  /\ IF IsKernelParam(e) \/ e \notin Locs THEN UNCHANGED mem
     ELSE \E orig \in OrigChoices(e) : InsertMtagData(e, orig \cup rl)
  /\ UNCHANGED <<printed, db, inFile, idx, lookup, dbAssigned>>

\* match_global_assign(expr): the initialiser of a global or static.
MatchGlobalAssign(e, rl) ==
  /\ Store(e, rl)
  /\ IF IsKernelParam(e) \/ e \notin Locs THEN UNCHANGED mem
     ELSE InsertMtagData(e, rl)
  /\ UNCHANGED <<printed, db, inFile, idx, lookup, dbAssigned>>

StartFile ==
  /\ ~inFile
  /\ inFile' = TRUE
  /\ UNCHANGED <<mem, printed, db, idx, lookup, stmts, assigned, dbAssigned>>

\* match_end_file: save_mtag_data prints every row of the table, with --info.
MatchEndFile ==
  /\ inFile
  /\ inFile' = FALSE
  /\ printed' = IF Info THEN printed \cup mem ELSE printed
  /\ UNCHANGED <<mem, db, idx, lookup, stmts, assigned, dbAssigned>>

\* The fact database is rebuilt from the printed lines and a new run starts:
\* the in-memory table and the static idx begin afresh.
BuildDb ==
  /\ ~inFile
  /\ db' = printed
  /\ dbAssigned' = assigned
  /\ mem' = {}
  /\ printed' = {}
  /\ assigned' = {}
  /\ idx' = 0
  /\ lookup' = NoAnswer(Untagged)
  /\ UNCHANGED <<inFile, stmts>>

\* get_vals overwriting instead of unioning: the answer is one row's range.
GetValsOne(rows) == IF rows = {} THEN {} ELSE (CHOOSE r \in rows : TRUE).rl

\* get_vals: the union of the value column of every row.
GetVals(rows) == UNION {r.rl : r \in rows}

\* is_whole_rl: the range list covers the whole type.
IsWholeRl(rl) == rl = Values

\* cached[8]: its writes are commented out, so every entry keeps expr NULL.
CacheSize == 8
Cached == [i \in 0..(CacheSize - 1) |-> [expr |-> "NULL", rl |-> {}]]

\* get_db_data_rl(expr, &rl).
GetDbDataRl(e) ==
  /\ inFile
  /\ IF e \notin Locs THEN lookup' = NoAnswer(e) /\ UNCHANGED idx
     ELSE IF \E i \in DOMAIN Cached : Cached[i].expr = e
     THEN LET i == CHOOSE j \in DOMAIN Cached : Cached[j].expr = e
          IN /\ lookup' = [expr |-> e, ret |-> IF Cached[i].rl = {} THEN 0 ELSE 1,
                           rl |-> Cached[i].rl]
             /\ UNCHANGED idx
     ELSE LET rl == GetVals(RowsOf(db, e))
          IN /\ lookup' = IF rl = {} \/ IsWholeRl(rl) THEN NoAnswer(e)
                          ELSE [expr |-> e, ret |-> 1, rl |-> rl]
             /\ idx' = (idx + 1) % CacheSize
  /\ UNCHANGED <<mem, printed, db, inFile, stmts, assigned, dbAssigned>>

Init ==
  /\ mem = {}
  /\ printed = {}
  /\ db = {}
  /\ inFile = FALSE
  /\ idx = 0
  /\ lookup = NoAnswer(Untagged)
  /\ stmts = 0
  /\ assigned = {}
  /\ dbAssigned = {}

Next ==
  \/ \E e \in Exprs, rl \in Ranges : UpdateMtagData(e, rl) \/ MatchGlobalAssign(e, rl)
  \/ StartFile
  \/ MatchEndFile
  \/ BuildDb
  \/ \E e \in Exprs : GetDbDataRl(e)

Spec == Init /\ [][Next]_vars

-----------------------------------------------------------------------------

TypeOK ==
  /\ mem \subseteq [loc : Locs, rl : Ranges]
  /\ printed \subseteq [loc : Locs, rl : Ranges]
  /\ db \subseteq [loc : Locs, rl : Ranges]
  /\ inFile \in BOOLEAN
  /\ idx \in 0..(CacheSize - 1)
  /\ lookup \in [expr : Exprs, ret : {0, 1}, rl : SUBSET Values]
  /\ stmts \in 0..MaxStmts
  /\ assigned \subseteq Locs \X Values
  /\ dbAssigned \subseteq Locs \X Values

\* What get_db_data_rl answers for a variable holds every value the program
\* stored in it in the run the database was built from: update_mtag_data,
\* match_global_assign and match_end_file lose no row, and get_vals unions
\* all of them, whichever earlier row select_orig_rl happened to pick.
DbDataSound ==
  lookup.ret = 1 =>
    \A v \in Values : <<lookup.expr, v>> \in dbAssigned => v \in lookup.rl

\* The comment in is_kernel_param: kernel parameters are ignored, so that
\* Smatch does not think a parameter always holds its default; then
\* get_db_data_rl never answers with a range for one.
KernelParamIgnored ==
  Kernel /\ lookup.expr \in KernelParams => lookup.ret = 0
=============================================================================
