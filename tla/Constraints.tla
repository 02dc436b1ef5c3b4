---------------------------- MODULE Constraints ----------------------------
(***************************************************************************)
(* The constraint tracker of smatch (smatch_constraints.c): the relation   *)
(* lists kept in the SMATCH_EXTRA state of a variable, and the            *)
(* equivalence classes that set_equiv() builds for assignments a = b.     *)
(*                                                                         *)
(* A variable is identified by (sym, name); Sym and Name give the pointer *)
(* order of its symbol and the strcmp() order of its name, independently. *)
(* Every relation the code adds is SPECIAL_EQUAL (add_equiv), so an entry *)
(* of a relation list is the variable it names.                            *)
(*   bound    the variables that have an SMATCH_EXTRA state                *)
(*   related  the relation list of each variable's state (<< >> is NULL)   *)
(*   val      ghost: the concrete value of each variable                   *)
(***************************************************************************)
EXTENDS Integers, Sequences, FiniteSets, SequencesExt

CONSTANTS
  V,          \* the variables (model values)
  Sym,        \* Sym[v]: the address of v's symbol
  Name,       \* Name[v]: the rank of v's name in strcmp() order
  Vals,       \* the values assigned to variables
  MaxSteps    \* bound on the number of assignments analysed

ASSUME \A v, w \in V : v # w => Sym[v] # Sym[w] \/ Name[v] # Name[w]

VARIABLES bound, related, val, steps
vars == <<bound, related, val, steps>>

(***************************************************************************)
(* Relation lists                                                          *)
(***************************************************************************)

\* The test add_related() and del_related() use to step over an entry
\* that sorts before (sym, name): tmp->sym < sym || strcmp(tmp->name, name) < 0.
SortsBefore(t, x) == Sym[t] < Sym[x] \/ Name[t] < Name[x]

\* Mutant: add_related() appending without looking for its place.
AddRelatedAppend(L, x) == IF x \in ToSet(L) THEN L ELSE Append(L, x)

\* add_related(state, SPECIAL_EQUAL, name, sym): the first entry not
\* stepped over is either x (nothing to do) or the place to insert x.
AddRelated(L, x) ==
  LET i == SelectInSeq(L, LAMBDA t : ~SortsBefore(t, x))
  IN IF i = 0 THEN Append(L, x)
     ELSE IF L[i] = x THEN L
     ELSE InsertAt(L, i, x)

\* del_related(): delete every matching entry up to the first entry that
\* is neither stepped over nor a match.
RECURSIVE DelRelated(_, _)
DelRelated(L, x) ==
  IF L = << >> THEN L
  ELSE IF SortsBefore(Head(L), x) THEN << Head(L) >> \o DelRelated(Tail(L), x)
  ELSE IF Head(L) = x THEN DelRelated(Tail(L), x)
  ELSE L

\* get_common_relationship(state, SPECIAL_EQUAL, name, sym) # NULL.
GetCommonRelationship(L, x) ==
  LET i == SelectInSeq(L, LAMBDA t : ~SortsBefore(t, x))
  IN i # 0 /\ L[i] = x

(***************************************************************************)
(* remove_from_equiv(name, sym) on the relation lists R of the variables  *)
(* in B: every other member of v's class gets a clone of v's state with v *)
(* deleted; a class left with one member loses its relation list.  v's    *)
(* own binding is not rewritten.                                          *)
(***************************************************************************)
RemoveFromEquiv(v, R, B) ==
  LET st == DelRelated(R[v], v)
      newst == IF Len(st) = 1 THEN << >> ELSE st
  IN IF v \notin B \/ R[v] = << >> THEN R
     ELSE [x \in V |-> IF x \in ToSet(st) THEN newst ELSE R[x]]

(***************************************************************************)
(* Actions                                                                 *)
(***************************************************************************)

\* Mutant: set_equiv() without the call to remove_from_equiv().
SetEquivNoRemove(l, r) ==
  LET st0 == related[r]
      st1 == IF st0 = << >> THEN AddRelated(st0, r) ELSE st0
      st2 == AddRelated(st1, l)
  IN /\ steps < MaxSteps
     /\ steps' = steps + 1
     /\ related' = [x \in V |-> IF x \in ToSet(st2) THEN st2 ELSE related[x]]
     /\ bound' = bound \cup {l, r}
     /\ val' = [val EXCEPT ![l] = val[r]]

\* Mutant: no SMATCH_EXTRA state created for a right side that has none.
SetEquivNoRightState(l, r) ==
  LET st0 == related[r]
      R1 == RemoveFromEquiv(l, related, bound)
      st1 == IF st0 = << >> THEN AddRelated(st0, r) ELSE st0
      st2 == AddRelated(st1, l)
  IN /\ steps < MaxSteps
     /\ steps' = steps + 1
     /\ related' = [x \in V |-> IF x \in ToSet(st2) THEN st2 ELSE R1[x]]
     /\ bound' = bound \cup {l}
     /\ val' = [val EXCEPT ![l] = val[r]]

\* set_equiv(left, right) for the assignment l = r.  right_sm is read
\* (and given an undefined state if r has none) before remove_from_equiv(l)
\* runs; the state installed on every member is a clone of right_sm's state.
SetEquiv(l, r) ==
  LET st0 == related[r]
      R1 == RemoveFromEquiv(l, related, bound \cup {r})
      st1 == IF st0 = << >> THEN AddRelated(st0, r) ELSE st0
      st2 == AddRelated(st1, l)
  IN /\ steps < MaxSteps
     /\ steps' = steps + 1
     /\ related' = [x \in V |-> IF x \in ToSet(st2) THEN st2 ELSE R1[x]]
     /\ bound' = bound \cup {l, r}
     /\ val' = [val EXCEPT ![l] = val[r]]

\* v = c: remove_from_equiv_expr(v), then the caller gives v a fresh state
\* with no relations.
Modify(v, c) ==
  /\ steps < MaxSteps
  /\ steps' = steps + 1
  /\ related' = [RemoveFromEquiv(v, related, bound) EXCEPT ![v] = << >>]
  /\ bound' = bound \cup {v}
  /\ val' = [val EXCEPT ![v] = c]

Init ==
  /\ bound = {}
  /\ related = [v \in V |-> << >>]
  /\ val \in [V -> Vals]
  /\ steps = 0

Next ==
  \/ \E l, r \in V : SetEquiv(l, r)
  \/ \E v \in V, c \in Vals : Modify(v, c)

Spec == Init /\ [][Next]_vars

(***************************************************************************)
(* Properties                                                              *)
(***************************************************************************)
TypeOK ==
  /\ bound \subseteq V
  /\ related \in [V -> Seq(V)]
  /\ \A v \in V \ bound : related[v] = << >>
  /\ val \in [V -> Vals]
  /\ steps \in 0..MaxSteps

(* The sorted relation lists stay searchable although add_related() and   *)
(* del_related() order entries by a test that is not lexicographic on     *)
(* (sym, name): no entry is listed twice, and get_common_relationship()   *)
(* finds exactly the entries that are listed.                              *)
RelatedListsSearchable ==
  \A v \in V :
    /\ Len(related[v]) = Cardinality(ToSet(related[v]))
    /\ \A x \in V : GetCommonRelationship(related[v], x) <=> x \in ToSet(related[v])

(* Equivalence classes are shared: a variable whose relation list names   *)
(* w has the very list w has, and names itself (set_equiv() installs one *)
(* state under every member; remove_from_equiv() rewrites every other     *)
(* member before the caller replaces the removed variable's state).       *)
EquivSymmetric ==
  \A v \in V : \A w \in ToSet(related[v]) :
    /\ v \in ToSet(related[v])
    /\ related[w] = related[v]

(* The relation lists are sound: variables listed as equal hold equal     *)
(* values, after any sequence of assignments a = b and a = c.             *)
EquivValuesEqual ==
  \A v \in V : \A w \in ToSet(related[v]) : val[v] = val[w]

(* An equivalence class of size one is not a relation (spec 4.2; the      *)
(* ptr_list_size() == 1 test of remove_from_equiv()): no relation list    *)
(* names a single variable.                                               *)
NoSingletonClass ==
  \A v \in V : Len(related[v]) # 1

(***************************************************************************)
(* Refinement: the class of v is the set its relation list names, or v    *)
(* alone when the list is NULL.                                            *)
(***************************************************************************)
Classes == [v \in V |-> IF related[v] = << >> THEN {v} ELSE ToSet(related[v])]

Abs == INSTANCE EquivClasses WITH cls <- Classes

(* The relation lists implement the equivalence classes the tracker       *)
(* promises: every set_equiv(l, r) moves l from its class into r's and    *)
(* every other modification takes v out of its class, on the lists of    *)
(* every member, and values agree with the abstract ones.                 *)
EquivRefinement == Abs!Spec
=============================================================================
