----------------------------- MODULE ErrPtrArg -----------------------------
(***************************************************************************)
(* match_err_ptr() of check_err_ptr_deref.c: the function hook on          *)
(* ERR_PTR(x) that warns when x may be below -4095 or above 0.  It folds   *)
(* the ranges of the SMATCH_EXTRA states merged into x (sm->possible),     *)
(* taking no bound that equals the corresponding end of whole_range.      *)
(*   possible  the ranges of x's possible states, from one or two paths   *)
(*   msgs      the messages given ("too_low", "non_neg")                   *)
(*   done      whether the hook has run                                    *)
(***************************************************************************)
EXTENDS Integers, FiniteSets, FiniteSetsExt

CONSTANTS
  WholeMin,    \* whole_range.min (LLONG_MIN; a sentinel below every Point)
  WholeMax,    \* whole_range.max (LLONG_MAX; a sentinel above every Point)
  Points       \* the bounds of the ranges enumerated

ASSUME {WholeMin, WholeMax} \subseteq Points
ASSUME \A n \in Points : WholeMin <= n /\ n <= WholeMax

VARIABLES possible, msgs, done
vars == <<possible, msgs, done>>

AnyRange == {[min |-> a, max |-> b] : a, b \in Points}
Ranges == {r \in AnyRange : r.min <= r.max}

\* The FOR_EACH_PTR loop: min and max start at the opposite ends of
\* whole_range and take every bound that is not the end of whole_range.
Bounds(P) ==
  FoldSet(LAMBDA r, acc :
            [min |-> IF r.min # WholeMin /\ r.min < acc.min THEN r.min ELSE acc.min,
             max |-> IF r.max # WholeMax /\ r.max > acc.max THEN r.max ELSE acc.max],
          [min |-> WholeMax, max |-> WholeMin], P)

\* The two sm_msg() calls.
ErrPtrMsgs(P) ==
  {m \in {"too_low"} : Bounds(P).min < -4095} \cup {m \in {"non_neg"} : Bounds(P).max > 0}

Init ==
  /\ possible \in {{r, q} : r, q \in Ranges}
  /\ msgs = {}
  /\ done = FALSE

\* match_err_ptr(): the hook on a call of ERR_PTR(x).
MatchErrPtr ==
  /\ ~done
  /\ done' = TRUE
  /\ msgs' = ErrPtrMsgs(possible)
  /\ UNCHANGED possible

Spec == Init /\ [][MatchErrPtr]_vars

TypeOK ==
  /\ possible \subseteq Ranges
  /\ msgs \subseteq {"too_low", "non_neg"}
  /\ done \in BOOLEAN

(* ERR_PTR(x) is reported when a path makes x definitely out of the error *)
(* range: a range lying wholly below -4095 (above 0), or one whose known  *)
(* bound lies there.  A bound equal to an end of whole_range is taken for *)
(* unknown, as the hook takes it, so only known bounds decide.             *)
Known(n) == n \notin {WholeMin, WholeMax}
DefinitelyTooLow(P) == \E r \in P : \E n \in {r.min, r.max} : Known(n) /\ n < -4095
DefinitelyNonNeg(P) == \E r \in P : \E n \in {r.min, r.max} : Known(n) /\ n > 0

ErrPtrArgReported ==
  done =>
    /\ DefinitelyTooLow(possible) => "too_low" \in msgs
    /\ DefinitelyNonNeg(possible) => "non_neg" \in msgs
=============================================================================
