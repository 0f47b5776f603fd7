------------------------------- MODULE Total -------------------------------
(***************************************************************************)
(* The sum of a Nat-valued function over a finite set, as the number of    *)
(* elements of a disjoint union: one element <<x, k>> for each unit that   *)
(* f counts at x.  This form has no recursion, so that its laws (in        *)
(* SimTradingProofs) follow from those of Cardinality, for finite sets.    *)
(***************************************************************************)
EXTENDS Naturals, FiniteSets

(* One element for each unit that f counts over S. *)
Units(f, S) == UNION {{x} \X (1 .. f[x]) : x \in S}

Total(f, S) == Cardinality(Units(f, S))

============================================================================
