------------------------------- MODULE Totals -------------------------------
(***************************************************************************)
(* Sums of natural-number functions over a finite domain, the elements of a *)
(* finite set in order, and the two divisions of OpenZeppelin's             *)
(* Math.mulDiv.  A sum is defined as the size of a disjoint union and an    *)
(* ordering by what it is, not by recursion, so that the facts proved about *)
(* them in Totals_proofs rest on cardinalities alone.                       *)
(***************************************************************************)
EXTENDS Integers, FiniteSets

(* One element for every unit counted at x. *)
UnitsAt(f, x) == {x} \X (1 .. f[x])

(* The sum of f over its domain. *)
Total(f) == Cardinality(UNION {UnitsAt(f, x) : x \in DOMAIN f})

(* The elements of S, each once, every one before those it comes before: S is
   finite and the order total and strict. *)
Ordered(S, Precedes(_, _)) ==
  CHOOSE s \in [1 .. Cardinality(S) -> S] :
    \A i, j \in 1 .. Cardinality(S) : i < j => Precedes(s[i], s[j])

(* Numbers, smallest first. *)
Ascending(S) == Ordered(S, LAMBDA i, j : i < j)

(* Math.mulDiv(a, b, d): rounds down. *)
MulDivFloor(a, b, d) == (a * b) \div d

(* Math.mulDiv(a, b, d, Math.Rounding.Ceil): rounds up. *)
MulDivCeil(a, b, d) == (a * b + d - 1) \div d
=============================================================================
