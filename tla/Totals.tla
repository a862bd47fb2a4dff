---- MODULE Totals ----
(***************************************************************************)
(* Sums of amounts, as the solvency comment of the escrow contract uses    *)
(* them: one amount per account, or one per question id.                   *)
(*                                                                         *)
(* Total counts base units.  Counting a finite set instead of recursing    *)
(* over the domain lets the laws of Total be proved for every finite       *)
(* domain (module TotalsProofs).                                           *)
(***************************************************************************)
EXTENDS Integers, FiniteSets

\* The base units of an amount, told apart by whom or what it belongs to.
BaseUnits(i, amount) == {i} \X (1..amount)

UnitsOf(f) == UNION {BaseUnits(i, f[i]) : i \in DOMAIN f}

Total(f) == Cardinality(UnitsOf(f))
====
