----------------------------- MODULE LedgerSums -----------------------------
(***************************************************************************)
(* SUM(minutes) over the rows of a table that a WHERE clause selects.      *)
(*                                                                         *)
(* A sum is the number of units its rows are worth: row r is worth the     *)
(* units <<r, 1>> .. <<r, minutes[r]>>.  Counting units instead of folding *)
(* over the rows keeps every fact about a sum a fact about cardinalities.  *)
(***************************************************************************)
EXTENDS Integers, FiniteSets

Units(rows, minutes) == UNION {{r} \X (1 .. minutes[r]) : r \in rows}

Total(rows, minutes) == Cardinality(Units(rows, minutes))
=============================================================================
