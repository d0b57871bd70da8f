--------------------------- MODULE MCLeaveLedger ---------------------------
(***************************************************************************)
(* Small instances of LeaveLedger.  Two years: days 0 and 1 are year 1,    *)
(* day 2 is year 2.  An hour has two minutes, so that an hour and a minute *)
(* differ.  Integers have four bits, so that four hours are eight minutes, *)
(* which wrap around to minus eight.                                       *)
(***************************************************************************)
EXTENDS LeaveLedger, TLC

CONSTANTS s1, s2

MCSessions == {s1, s2}
SessionSymmetry == Permutations(MCSessions)

MCYears == {1, 2}
MCYearOf == 0 :> 1 @@ 1 :> 1 @@ 2 :> 2
MCYearStart == 1 :> 0 @@ 2 :> 2
MCYearEnd == 1 :> 1 @@ 2 :> 2

\* Minutes accrued by each day, per contract version and year.
MCAccrued ==
  "full" :> (1 :> (0 :> 2 @@ 1 :> 4 @@ 2 :> 4) @@ 2 :> (0 :> 0 @@ 1 :> 0 @@ 2 :> 2))
    @@ "part" :> (1 :> (0 :> 1 @@ 1 :> 2 @@ 2 :> 2) @@ 2 :> (0 :> 0 @@ 1 :> 0 @@ 2 :> 2))

FullTimeAccrued == "full" :> MCAccrued["full"]

\* A deducting leave inside year 1, one across the year's end, one that
\* deducts nothing.
MCLeaveForms ==
  {[deducts |-> TRUE, start |-> 1, end |-> 1, minutes |-> 2],
   [deducts |-> TRUE, start |-> 1, end |-> 2, minutes |-> 1],
   [deducts |-> FALSE, start |-> 1, end |-> 2, minutes |-> 1]}

MCPayoutForms ==
  {[hours |-> 1, year |-> 1], [hours |-> 4, year |-> 1], [hours |-> 1, year |-> 2]}

\* Payouts whose minutes fit into an integer.
SmallPayoutForms ==
  {[hours |-> 1, year |-> 1], [hours |-> 2, year |-> 1], [hours |-> 1, year |-> 2]}

\* The first year alone.
FirstYear == {1}
FirstYearOf == 0 :> 1 @@ 1 :> 1
FirstYearStart == 1 :> 0
FirstYearEnd == 1 :> 1
FirstYearAccrued == "full" :> (1 :> (0 :> 2 @@ 1 :> 3))

OneLeaveForm == {[deducts |-> TRUE, start |-> 1, end |-> 1, minutes |-> 2]}
\* Eight minutes, which wrap around.
OnePayoutForm == {[hours |-> 4, year |-> 1]}
=============================================================================
