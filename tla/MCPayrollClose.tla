--------------------------- MODULE MCPayrollClose ---------------------------
(***************************************************************************)
(* Small instances of PayrollClose.                                        *)
(***************************************************************************)
EXTENDS PayrollClose, TLC

CONSTANTS e1, e2, a1, a2, shift, overtime, more, payout

Row(state, e, first, last) ==
  [state |-> state, employee |-> e, first |-> first, last |-> last,
   minutes |-> 1, paidBy |-> None]

Close(start, end, group) ==
  [start |-> start, end |-> end, cutoff |-> end, group |-> group]

AllKinds == shift :> "schedule" @@ overtime :> "overtime" @@ more :> "overtime"
              @@ payout :> "payout"
ItemKinds == [i \in Items |-> AllKinds[i]]

\* e1 goes from an on-call contract to a permanent one on day 2; e2 is on call.
Careers == e1 :> <<"on_call", "fixed">> @@ e2 :> <<"on_call", "on_call">>
Contracts == [e \in Employees |-> Careers[e]]

\* Two periods that overlap.
Short == Close(1, 1, "on_call")
Long == Close(1, 2, "fixed")
Overlapping == {Short, Long}

Request(employees, c, preview) ==
  [employees |-> employees, closing |-> c, preview |-> preview]
SomeRequests == {Request({e1}, Long, FALSE), Request({e1, e2}, Short, TRUE)}

SomeShifts == {<<e1, 1, 1>>, <<e1, 1, 2>>, <<e1, 2, 2>>, <<e2, 1, 1>>}

\* What there is to begin with: a shift, a payout, or overtime entries.
NoRow == [i \in Items |-> Row(IF i = payout THEN "rejected" ELSE "deleted", e1, 1, 1)]
Tables == {[NoRow EXCEPT ![shift] = Row("live", e1, 1, 1)],
           [NoRow EXCEPT ![payout] = Row("pending", e1, None, None)],
           [NoRow EXCEPT ![overtime] = Row("unused", e1, 1, 1),
                         ![more] = Row("approved", e1, 1, 1)]}
=============================================================================
