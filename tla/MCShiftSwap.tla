----------------------------- MODULE MCShiftSwap -----------------------------
(***************************************************************************)
(* Small instances of ShiftSwap.                                           *)
(***************************************************************************)
EXTENDS ShiftSwap, TLC

CONSTANTS e1, e2, e3, w1, w2, s1, s2

Shift(e, from, to) ==
  [state |-> "live", employee |-> e, slot |-> [start |-> from, end |-> to]]

Swap(e, sc, f, sd) ==
  [requester |-> e, recipient |-> f, requesterSchedule |-> sc,
   recipientSchedule |-> sd]

TwoSwaps == {w1, w2}
TwoSessions == {s1, s2}
Symmetry == Permutations(TwoSwaps) \cup Permutations(TwoSessions)

AllHandlers == HandlerNames

\* Two shifts, and one that can be added, all at one time; they have begun
\* at time 1.
ShiftsAndRoom == <<Shift(e1, 0, 2), Shift(e2, 0, 2), NoRow("unused")>>
Day == {[start |-> 0, end |-> 2]}
BothWays == {Swap(e1, 1, e2, 2), Swap(e2, 2, e1, 1)}

\* Three shifts in a ring of employees: every two requests share a schedule.
Hour == {[start |-> 1, end |-> 2]}
ThreeShifts == <<Shift(e1, 1, 2), Shift(e2, 1, 2), Shift(e3, 1, 2)>>
Ring == {Swap(e1, 1, e2, 2), Swap(e2, 2, e3, 3), Swap(e3, 3, e1, 1)}

\* e1 may be given shift 2 for shift 1 and shift 4 for shift 3; 2 and 4 overlap.
FourShifts == <<Shift(e1, 0, 1), Shift(e2, 4, 6), Shift(e1, 1, 2), Shift(e3, 5, 7)>>
AllSlots == {FourShifts[i].slot : i \in 1..4}
TwoGains == {Swap(e1, 1, e2, 2), Swap(e1, 3, e3, 4)}
=============================================================================
