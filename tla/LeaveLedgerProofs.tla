------------------------- MODULE LeaveLedgerProofs -------------------------
(***************************************************************************)
(* Type correctness, lock exclusivity, freshness of the reads, the balance *)
(* invariant and the finality of decisions of the leave ledger, and that   *)
(* it implements LeaveAccounts, for every set of employees, sessions and   *)
(* requests, every calendar and every accrual that never falls with time.  *)
(***************************************************************************)
EXTENDS LeaveLedger, FiniteSetTheorems, TLAPS

-----------------------------------------------------------------------------
(* What a SUM over rows does when rows are added, dropped or rewritten *)

\* A finite selection of rows is worth finitely many units.
LEMMA UnitsFinite ==
  ASSUME NEW rows, IsFiniteSet(rows),
         NEW minutes, \A r \in rows : minutes[r] \in Nat
  PROVE  /\ IsFiniteSet(Units(rows, minutes))
         /\ Total(rows, minutes) \in Nat
<1> DEFINE blocks == {{r} \X (1 .. minutes[r]) : r \in rows}
           f == [r \in rows |-> {r} \X (1 .. minutes[r])]
<1>1. f \in Surjection(rows, blocks)
  BY DEF Surjection
<1>2. IsFiniteSet(blocks)
  BY <1>1, FS_Surjection
<1>3. ASSUME NEW r \in rows
      PROVE  IsFiniteSet({r} \X (1 .. minutes[r]))
  <2>1. IsFiniteSet({r})
    BY FS_Singleton
  <2>2. IsFiniteSet(1 .. minutes[r])
    BY FS_Interval
  <2> QED
    BY <2>1, <2>2, FS_Product
<1>4. IsFiniteSet(UNION blocks)
  BY <1>2, <1>3, FS_UNION
<1>5. IsFiniteSet(Units(rows, minutes))
  BY <1>4 DEF Units
<1> QED
  BY <1>5, FS_CardinalityType DEF Total

\* One more row adds its own minutes.
LEMMA TotalAdd ==
  ASSUME NEW rows, IsFiniteSet(rows), NEW r, r \notin rows,
         NEW minutes, \A x \in rows \cup {r} : minutes[x] \in Nat
  PROVE  Total(rows \cup {r}, minutes) = Total(rows, minutes) + minutes[r]
<1> DEFINE block == {r} \X (1 .. minutes[r])
<1>0. minutes[r] \in Nat
  OBVIOUS
<1>1. IsFiniteSet(block) /\ Cardinality(block) = minutes[r]
  <2>1. IsFiniteSet({r}) /\ Cardinality({r}) = 1
    BY FS_Singleton
  <2>2. IsFiniteSet(1 .. minutes[r]) /\ Cardinality(1 .. minutes[r]) = minutes[r]
    BY <1>0, FS_Interval
  <2>3. IsFiniteSet(block) /\ Cardinality(block) = Cardinality({r}) * Cardinality(1 .. minutes[r])
    BY <2>1, <2>2, FS_Product
  <2>4. 1 * minutes[r] = minutes[r]
    BY <1>0
  <2> QED
    BY <2>1, <2>2, <2>3, <2>4
<1>2. Units(rows \cup {r}, minutes) = Units(rows, minutes) \cup block
  BY DEF Units
<1>3. Units(rows, minutes) \cap block = {}
  BY DEF Units
<1>4. IsFiniteSet(Units(rows, minutes)) /\ Total(rows, minutes) \in Nat
  BY UnitsFinite
<1> HIDE DEF block
<1>5. Cardinality(Units(rows, minutes) \cup block)
        = Cardinality(Units(rows, minutes)) + Cardinality(block) - Cardinality({})
  BY <1>1, <1>3, <1>4, FS_Union
<1>6. Cardinality({}) = 0
  BY FS_EmptySet
<1> QED
  <2>1. Total(rows \cup {r}, minutes) = Total(rows, minutes) + minutes[r] - 0
    BY <1>1, <1>2, <1>5, <1>6, Zenon DEF Total
  <2> QED
    BY <2>1, <1>0, <1>4

\* Fewer rows, none worth more than before, are worth no more.
LEMMA TotalMono ==
  ASSUME NEW rows, IsFiniteSet(rows), NEW some, some \subseteq rows,
         NEW minutes, \A r \in rows : minutes[r] \in Nat,
         NEW fewer, \A r \in some : fewer[r] \in Nat /\ fewer[r] =< minutes[r]
  PROVE  Total(some, fewer) =< Total(rows, minutes)
<1>1. IsFiniteSet(Units(rows, minutes))
  BY UnitsFinite
<1>2. Units(some, fewer) \subseteq Units(rows, minutes)
  <2>1. ASSUME NEW r \in some
        PROVE  1 .. fewer[r] \subseteq 1 .. minutes[r]
    OBVIOUS
  <2> QED
    BY <2>1 DEF Units
<1> QED
  BY <1>1, <1>2, FS_Subset DEF Total

\* A sum depends only on the selected rows.
LEMMA TotalSame ==
  ASSUME NEW rows, NEW minutes, NEW same, \A r \in rows : same[r] = minutes[r]
  PROVE  Total(rows, same) = Total(rows, minutes)
BY DEF Total, Units

\* A selected row is part of the sum.
LEMMA TotalCovers ==
  ASSUME NEW rows, IsFiniteSet(rows), NEW r \in rows,
         NEW minutes, \A x \in rows : minutes[x] \in Nat
  PROVE  minutes[r] =< Total(rows, minutes)
<1> DEFINE rest == rows \ {r}
<1>1. IsFiniteSet(rest)
  BY FS_RemoveElement
<1>2. Total(rest, minutes) \in Nat
  BY <1>1, UnitsFinite
<1>3. rest \cup {r} = rows
  OBVIOUS
<1>4. Total(rest \cup {r}, minutes) = Total(rest, minutes) + minutes[r]
  BY <1>1, <1>3, TotalAdd
<1>5. minutes[r] \in Nat
  OBVIOUS
<1> HIDE DEF rest
<1> QED
  BY <1>2, <1>3, <1>4, <1>5

-----------------------------------------------------------------------------
(* Types *)

USE DEF Days

LEMMA AccruedType ==
  ASSUME NEW c \in Contracts, NEW y \in Years, NEW d \in Days
  PROVE  Accrued[c][y][d] \in 0 .. MaxInt
<1>1. Accrued[c] \in [Years -> [Days -> 0 .. MaxInt]]
  BY AccrualAssumption
<1> QED
  BY <1>1

LEMMA LegalTotalType ==
  ASSUME TypeOK, NEW e \in Employees, NEW y \in Years, NEW d \in Days
  PROVE  LegalTotal(e, y, d) \in 0 .. MaxInt
<1>1. contract[e] \in Contracts /\ YearEnd[y] \in Days
  BY CalendarAssumption DEF TypeOK
<1>2. \A c \in Contracts, k \in Days : Accrued[c][y][k] \in 0 .. MaxInt
  BY AccruedType
<1> QED
  BY <1>1, <1>2, PopulationAssumption DEF LegalTotal

LEMMA BalanceAsOfType ==
  ASSUME TypeOK, NEW y \in Years
  PROVE  BalanceAsOf(y) \in Days
BY CalendarAssumption DEF BalanceAsOf, TypeOK

\* The rows a balance counts are finitely many and worth natural minutes.
LEMMA LeaveSumType ==
  ASSUME TypeOK, NEW e, NEW y
  PROVE  /\ IsFiniteSet(ChargedLeaves(e, y))
         /\ ChargedLeaves(e, y) \subseteq LeaveIds
         /\ \A l \in LeaveIds : LeaveMinutes[l] \in Nat
         /\ Total(ChargedLeaves(e, y), LeaveMinutes) \in Nat
<1>1. ChargedLeaves(e, y) \subseteq LeaveIds /\ IsFiniteSet(ChargedLeaves(e, y))
  BY PopulationAssumption, FS_Subset DEF ChargedLeaves
<1>2. ASSUME NEW l \in LeaveIds PROVE LeaveMinutes[l] \in Nat
  BY DEF TypeOK, LeaveMinutes, LeaveRows, NoLeave
<1> QED
  BY <1>1, <1>2, UnitsFinite

LEMMA PayoutSumType ==
  ASSUME TypeOK, NEW e, NEW y, NEW statuses
  PROVE  /\ IsFiniteSet(PayoutsOf(e, y, statuses))
         /\ PayoutsOf(e, y, statuses) \subseteq PayoutIds
         /\ \A p \in PayoutIds : PayoutMinutes[p] \in Nat
         /\ Total(PayoutsOf(e, y, statuses), PayoutMinutes) \in Nat
<1>1. /\ PayoutsOf(e, y, statuses) \subseteq PayoutIds
      /\ IsFiniteSet(PayoutsOf(e, y, statuses))
  BY PopulationAssumption, FS_Subset DEF PayoutsOf
<1>2. ASSUME NEW p \in PayoutIds PROVE PayoutMinutes[p] \in Nat
  <2>1. payouts[p].hours \in Nat
    BY DEF TypeOK, PayoutRows, NoPayout
  <2> QED
    BY <2>1, PopulationAssumption DEF PayoutMinutes, Minutes
<1> QED
  BY <1>1, <1>2, UnitsFinite

LEMMA UsedType ==
  ASSUME TypeOK, NEW e, NEW y
  PROVE  Used(e, y) \in Nat /\ Reserved(e, y) \in Nat
BY LeaveSumType, PayoutSumType DEF Used, Reserved, ChargedPayouts

LEMMA LeaveRowType ==
  ASSUME NEW f \in LeaveForms, NEW e \in Employees, NEW status \in LeaveStatus
  PROVE  LeaveRow(status, e, f) \in LeaveRows
BY PopulationAssumption DEF LeaveRow, LeaveRows, LeaveForm

LEMMA PayoutRowType ==
  ASSUME NEW f \in PayoutForms, NEW e \in Employees, NEW status \in PayoutStatus
  PROVE  PayoutRow(status, e, f) \in PayoutRows
BY PopulationAssumption DEF PayoutRow, PayoutRows, PayoutForm

LEMMA MaxIntType == MaxInt \in Nat
BY PopulationAssumption

LEMMA AdminType == Admins \subseteq Employees
BY PopulationAssumption

LEMMA BeginType ==
  ASSUME TypeOK, NEW s \in Sessions, NEW op \in PayoutOps \cup {"approveLeave"},
         NEW row \in LeaveIds \cup PayoutIds, NEW e \in Employees, NEW y \in Years,
         NEW minutes \in Nat, NEW a \in Employees, Begin(s, op, row, e, y, minutes, a)
  PROVE  TypeOK'
<1>1. 0 \in 0 .. MaxInt
  BY MaxIntType
<1>2. [pc |-> "lock", op |-> op, row |-> row, employee |-> e, year |-> y,
       minutes |-> minutes, admin |-> a, total |-> 0, used |-> 0, reserved |-> 0]
        \in OpenTx
  BY <1>1 DEF OpenTx
<1>3. tx'[s] \in OpenTx /\ tx' = [tx EXCEPT ![s] = tx'[s]]
  BY <1>2 DEF Begin, TypeOK, IdleTx
<1> QED
  BY <1>3 DEF Begin, TypeOK

LEMMA StepType ==
  ASSUME TypeOK, NEW s \in Sessions, NEW pc, NEW next \in OpenTx, Step(s, pc, next)
  PROVE  TypeOK'
BY DEF Step, TypeOK

LEMMA TxOpen ==
  ASSUME TypeOK, NEW s \in Sessions, tx[s].pc # "idle"
  PROVE  tx[s] \in OpenTx
BY DEF TypeOK, IdleTx

LEMMA EndType ==
  ASSUME TypeOK, NEW s \in Sessions, End(s)
  PROVE  tx' \in [Sessions -> OpenTx \cup {IdleTx}]
BY DEF End, TypeOK

\* Every action keeps the types.
LEMMA TypeStep ==
  ASSUME TypeOK, ReadsFresh, [Next]_vars
  PROVE  TypeOK'
<1> USE DEF LeaveStatus, PayoutStatus
<1>1. ASSUME NEW l \in LeaveIds, NEW e \in Employees, NEW by \in Employees,
             NEW f \in LeaveForms, CreateLeaveRequest(l, e, by, f)
      PROVE  TypeOK'
  BY <1>1, LeaveRowType DEF CreateLeaveRequest, TypeOK
<1>2. ASSUME NEW l \in LeaveIds, NEW f \in LeaveForms, leaves[l].status \in LeaveStatus,
             EditLeave(l, f)
      PROVE  TypeOK'
  <2>1. leaves[l] \in LeaveRows
    BY <1>2 DEF TypeOK, NoLeave
  <2>2. LeaveRow(leaves[l].status, leaves[l].employee, f) \in LeaveRows
    BY <2>1, LeaveRowType DEF LeaveRows
  <2> QED
    BY <1>2, <2>2 DEF EditLeave, TypeOK
<1>3. ASSUME NEW l \in LeaveIds, NEW a \in Admins, NEW status \in LeaveStatus,
             DecideLeave(l, a, status)
      PROVE  TypeOK'
  <2>1. leaves[l] \in LeaveRows
    BY <1>3 DEF DecideLeave, TypeOK, NoLeave
  <2>2. [leaves[l] EXCEPT !.status = status] \in LeaveRows
    BY <2>1 DEF LeaveRows
  <2> QED
    BY <1>3, <2>2 DEF DecideLeave, TypeOK
<1>4. ASSUME NEW s \in Sessions, NEW l \in LeaveIds, NEW a \in Admins,
             BeginApproveLeave(s, l, a)
      PROVE  TypeOK'
  <2>1. leaves[l] \in LeaveRows
    BY <1>4 DEF BeginApproveLeave, TypeOK, NoLeave
  <2>2. /\ leaves[l].employee \in Employees
        /\ YearOf[leaves[l].start] \in Years
        /\ leaves[l].minutes \in 1 .. MaxInt
    BY <2>1, CalendarAssumption DEF LeaveRows
  <2>3. leaves[l].minutes \in Nat
    BY <2>2, MaxIntType
  <2> QED
    BY <1>4, <2>2, <2>3, AdminType, BeginType DEF BeginApproveLeave
<1>5. ASSUME NEW p \in PayoutIds, NEW f \in PayoutForms, payouts[p] # NoPayout,
             EditPayout(p, f), waived' \subseteq Accounts
      PROVE  TypeOK'
  <2>1. payouts[p] \in PayoutRows
    BY <1>5 DEF TypeOK
  <2>2. PayoutRow(payouts[p].status, payouts[p].employee, f) \in PayoutRows
    BY <2>1, PayoutRowType DEF PayoutRows
  <2> QED
    BY <1>5, <2>2 DEF EditPayout, TypeOK
<1>6. ASSUME NEW p \in PayoutIds, NEW f \in PayoutForms, UpdatePayoutRequest(p, f)
      PROVE  TypeOK'
  BY <1>5, <1>6 DEF UpdatePayoutRequest, TypeOK, NoPayout
<1>7. ASSUME NEW p \in PayoutIds, NEW f \in PayoutForms, UpdatePayoutRequestByAdmin(p, f)
      PROVE  TypeOK'
  <2>1. payouts[p].employee \in Employees /\ f.year \in Years
    BY <1>7, PopulationAssumption
       DEF UpdatePayoutRequestByAdmin, TypeOK, PayoutRows, PayoutForm
  <2>2. waived' \subseteq Accounts
    BY <1>7, <2>1 DEF UpdatePayoutRequestByAdmin, TypeOK, Accounts
  <2> QED
    BY <1>5, <1>7, <2>2 DEF UpdatePayoutRequestByAdmin
<1>8. ASSUME NEW p \in PayoutIds, NEW a \in Admins, NEW from \in PayoutStatus,
             NEW to \in PayoutStatus, SettlePayout(p, a, from, to)
      PROVE  TypeOK'
  <2>1. payouts[p] \in PayoutRows
    BY <1>8 DEF SettlePayout, TypeOK, NoPayout
  <2>2. [payouts[p] EXCEPT !.status = to] \in PayoutRows
    BY <2>1 DEF PayoutRows
  <2> QED
    BY <1>8, <2>2 DEF SettlePayout, TypeOK
<1>9. ASSUME NEW f \in PayoutForms
      PROVE  f.year \in Years /\ Minutes(f.hours) \in Nat
  BY PopulationAssumption DEF PayoutForm, Minutes
<1>10. ASSUME NEW s \in Sessions, NEW p \in PayoutIds, NEW e \in Employees,
              NEW f \in PayoutForms, BeginCreatePayout(s, p, e, f)
       PROVE  TypeOK'
  BY <1>9, <1>10, BeginType DEF BeginCreatePayout, PayoutOps
<1>11. ASSUME NEW s \in Sessions, NEW p \in PayoutIds, NEW e \in Employees,
              NEW f \in PayoutForms, NEW a \in Admins, BeginGrantPayout(s, p, e, f, a)
       PROVE  TypeOK'
  BY <1>9, <1>11, BeginType, PopulationAssumption DEF BeginGrantPayout, PayoutOps
<1>12. ASSUME NEW s \in Sessions, NEW p \in PayoutIds, NEW a \in Admins,
              BeginApprovePayout(s, p, a)
       PROVE  TypeOK'
  <2>1. payouts[p] \in PayoutRows
    BY <1>12 DEF BeginApprovePayout, TypeOK, NoPayout
  <2>2. /\ payouts[p].employee \in Employees
        /\ payouts[p].year \in Years
        /\ Minutes(payouts[p].hours) \in Nat
    BY <2>1, PopulationAssumption DEF PayoutRows, Minutes
  <2> QED
    BY <1>12, <2>2, BeginType, PopulationAssumption DEF BeginApprovePayout, PayoutOps
<1>13. ASSUME NEW s \in Sessions, LockEmployee(s)
       PROVE  TypeOK'
  <2>1. [tx[s] EXCEPT !.pc = "total"] \in OpenTx
    BY <1>13, TxOpen DEF LockEmployee, Step, OpenTx, LockSteps
  <2> QED
    BY <1>13, <2>1, StepType DEF LockEmployee
<1>14. ASSUME NEW s \in Sessions, ComputeTotal(s)
       PROVE  TypeOK'
  <2> DEFINE asOf == IF tx[s].op = "approveLeave" THEN clock ELSE BalanceAsOf(tx[s].year)
             total == LegalTotal(tx[s].employee, tx[s].year, asOf)
             next == [tx[s] EXCEPT !.pc = "used", !.total = total]
  <2>1. tx[s] \in OpenTx
    BY <1>14, TxOpen DEF ComputeTotal, Step
  <2>2. tx[s].employee \in Employees /\ tx[s].year \in Years
    BY <2>1 DEF OpenTx
  <2>3. asOf \in Days
    BY <2>2, BalanceAsOfType DEF TypeOK
  <2>4. total \in 0 .. MaxInt
    BY <2>2, <2>3, LegalTotalType
  <2>5. next \in OpenTx
    <3> HIDE DEF total
    <3> QED BY <2>1, <2>4 DEF OpenTx, LockSteps
  <2>6. Step(s, "total", next)
    BY <1>14 DEF ComputeTotal
  <2> HIDE DEF next
  <2> QED
    BY <2>5, <2>6, StepType
<1>15. ASSUME NEW s \in Sessions, ComputeUsed(s)
       PROVE  TypeOK'
  <2>1. tx[s] \in OpenTx
    BY <1>15, TxOpen DEF ComputeUsed, Step
  <2>2. Used(tx[s].employee, tx[s].year) \in 0 .. MaxInt
    BY <1>15, UsedType, PopulationAssumption DEF ComputeUsed
  <2>3. [tx[s] EXCEPT !.pc = IF tx[s].op = "approveLeave" THEN "write" ELSE "reserved",
                      !.used = Used(tx[s].employee, tx[s].year)] \in OpenTx
    BY <2>1, <2>2 DEF OpenTx, LockSteps
  <2> QED
    BY <1>15, <2>3, StepType DEF ComputeUsed
<1>16. ASSUME NEW s \in Sessions, ComputeReserved(s)
       PROVE  TypeOK'
  <2>1. tx[s] \in OpenTx
    BY <1>16, TxOpen DEF ComputeReserved, Step
  <2>2. Reserved(tx[s].employee, tx[s].year) \in 0 .. MaxInt
    BY <1>16, UsedType, PopulationAssumption DEF ComputeReserved
  <2>3. [tx[s] EXCEPT !.pc = "write",
                      !.reserved = Reserved(tx[s].employee, tx[s].year)] \in OpenTx
    BY <2>1, <2>2 DEF OpenTx, LockSteps
  <2> QED
    BY <1>16, <2>3, StepType DEF ComputeReserved
<1>17. ASSUME NEW s \in Sessions, CommitApproveLeave(s)
       PROVE  TypeOK'
  <2>1. tx[s].row \in LeaveIds /\ leaves[tx[s].row] \in LeaveRows
    BY <1>17 DEF CommitApproveLeave, Write, ReadsFresh, RequestFresh, TypeOK, NoLeave
  <2>2. [leaves[tx[s].row] EXCEPT !.status = "approved"] \in LeaveRows
    BY <2>1 DEF LeaveRows
  <2> QED
    BY <1>17, <2>1, <2>2, EndType DEF CommitApproveLeave, Write, TypeOK
<1>18. ASSUME NEW s \in Sessions, CommitInsertPayout(s)
       PROVE  TypeOK'
  <2>1. tx[s].employee \in Employees
    BY <1>18, TxOpen DEF CommitInsertPayout, Write, OpenTx
  <2>2. PICK f \in PayoutForms :
          payouts' = [payouts EXCEPT ![tx[s].row] =
            PayoutRow(IF tx[s].op = "grantPayout" THEN "approved" ELSE "pending",
                      tx[s].employee, f)]
    BY <1>18 DEF CommitInsertPayout
  <2>3. PayoutRow(IF tx[s].op = "grantPayout" THEN "approved" ELSE "pending",
                  tx[s].employee, f) \in PayoutRows
    BY <2>1, PayoutRowType
  <2>4. tx[s].year \in Years
    BY <1>18, TxOpen DEF CommitInsertPayout, Write, OpenTx
  <2>5. waived' \subseteq Accounts
    BY <1>18, <2>1, <2>4 DEF CommitInsertPayout, NoteOverflow, TypeOK, Accounts
  <2> QED
    BY <1>18, <2>2, <2>3, <2>5, EndType DEF CommitInsertPayout, Write, TypeOK
<1>19. ASSUME NEW s \in Sessions, CommitApprovePayout(s)
       PROVE  TypeOK'
  <2>1. tx[s].row \in PayoutIds /\ payouts[tx[s].row] \in PayoutRows
    BY <1>19 DEF CommitApprovePayout, Write, ReadsFresh, RequestFresh, TypeOK, NoPayout
  <2>2. [payouts[tx[s].row] EXCEPT !.status = "approved"] \in PayoutRows
    BY <2>1 DEF PayoutRows
  <2> QED
    BY <1>19, <2>1, <2>2, EndType DEF CommitApprovePayout, Write, TypeOK
<1>20. ASSUME NEW s \in Sessions,
              RefuseInsufficient(s) \/ RefuseOutOfRange(s) \/ Rollback(s) \/ DeadlockVictim(s)
       PROVE  TypeOK'
  BY <1>20, EndType DEF RefuseInsufficient, RefuseOutOfRange, Rollback, DeadlockVictim, TypeOK
<1>21. CASE Tick
  BY <1>21, CalendarAssumption DEF Tick, TypeOK
<1>22. ASSUME NEW e \in Employees, NEW c \in Contracts, ReviseContract(e, c)
       PROVE  TypeOK'
  BY <1>22 DEF ReviseContract, TypeOK, Accounts
<1>23. CASE UNCHANGED vars
  BY <1>23 DEF vars, TypeOK
<1>24. CASE LeaveNext
  <2>1. PICK l \in LeaveIds :
          \/ \E e, by \in Employees, f \in LeaveForms : CreateLeaveRequest(l, e, by, f)
          \/ \E f \in LeaveForms : UpdateLeaveRequest(l, f)
          \/ \E f \in LeaveForms : UpdateLeaveRequestByAdmin(l, f)
          \/ \E a \in Admins : RejectLeave(l, a)
          \/ \E a \in Admins : ApproveFreeLeave(l, a)
          \/ \E s \in Sessions, a \in Admins : BeginApproveLeave(s, l, a)
    BY <1>24 DEF LeaveNext
  <2> QED
    BY <2>1, <1>1, <1>2, <1>3, <1>4
       DEF UpdateLeaveRequest, UpdateLeaveRequestByAdmin, RejectLeave, ApproveFreeLeave
<1>25. CASE PayoutNext
  BY <1>25, <1>6, <1>7, <1>8, <1>10, <1>11, <1>12
     DEF PayoutNext, RejectPayout, MarkPayoutRequestPaid
<1>26. CASE SessionNext
  BY <1>26, <1>13, <1>14, <1>15, <1>16, <1>17, <1>18, <1>19, <1>20
     DEF SessionNext, Commit
<1> QED
  BY <1>21, <1>22, <1>23, <1>24, <1>25, <1>26 DEF Next

-----------------------------------------------------------------------------
(* Locks *)

LEMMA EndLocks ==
  ASSUME TypeOK, LocksExclusive, NEW s \in Sessions, End(s)
  PROVE  LocksExclusive'
<1> SUFFICES ASSUME NEW t \in Sessions, NEW u \in Sessions, t # u
             PROVE  /\ tx'[t] # IdleTx => tx'[t].row # tx'[u].row
                    /\ Holds(t)' /\ Holds(u)' => tx'[t].employee # tx'[u].employee
  BY DEF LocksExclusive
<1>1. tx'[s] = IdleTx /\ \A v \in Sessions \ {s} : tx'[v] = tx[v]
  BY DEF End, TypeOK
<1>2. tx[t] # IdleTx => tx[t].row # None
  BY PopulationAssumption DEF TypeOK, OpenTx
<1>3. IdleTx.row = None /\ IdleTx.pc \notin LockSteps
  BY DEF IdleTx, LockSteps
<1> QED
  BY <1>1, <1>2, <1>3 DEF LocksExclusive, Holds

LEMMA BeginLocks ==
  ASSUME TypeOK, LocksExclusive, NEW s \in Sessions, NEW op,
         NEW row \in LeaveIds \cup PayoutIds, NEW e, NEW y, NEW minutes, NEW a,
         Begin(s, op, row, e, y, minutes, a)
  PROVE  LocksExclusive'
<1> SUFFICES ASSUME NEW t \in Sessions, NEW u \in Sessions, t # u
             PROVE  /\ tx'[t] # IdleTx => tx'[t].row # tx'[u].row
                    /\ Holds(t)' /\ Holds(u)' => tx'[t].employee # tx'[u].employee
  BY DEF LocksExclusive
<1>1. /\ tx'[s].row = row /\ tx'[s].pc = "lock"
      /\ \A v \in Sessions \ {s} : tx'[v] = tx[v]
  BY DEF Begin, TypeOK, IdleTx
<1>2. \A v \in Sessions : tx[v].row # row
  BY DEF Begin, RowFree
<1>3. ~Holds(s)'
  BY <1>1 DEF Holds, LockSteps
<1> QED
  BY <1>1, <1>2, <1>3 DEF LocksExclusive, Holds

LEMMA StepLocks ==
  ASSUME TypeOK, LocksExclusive, NEW s \in Sessions, NEW pc, NEW next,
         Step(s, pc, next), pc # "idle",
         next.row = tx[s].row, next.employee = tx[s].employee,
         Holds(s) \/ KeyShare(tx[s].employee, {s})
  PROVE  LocksExclusive'
<1> SUFFICES ASSUME NEW t \in Sessions, NEW u \in Sessions, t # u
             PROVE  /\ tx'[t] # IdleTx => tx'[t].row # tx'[u].row
                    /\ Holds(t)' /\ Holds(u)' => tx'[t].employee # tx'[u].employee
  BY DEF LocksExclusive
<1>1. tx'[s] = next /\ \A v \in Sessions \ {s} : tx'[v] = tx[v]
  BY DEF Step, TypeOK
<1>2. tx[s] # IdleTx
  BY DEF Step, IdleTx
<1>3. \A v \in Sessions \ {s} : Holds(v) => tx[v].employee # tx[s].employee
  BY DEF LocksExclusive, KeyShare
<1> QED
  BY <1>1, <1>2, <1>3 DEF LocksExclusive, Holds

\* No action lets two transactions hold the same request or the same balance.
LEMMA LocksStep ==
  ASSUME TypeOK, LocksExclusive, [Next]_vars
  PROVE  LocksExclusive'
<1>1. CASE UNCHANGED tx
  BY <1>1 DEF LocksExclusive, Holds
<1>2. CASE LeaveNext
  <2>1. ASSUME NEW s \in Sessions, NEW l \in LeaveIds, NEW a \in Admins,
               BeginApproveLeave(s, l, a)
        PROVE  LocksExclusive'
    BY <2>1, BeginLocks DEF BeginApproveLeave
  <2> QED
    BY <1>1, <1>2, <2>1
       DEF LeaveNext, CreateLeaveRequest, UpdateLeaveRequest, UpdateLeaveRequestByAdmin,
           EditLeave, RejectLeave, ApproveFreeLeave, DecideLeave
<1>3. CASE PayoutNext
  <2>1. ASSUME NEW s \in Sessions, NEW p \in PayoutIds, NEW e \in Employees,
               NEW f \in PayoutForms, NEW a \in Admins,
               \/ BeginCreatePayout(s, p, e, f)
               \/ BeginGrantPayout(s, p, e, f, a)
               \/ BeginApprovePayout(s, p, a)
        PROVE  LocksExclusive'
    BY <2>1, BeginLocks DEF BeginCreatePayout, BeginGrantPayout, BeginApprovePayout
  <2>2. ASSUME NEW s \in Sessions, NEW p \in PayoutIds, NEW e \in Employees,
               NEW f \in PayoutForms, BeginCreatePayout(s, p, e, f)
        PROVE  LocksExclusive'
    BY <2>2, BeginLocks DEF BeginCreatePayout
  <2>3. ASSUME NEW s \in Sessions, NEW p \in PayoutIds, NEW a \in Admins,
               BeginApprovePayout(s, p, a)
        PROVE  LocksExclusive'
    BY <2>3, BeginLocks DEF BeginApprovePayout
  <2> QED
    BY <1>1, <1>3, <2>1, <2>2, <2>3
       DEF PayoutNext, UpdatePayoutRequest, UpdatePayoutRequestByAdmin, EditPayout,
           RejectPayout, MarkPayoutRequestPaid, SettlePayout
<1>4. CASE SessionNext
  <2>1. ASSUME NEW s \in Sessions, LockEmployee(s)
        PROVE  LocksExclusive'
    <3>1. tx[s] \in OpenTx
      BY <2>1, TxOpen DEF LockEmployee, Step
    <3> QED
      BY <2>1, <3>1, StepLocks DEF LockEmployee, OpenTx
  <2>2. ASSUME NEW s \in Sessions, ComputeTotal(s)
        PROVE  LocksExclusive'
    <3>1. tx[s] \in OpenTx /\ Holds(s)
      BY <2>2, TxOpen DEF ComputeTotal, Step, Holds, LockSteps
    <3> QED
      BY <2>2, <3>1, StepLocks DEF ComputeTotal, OpenTx
  <2>3. ASSUME NEW s \in Sessions, ComputeUsed(s)
        PROVE  LocksExclusive'
    <3>1. tx[s] \in OpenTx /\ Holds(s)
      BY <2>3, TxOpen DEF ComputeUsed, Step, Holds, LockSteps
    <3> QED
      BY <2>3, <3>1, StepLocks DEF ComputeUsed, OpenTx
  <2>4. ASSUME NEW s \in Sessions, ComputeReserved(s)
        PROVE  LocksExclusive'
    <3>1. tx[s] \in OpenTx /\ Holds(s)
      BY <2>4, TxOpen DEF ComputeReserved, Step, Holds, LockSteps
    <3> QED
      BY <2>4, <3>1, StepLocks DEF ComputeReserved, OpenTx
  <2> QED
    BY <1>4, <2>1, <2>2, <2>3, <2>4, EndLocks
       DEF SessionNext, Commit, CommitApproveLeave, CommitInsertPayout,
           CommitApprovePayout, Write, RefuseInsufficient, RefuseOutOfRange, Rollback, DeadlockVictim
<1>5. CASE Tick \/ \E e \in Employees, c \in Contracts : ReviseContract(e, c)
  BY <1>1, <1>5 DEF Tick, ReviseContract
<1> QED
  BY <1>1, <1>2, <1>3, <1>4, <1>5 DEF Next, vars

-----------------------------------------------------------------------------
(* Freshness of the request a transaction works on *)

SameRequest(x, y) ==
  /\ x.op = y.op /\ x.row = y.row /\ x.employee = y.employee
  /\ x.year = y.year /\ x.minutes = y.minutes

LEMMA RequestKept ==
  ASSUME NEW t \in Sessions, RequestFresh(t), SameRequest(tx'[t], tx[t]),
         tx[t].op = "approveLeave" => leaves'[tx[t].row] = leaves[tx[t].row],
         tx[t].op # "approveLeave" => payouts'[tx[t].row] = payouts[tx[t].row]
  PROVE  RequestFresh(t)'
BY DEF RequestFresh, SameRequest

LEMMA RequestEnded ==
  ASSUME NEW t \in Sessions, tx'[t] = IdleTx
  PROVE  RequestFresh(t)'
BY DEF RequestFresh, IdleTx

LEMMA RequestStep ==
  ASSUME TypeOK, \A t \in Sessions : RequestFresh(t), NEW s \in Sessions, NEW pc, NEW next,
         Step(s, pc, next), SameRequest(next, tx[s])
  PROVE  \A t \in Sessions : RequestFresh(t)'
<1> SUFFICES ASSUME NEW t \in Sessions
             PROVE  RequestFresh(t)'
  OBVIOUS
<1>1. SameRequest(tx'[t], tx[t])
  BY DEF Step, TypeOK, SameRequest
<1> QED
  BY <1>1, RequestKept DEF Step

LEMMA RequestBegin ==
  ASSUME TypeOK, \A t \in Sessions : RequestFresh(t), NEW s \in Sessions, NEW op, NEW row,
         NEW e, NEW y, NEW minutes, NEW a, Begin(s, op, row, e, y, minutes, a),
         op = "approveLeave" =>
           /\ row \in LeaveIds
           /\ leaves[row].status = "pending"
           /\ leaves[row].employee = e
           /\ YearOf[leaves[row].start] = y
           /\ leaves[row].minutes = minutes,
         op = "approvePayout" =>
           /\ row \in PayoutIds
           /\ payouts[row].status = "pending"
           /\ payouts[row].employee = e
           /\ payouts[row].year = y
           /\ Minutes(payouts[row].hours) = minutes,
         op \in {"createPayout", "grantPayout"} =>
           row \in PayoutIds /\ payouts[row] = NoPayout
  PROVE  \A t \in Sessions : RequestFresh(t)'
<1> SUFFICES ASSUME NEW t \in Sessions
             PROVE  RequestFresh(t)'
  OBVIOUS
<1>1. CASE t = s
  <2>1. /\ tx'[s].op = op /\ tx'[s].row = row /\ tx'[s].employee = e
        /\ tx'[s].year = y /\ tx'[s].minutes = minutes
    BY DEF Begin, TypeOK, IdleTx
  <2> QED
    BY <1>1, <2>1 DEF RequestFresh, Begin
<1>2. CASE t # s
  <2>1. tx'[t] = tx[t]
    BY <1>2 DEF Begin, TypeOK
  <2> QED
    BY <2>1, RequestKept DEF SameRequest, Begin
<1> QED
  BY <1>1, <1>2

\* A transaction that ends touches no row but its own.
LEMMA RequestEnd ==
  ASSUME TypeOK, LocksExclusive, \A t \in Sessions : RequestFresh(t),
         NEW s \in Sessions, End(s),
         tx[s] # IdleTx \/ UNCHANGED <<leaves, payouts>>,
         \A l \in LeaveIds \ {tx[s].row} : leaves'[l] = leaves[l],
         \A p \in PayoutIds \ {tx[s].row} : payouts'[p] = payouts[p]
  PROVE  \A t \in Sessions : RequestFresh(t)'
<1> SUFFICES ASSUME NEW t \in Sessions
             PROVE  RequestFresh(t)'
  OBVIOUS
<1>1. CASE t = s
  BY <1>1, RequestEnded DEF End, TypeOK
<1>2. CASE t # s /\ tx[t] = IdleTx
  BY <1>2, RequestEnded DEF End, TypeOK
<1>3. CASE t # s /\ tx[t] # IdleTx
  <2>1. tx'[t] = tx[t] /\ tx[t].row # tx[s].row /\ tx[t] \in OpenTx
    BY <1>3 DEF End, TypeOK, LocksExclusive
  <2>2. tx[t].op \in PayoutOps \cup {"approveLeave"}
    BY <2>1 DEF OpenTx
  <2>3. /\ tx[t].op = "approveLeave" => tx[t].row \in LeaveIds
        /\ tx[t].op # "approveLeave" => tx[t].row \in PayoutIds
    BY <2>2 DEF RequestFresh, PayoutOps
  <2> QED
    BY <2>1, <2>3, RequestKept DEF SameRequest
<1> QED
  BY <1>1, <1>2, <1>3

\* A request that is edited or decided outside a transaction is locked by none.
LEMMA RequestLeaveChange ==
  ASSUME TypeOK, \A t \in Sessions : RequestFresh(t), UNCHANGED <<payouts, tx>>,
         NEW l \in LeaveIds, leaves[l] = NoLeave \/ RowFree(l),
         \A k \in LeaveIds \ {l} : leaves'[k] = leaves[k]
  PROVE  \A t \in Sessions : RequestFresh(t)'
<1> SUFFICES ASSUME NEW t \in Sessions
             PROVE  RequestFresh(t)'
  OBVIOUS
<1>1. CASE tx[t].op = "approveLeave"
  <2>1. tx[t].row \in LeaveIds /\ tx[t].row # l
    BY <1>1 DEF RequestFresh, NoLeave, RowFree
  <2> QED
    BY <1>1, <2>1, RequestKept DEF SameRequest
<1>2. CASE tx[t].op # "approveLeave"
  BY <1>2, RequestKept DEF SameRequest
<1> QED
  BY <1>1, <1>2

LEMMA RequestPayoutChange ==
  ASSUME TypeOK, \A t \in Sessions : RequestFresh(t), UNCHANGED <<leaves, tx>>,
         NEW p \in PayoutIds, RowFree(p),
         \A k \in PayoutIds \ {p} : payouts'[k] = payouts[k]
  PROVE  \A t \in Sessions : RequestFresh(t)'
<1> SUFFICES ASSUME NEW t \in Sessions
             PROVE  RequestFresh(t)'
  OBVIOUS
<1>1. CASE tx[t].op = "approveLeave" \/ tx[t] = IdleTx
  BY <1>1, RequestKept, RequestEnded DEF SameRequest
<1>2. CASE tx[t].op # "approveLeave" /\ tx[t] # IdleTx
  <2>1. tx[t].op \in PayoutOps
    BY <1>2 DEF TypeOK, OpenTx
  <2>2. tx[t].row \in PayoutIds /\ tx[t].row # p
    BY <2>1 DEF RequestFresh, RowFree, PayoutOps
  <2> QED
    BY <2>2, <1>2, RequestKept DEF SameRequest
<1> QED
  BY <1>1, <1>2

LEMMA RequestsStep ==
  ASSUME TypeOK, LocksExclusive, \A t \in Sessions : RequestFresh(t), [Next]_vars
  PROVE  \A t \in Sessions : RequestFresh(t)'
<1>1. CASE LeaveNext
  <2>1. ASSUME NEW l \in LeaveIds, NEW e \in Employees, NEW by \in Employees,
               NEW f \in LeaveForms, CreateLeaveRequest(l, e, by, f)
        PROVE  \A t \in Sessions : RequestFresh(t)'
    BY <2>1, RequestLeaveChange DEF CreateLeaveRequest, TypeOK
  <2>2. ASSUME NEW l \in LeaveIds, NEW f \in LeaveForms, EditLeave(l, f)
        PROVE  \A t \in Sessions : RequestFresh(t)'
    BY <2>2, RequestLeaveChange DEF EditLeave, TypeOK
  <2>3. ASSUME NEW l \in LeaveIds, NEW a \in Admins, NEW status, DecideLeave(l, a, status)
        PROVE  \A t \in Sessions : RequestFresh(t)'
    BY <2>3, RequestLeaveChange DEF DecideLeave, TypeOK
  <2>4. ASSUME NEW s \in Sessions, NEW l \in LeaveIds, NEW a \in Admins,
               BeginApproveLeave(s, l, a)
        PROVE  \A t \in Sessions : RequestFresh(t)'
    BY <2>4, RequestBegin DEF BeginApproveLeave
  <2> QED
    BY <1>1, <2>1, <2>2, <2>3, <2>4
       DEF LeaveNext, UpdateLeaveRequest, UpdateLeaveRequestByAdmin, RejectLeave,
           ApproveFreeLeave
<1>2. CASE PayoutNext
  <2>1. ASSUME NEW p \in PayoutIds, NEW f \in PayoutForms, EditPayout(p, f)
        PROVE  \A t \in Sessions : RequestFresh(t)'
    BY <2>1, RequestPayoutChange DEF EditPayout, TypeOK
  <2>2. ASSUME NEW p \in PayoutIds, NEW a \in Admins, NEW from, NEW to,
               SettlePayout(p, a, from, to)
        PROVE  \A t \in Sessions : RequestFresh(t)'
    BY <2>2, RequestPayoutChange DEF SettlePayout, TypeOK
  <2>3. ASSUME NEW s \in Sessions, NEW p \in PayoutIds, NEW e \in Employees,
               NEW f \in PayoutForms, BeginCreatePayout(s, p, e, f)
        PROVE  \A t \in Sessions : RequestFresh(t)'
    BY <2>3, RequestBegin DEF BeginCreatePayout
  <2>4. ASSUME NEW s \in Sessions, NEW p \in PayoutIds, NEW e \in Employees,
               NEW f \in PayoutForms, NEW a \in Admins, BeginGrantPayout(s, p, e, f, a)
        PROVE  \A t \in Sessions : RequestFresh(t)'
    BY <2>4, RequestBegin DEF BeginGrantPayout
  <2>5. ASSUME NEW s \in Sessions, NEW p \in PayoutIds, NEW a \in Admins,
               BeginApprovePayout(s, p, a)
        PROVE  \A t \in Sessions : RequestFresh(t)'
    BY <2>5, RequestBegin DEF BeginApprovePayout
  <2> QED
    BY <1>2, <2>1, <2>2, <2>3, <2>4, <2>5
       DEF PayoutNext, UpdatePayoutRequest, UpdatePayoutRequestByAdmin, RejectPayout,
           MarkPayoutRequestPaid
<1>3. CASE SessionNext
  <2>1. ASSUME NEW s \in Sessions,
               LockEmployee(s) \/ ComputeTotal(s) \/ ComputeUsed(s) \/ ComputeReserved(s)
        PROVE  \A t \in Sessions : RequestFresh(t)'
    <3>1. tx[s] \in OpenTx
      BY <2>1, TxOpen DEF LockEmployee, ComputeTotal, ComputeUsed, ComputeReserved, Step
    <3> QED
      BY <2>1, <3>1, RequestStep
         DEF LockEmployee, ComputeTotal, ComputeUsed, ComputeReserved, OpenTx, SameRequest
  <2>2. ASSUME NEW s \in Sessions, Commit(s)
        PROVE  \A t \in Sessions : RequestFresh(t)'
    <3>1. tx[s] # IdleTx /\ End(s)
      BY <2>2 DEF Commit, CommitApproveLeave, CommitInsertPayout, CommitApprovePayout,
                  Write, IdleTx
    <3>2. /\ \A l \in LeaveIds \ {tx[s].row} : leaves'[l] = leaves[l]
          /\ \A p \in PayoutIds \ {tx[s].row} : payouts'[p] = payouts[p]
      BY <2>2 DEF Commit, CommitApproveLeave, CommitInsertPayout, CommitApprovePayout, TypeOK
    <3> QED
      BY <3>1, <3>2, RequestEnd
  <2>3. ASSUME NEW s \in Sessions,
               RefuseInsufficient(s) \/ RefuseOutOfRange(s) \/ Rollback(s) \/ DeadlockVictim(s)
        PROVE  \A t \in Sessions : RequestFresh(t)'
    BY <2>3, RequestEnd DEF RefuseInsufficient, RefuseOutOfRange, Rollback, DeadlockVictim
  <2> QED
    BY <1>3, <2>1, <2>2, <2>3 DEF SessionNext
<1>4. CASE \/ Tick \/ UNCHANGED vars
           \/ \E e \in Employees, c \in Contracts : ReviseContract(e, c)
  BY <1>4 DEF Tick, ReviseContract, vars, RequestFresh
<1> QED
  BY <1>1, <1>2, <1>3, <1>4 DEF Next

-----------------------------------------------------------------------------
(* Entitlement *)

AccruedBy(c, y, d) ==
  IF d < YearStart[y] THEN 0
  ELSE Accrued[c][y][IF d > YearEnd[y] THEN YearEnd[y] ELSE d]

LEMMA AccruedGrows ==
  ASSUME NEW c \in Contracts, NEW y \in Years, NEW d \in Days, NEW k \in Days, d =< k
  PROVE  /\ AccruedBy(c, y, d) \in Nat
         /\ AccruedBy(c, y, d) =< AccruedBy(c, y, k)
<1> DEFINE cut(x) == IF x > YearEnd[y] THEN YearEnd[y] ELSE x
<1>1. YearEnd[y] \in Days /\ YearStart[y] \in Days
  BY CalendarAssumption
<1>2. cut(d) \in Days /\ cut(k) \in Days /\ cut(d) =< cut(k)
  BY <1>1
<1>3. /\ Accrued[c][y][cut(d)] \in Nat
      /\ Accrued[c][y][cut(k)] \in Nat
      /\ Accrued[c][y][cut(d)] =< Accrued[c][y][cut(k)]
  <2> HIDE DEF cut
  <2>1. /\ Accrued[c][y][cut(d)] \in 0 .. MaxInt
        /\ Accrued[c][y][cut(k)] \in 0 .. MaxInt
    BY <1>2, AccruedType
  <2>2. Accrued[c][y][cut(d)] =< Accrued[c][y][cut(k)]
    BY <1>2, AccrualAssumption
  <2> QED
    BY <2>1, <2>2, MaxIntType
<1>4. /\ AccruedBy(c, y, d) = IF d < YearStart[y] THEN 0 ELSE Accrued[c][y][cut(d)]
      /\ AccruedBy(c, y, k) = IF k < YearStart[y] THEN 0 ELSE Accrued[c][y][cut(k)]
  BY DEF AccruedBy
<1> HIDE DEF cut
<1> QED
  BY <1>1, <1>3, <1>4

LEMMA CapType ==
  ASSUME TypeOK, NEW e \in Employees, NEW y \in Years
  PROVE  Cap(e, y) \in Nat /\ Cap(e, y) \in 0 .. MaxInt
<1>1. Cap(e, y) \in 0 .. MaxInt
  BY BalanceAsOfType, LegalTotalType DEF Cap
<1> QED
  BY <1>1, PopulationAssumption

\* The entitlement a leave is measured against is no more than the cap.
LEMMA LeaveTotalWithinCap ==
  ASSUME TypeOK, NEW e \in Employees, NEW y \in Years
  PROVE  LegalTotal(e, y, clock) =< Cap(e, y)
<1>1. contract[e] \in Contracts /\ clock \in Days /\ BalanceAsOf(y) \in Days
  BY BalanceAsOfType DEF TypeOK
<1>2. /\ LegalTotal(e, y, clock) = AccruedBy(contract[e], y, clock)
      /\ Cap(e, y) = AccruedBy(contract[e], y, BalanceAsOf(y))
  BY DEF LegalTotal, Cap, AccruedBy
<1>3. CASE clock =< BalanceAsOf(y)
  BY <1>1, <1>2, <1>3, AccruedGrows
<1>4. CASE clock > BalanceAsOf(y)
  <2>1. BalanceAsOf(y) = YearEnd[y] /\ clock > YearEnd[y]
    BY <1>1, <1>4, CalendarAssumption DEF BalanceAsOf
  <2>2. YearStart[y] =< YearEnd[y] /\ YearStart[y] \in Days /\ YearEnd[y] \in Days
    BY CalendarAssumption
  <2>3. AccruedBy(contract[e], y, clock) = AccruedBy(contract[e], y, YearEnd[y])
    BY <1>1, <2>1, <2>2 DEF AccruedBy
  <2> QED
    BY <1>1, <1>2, <2>1, <2>2, <2>3, AccruedGrows
<1> QED
  BY <1>1, <1>3, <1>4

\* Until an account is waived its cap only grows.
LEMMA CapStep ==
  ASSUME TypeOK, TypeOK', [Next]_vars, NEW e \in Employees, NEW y \in Years,
         <<e, y>> \notin waived'
  PROVE  Cap(e, y) =< Cap(e, y)'
<1>1. /\ Cap(e, y) = AccruedBy(contract[e], y, BalanceAsOf(y))
      /\ Cap(e, y)' = AccruedBy(contract'[e], y, BalanceAsOf(y)')
  BY DEF LegalTotal, Cap, AccruedBy
<1>2. /\ contract[e] \in Contracts /\ contract'[e] \in Contracts
      /\ BalanceAsOf(y) \in Days /\ BalanceAsOf(y)' \in Days
  BY CalendarAssumption DEF BalanceAsOf, TypeOK
<1>3. CASE UNCHANGED <<contract, clock>>
  <2>1. BalanceAsOf(y)' = BalanceAsOf(y)
    BY <1>3 DEF BalanceAsOf
  <2> QED
    BY <1>1, <1>2, <1>3, <2>1, AccruedGrows
<1>4. CASE Tick
  <2>1. BalanceAsOf(y) =< BalanceAsOf(y)'
    <3>1. /\ YearStart[y] \in Nat /\ YearEnd[y] \in Nat /\ clock \in Nat
          /\ YearStart[y] =< YearEnd[y] /\ clock' = clock + 1
      BY <1>4, CalendarAssumption DEF Tick, TypeOK
    <3> QED
      BY <3>1 DEF BalanceAsOf
  <2> QED
    BY <1>1, <1>2, <1>4, <2>1, AccruedGrows DEF Tick
<1>5. ASSUME NEW v \in Employees, NEW c \in Contracts, ReviseContract(v, c)
      PROVE  Cap(e, y) =< Cap(e, y)'
  <2>1. BalanceAsOf(y)' = BalanceAsOf(y)
    BY <1>5 DEF ReviseContract, BalanceAsOf
  <2>2. CASE v # e
    <3>1. contract'[e] = contract[e]
      BY <1>5, <2>2 DEF ReviseContract, TypeOK
    <3> QED
      BY <1>1, <1>2, <2>1, <3>1, AccruedGrows
  <2>3. CASE v = e
    <3>1. contract'[e] = c
      BY <1>5, <2>3 DEF ReviseContract, TypeOK
    <3>2. \A d \in Days : /\ Accrued[c][y][d] \in Nat
                           /\ Accrued[contract[e]][y][d] \in Nat
      BY <1>2, AccruedType
    <3>3. contract[v] = contract[e]
      BY <2>3
    <3>4. \A d \in Days : Accrued[contract[e]][y][d] =< Accrued[c][y][d]
      <4> DEFINE lower(z, d) == Accrued[c][z][d] < Accrued[contract[e]][z][d]
                 cut == {z \in Years : \E d \in Days : lower(z, d)}
      <4>1. waived' = waived \cup {v} \X cut
        BY <1>5, <3>3 DEF ReviseContract
      <4>2. y \notin cut
        <5> HIDE DEF cut
        <5> QED BY <4>1, <2>3
      <4>3. \A d \in Days : ~ lower(y, d)
        <5> HIDE DEF lower
        <5> QED BY <4>2
      <4> QED
        BY <4>3, <3>2
    <3>5. YearEnd[y] \in Days
      BY CalendarAssumption
    <3>6. AccruedBy(contract[e], y, BalanceAsOf(y)) =< AccruedBy(c, y, BalanceAsOf(y))
      BY <1>2, <3>4, <3>5 DEF AccruedBy
    <3> QED
      BY <1>1, <2>1, <3>1, <3>6
  <2> QED
    BY <2>2, <2>3
<1> QED
  BY <1>3, <1>4, <1>5
     DEF Next, vars, LeaveNext, PayoutNext, SessionNext, CreateLeaveRequest,
         UpdateLeaveRequest, UpdateLeaveRequestByAdmin, EditLeave, RejectLeave,
         ApproveFreeLeave, DecideLeave, BeginApproveLeave, UpdatePayoutRequest,
         UpdatePayoutRequestByAdmin, EditPayout, RejectPayout, MarkPayoutRequestPaid,
         SettlePayout, BeginCreatePayout, BeginGrantPayout, BeginApprovePayout, Begin,
         LockEmployee, ComputeTotal, ComputeUsed, ComputeReserved, Step, Commit,
         CommitApproveLeave, CommitInsertPayout, CommitApprovePayout, Write,
         RefuseInsufficient, RefuseOutOfRange, Rollback, DeadlockVictim

-----------------------------------------------------------------------------
(* Sums over the two tables after a step *)

\* One leave may join those charged to an account.
LEMMA LeaveSumStep ==
  ASSUME TypeOK, TypeOK', NEW e, NEW y, NEW l \in LeaveIds, l \notin ChargedLeaves(e, y),
         \A k \in ChargedLeaves(e, y)' \ {l} :
           k \in ChargedLeaves(e, y) /\ leaves'[k].minutes = leaves[k].minutes
  PROVE  /\ Total(ChargedLeaves(e, y), LeaveMinutes)' \in Nat
         /\ Total(ChargedLeaves(e, y), LeaveMinutes)'
              =< Total(ChargedLeaves(e, y), LeaveMinutes) + leaves'[l].minutes
         /\ l \notin ChargedLeaves(e, y)' =>
              Total(ChargedLeaves(e, y), LeaveMinutes)'
                =< Total(ChargedLeaves(e, y), LeaveMinutes)
<1> DEFINE old == ChargedLeaves(e, y)
           new == ChargedLeaves(e, y)'
           m == LeaveMinutes
           n == LeaveMinutes'
           both == [k \in LeaveIds |-> IF k = l THEN n[k] ELSE m[k]]
<1>1. /\ IsFiniteSet(old)
      /\ old \subseteq LeaveIds
      /\ \A k \in LeaveIds : m[k] \in Nat
      /\ Total(old, m) \in Nat
  BY LeaveSumType
<1>2. \A k \in LeaveIds : n[k] \in Nat /\ n[k] = leaves'[k].minutes
  BY DEF TypeOK, LeaveMinutes, LeaveRows, NoLeave
<1>3. new \subseteq LeaveIds /\ IsFiniteSet(new)
  BY PopulationAssumption, FS_Subset DEF ChargedLeaves
<1>4. \A k \in LeaveIds : m[k] = leaves[k].minutes
  BY DEF LeaveMinutes
<1>5. \A k \in new \ {l} : k \in old /\ n[k] = m[k]
  BY <1>2, <1>3, <1>4
<1> HIDE DEF old, new, m, n
<1>6. Total(new, n) \in Nat
  BY <1>2, <1>3, UnitsFinite
<1>7. Total(new, n) =< Total(old, m) + n[l]
  <2>1. IsFiniteSet(old \cup {l}) /\ l \notin old
    BY <1>1, FS_AddElement DEF old
  <2>2. \A k \in LeaveIds : both[k] \in Nat
    BY <1>1, <1>2
  <2>3. new \subseteq old \cup {l} /\ \A k \in new : n[k] =< both[k]
    BY <1>1, <1>2, <1>3, <1>5
  <2>4. Total(old \cup {l}, both) = Total(old, both) + both[l]
    BY <1>1, <2>1, <2>2, TotalAdd
  <2>5. Total(old, both) = Total(old, m)
    BY <1>1, <2>1, TotalSame
  <2>6. Total(new, n) =< Total(old \cup {l}, both)
    BY <1>1, <1>2, <1>3, <2>1, <2>2, <2>3, TotalMono
  <2> QED
    BY <2>4, <2>5, <2>6
<1>8. ASSUME l \notin new
      PROVE  Total(new, n) =< Total(old, m)
  <2>1. new \subseteq old /\ \A k \in new : n[k] \in Nat /\ n[k] =< m[k]
    BY <1>1, <1>2, <1>3, <1>5, <1>8
  <2> QED
    BY <1>1, <2>1, TotalMono
<1>9. Total(ChargedLeaves(e, y), LeaveMinutes)' = Total(new, n)
  BY DEF new, n, Total, Units
<1>10. /\ Total(ChargedLeaves(e, y), LeaveMinutes) = Total(old, m)
       /\ n[l] = leaves'[l].minutes
       /\ l \notin ChargedLeaves(e, y)' <=> l \notin new
  BY <1>2 DEF old, m, new
<1> QED
  BY <1>6, <1>7, <1>8, <1>9, <1>10

\* One payout may join those charged to an account, the others charge no more.
LEMMA PayoutSumStep ==
  ASSUME TypeOK, TypeOK', NEW e, NEW y, NEW p \in PayoutIds,
         \A k \in ChargedPayouts(e, y)' \ {p} :
           k \in ChargedPayouts(e, y) /\ payouts'[k] = payouts[k]
  PROVE  /\ Total(ChargedPayouts(e, y), PayoutMinutes)' \in Nat
         /\ p \notin ChargedPayouts(e, y) =>
              Total(ChargedPayouts(e, y), PayoutMinutes)'
                =< Total(ChargedPayouts(e, y), PayoutMinutes) + Minutes(payouts'[p].hours)
         /\ (p \in ChargedPayouts(e, y)' =>
                p \in ChargedPayouts(e, y) /\ payouts'[p].hours =< payouts[p].hours) =>
              Total(ChargedPayouts(e, y), PayoutMinutes)'
                =< Total(ChargedPayouts(e, y), PayoutMinutes)
<1> DEFINE old == ChargedPayouts(e, y)
           new == ChargedPayouts(e, y)'
           m == PayoutMinutes
           n == PayoutMinutes'
           both == [k \in PayoutIds |-> IF k = p THEN n[k] ELSE m[k]]
<1>1. /\ IsFiniteSet(old)
      /\ old \subseteq PayoutIds
      /\ \A k \in PayoutIds : m[k] \in Nat
      /\ Total(old, m) \in Nat
  BY PayoutSumType DEF ChargedPayouts
<1>2. \A k \in PayoutIds : payouts'[k].hours \in Nat /\ payouts[k].hours \in Nat
  BY DEF TypeOK, PayoutRows, NoPayout
<1>3. /\ \A k \in PayoutIds : n[k] = payouts'[k].hours * MinutesPerHour
      /\ \A k \in PayoutIds : m[k] = payouts[k].hours * MinutesPerHour
  BY DEF PayoutMinutes, Minutes
<1>4. MinutesPerHour \in Nat
  BY PopulationAssumption
<1>5. \A k \in PayoutIds : n[k] \in Nat
  BY <1>2, <1>3, <1>4
<1>6. new \subseteq PayoutIds /\ IsFiniteSet(new)
  BY PopulationAssumption, FS_Subset DEF ChargedPayouts, PayoutsOf
<1>7. \A k \in new \ {p} : k \in old /\ n[k] = m[k]
  BY <1>3, <1>6
<1>8. n[p] = Minutes(payouts'[p].hours)
  BY <1>3 DEF Minutes
<1> HIDE DEF old, new, m, n
<1>9. Total(new, n) \in Nat
  BY <1>5, <1>6, UnitsFinite
<1>10. ASSUME p \notin old
       PROVE  Total(new, n) =< Total(old, m) + n[p]
  <2>1. IsFiniteSet(old \cup {p})
    BY <1>1, FS_AddElement
  <2>2. \A k \in PayoutIds : both[k] \in Nat
    BY <1>1, <1>5
  <2>3. new \subseteq old \cup {p} /\ \A k \in new : n[k] =< both[k]
    BY <1>1, <1>5, <1>6, <1>7
  <2>4. Total(old \cup {p}, both) = Total(old, both) + both[p]
    BY <1>1, <1>10, <2>1, <2>2, TotalAdd
  <2>5. Total(old, both) = Total(old, m)
    BY <1>1, <1>10, TotalSame
  <2>6. Total(new, n) =< Total(old \cup {p}, both)
    BY <1>1, <1>5, <1>6, <2>1, <2>2, <2>3, TotalMono
  <2> QED
    BY <2>4, <2>5, <2>6
<1>11. ASSUME p \in new => p \in old /\ payouts'[p].hours =< payouts[p].hours
       PROVE  Total(new, n) =< Total(old, m)
  <2>1. payouts'[p].hours =< payouts[p].hours => n[p] =< m[p]
    <3>1. ASSUME NEW a \in Nat, NEW b \in Nat, a =< b
          PROVE  a * MinutesPerHour =< b * MinutesPerHour
      BY <1>4, <3>1
    <3> QED
      BY <1>2, <1>3, <3>1
  <2>2. new \subseteq old /\ \A k \in new : n[k] \in Nat /\ n[k] =< m[k]
    BY <1>1, <1>5, <1>6, <1>7, <1>11, <2>1
  <2> QED
    BY <1>1, <2>2, TotalMono
<1>12. Total(ChargedPayouts(e, y), PayoutMinutes)' = Total(new, n)
  BY DEF new, n, Total, Units
<1>13. /\ Total(ChargedPayouts(e, y), PayoutMinutes) = Total(old, m)
       /\ p \in ChargedPayouts(e, y)' <=> p \in new
       /\ p \in ChargedPayouts(e, y) <=> p \in old
  BY DEF old, m, new
<1> QED
  BY <1>8, <1>9, <1>10, <1>11, <1>12, <1>13

-----------------------------------------------------------------------------
(* What a step does to the minutes used *)

LEMMA UsedSame ==
  ASSUME UNCHANGED <<leaves, payouts>>, NEW e, NEW y
  PROVE  Used(e, y)' = Used(e, y)
BY DEF Used, ChargedLeaves, ChargedPayouts, PayoutsOf, LeaveMinutes, PayoutMinutes,
       Total, Units

LEMMA LeaveDrop ==
  ASSUME TypeOK, TypeOK', UNCHANGED payouts, NEW e, NEW y, NEW l \in LeaveIds,
         leaves[l].status # "approved",
         leaves'[l].status # "approved" \/ ~ leaves'[l].deducts,
         \A k \in LeaveIds \ {l} : leaves'[k] = leaves[k]
  PROVE  Used(e, y)' =< Used(e, y)
<1>1. l \notin ChargedLeaves(e, y) /\ l \notin ChargedLeaves(e, y)'
  BY DEF ChargedLeaves
<1>2. \A k \in ChargedLeaves(e, y)' \ {l} :
        k \in ChargedLeaves(e, y) /\ leaves'[k].minutes = leaves[k].minutes
  BY DEF ChargedLeaves
<1>3. /\ Total(ChargedLeaves(e, y), LeaveMinutes)' \in Nat
      /\ Total(ChargedLeaves(e, y), LeaveMinutes)'
           =< Total(ChargedLeaves(e, y), LeaveMinutes)
  BY <1>1, <1>2, LeaveSumStep
<1>4. Total(ChargedPayouts(e, y), PayoutMinutes)' = Total(ChargedPayouts(e, y), PayoutMinutes)
  BY DEF ChargedPayouts, PayoutsOf, PayoutMinutes, Total, Units
<1>5. /\ Total(ChargedLeaves(e, y), LeaveMinutes) \in Nat
      /\ Total(ChargedPayouts(e, y), PayoutMinutes) \in Nat
  BY LeaveSumType, PayoutSumType DEF ChargedPayouts
<1> QED
  BY <1>3, <1>4, <1>5 DEF Used

LEMMA PayoutDrop ==
  ASSUME TypeOK, TypeOK', UNCHANGED leaves, NEW e, NEW y, NEW p \in PayoutIds,
         p \in ChargedPayouts(e, y)' =>
           p \in ChargedPayouts(e, y) /\ payouts'[p].hours =< payouts[p].hours,
         \A k \in PayoutIds \ {p} : payouts'[k] = payouts[k]
  PROVE  Used(e, y)' =< Used(e, y)
<1>1. \A k \in ChargedPayouts(e, y)' \ {p} :
        k \in ChargedPayouts(e, y) /\ payouts'[k] = payouts[k]
  BY DEF ChargedPayouts, PayoutsOf
<1>2. /\ Total(ChargedPayouts(e, y), PayoutMinutes)' \in Nat
      /\ Total(ChargedPayouts(e, y), PayoutMinutes)'
           =< Total(ChargedPayouts(e, y), PayoutMinutes)
  BY <1>1, PayoutSumStep
<1>3. Total(ChargedLeaves(e, y), LeaveMinutes)' = Total(ChargedLeaves(e, y), LeaveMinutes)
  BY DEF ChargedLeaves, LeaveMinutes, Total, Units
<1>4. /\ Total(ChargedLeaves(e, y), LeaveMinutes) \in Nat
      /\ Total(ChargedPayouts(e, y), PayoutMinutes) \in Nat
  BY LeaveSumType, PayoutSumType DEF ChargedPayouts
<1> QED
  BY <1>2, <1>3, <1>4 DEF Used

\* A commit charges at most the minutes of its own request to its own account.
LEMMA ChargeLeave ==
  ASSUME TypeOK, TypeOK', ReadsFresh, NEW s \in Sessions, CommitApproveLeave(s),
         NEW e, NEW y
  PROVE  /\ Used(e, y)' \in Nat
         /\ Used(e, y)' =< Used(e, y) + tx[s].minutes
         /\ <<e, y>> # <<tx[s].employee, tx[s].year>> => Used(e, y)' =< Used(e, y)
<1> DEFINE l == tx[s].row
<1>1. /\ l \in LeaveIds /\ leaves[l].status = "pending"
      /\ leaves[l].employee = tx[s].employee /\ YearOf[leaves[l].start] = tx[s].year
      /\ leaves[l].minutes = tx[s].minutes
  BY DEF CommitApproveLeave, Write, ReadsFresh, RequestFresh
<1>2. /\ leaves'[l] = [leaves[l] EXCEPT !.status = "approved"]
      /\ \A k \in LeaveIds \ {l} : leaves'[k] = leaves[k]
      /\ UNCHANGED payouts
  BY <1>1 DEF CommitApproveLeave, TypeOK
<1>3. /\ leaves'[l].minutes = leaves[l].minutes
      /\ leaves'[l].employee = leaves[l].employee
      /\ leaves'[l].start = leaves[l].start
  BY <1>1, <1>2 DEF TypeOK, LeaveRows, NoLeave
<1>4. tx[s].minutes \in Nat
  BY TxOpen DEF CommitApproveLeave, Write, OpenTx
<1> HIDE DEF l
<1>5. l \notin ChargedLeaves(e, y)
  BY <1>1 DEF ChargedLeaves
<1>6. \A k \in ChargedLeaves(e, y)' \ {l} :
        k \in ChargedLeaves(e, y) /\ leaves'[k].minutes = leaves[k].minutes
  BY <1>2 DEF ChargedLeaves
<1>7. <<e, y>> # <<tx[s].employee, tx[s].year>> => l \notin ChargedLeaves(e, y)'
  BY <1>1, <1>3 DEF ChargedLeaves
<1>8. /\ Total(ChargedLeaves(e, y), LeaveMinutes)' \in Nat
      /\ Total(ChargedLeaves(e, y), LeaveMinutes)'
           =< Total(ChargedLeaves(e, y), LeaveMinutes) + tx[s].minutes
      /\ <<e, y>> # <<tx[s].employee, tx[s].year>> =>
           Total(ChargedLeaves(e, y), LeaveMinutes)'
             =< Total(ChargedLeaves(e, y), LeaveMinutes)
  BY <1>1, <1>3, <1>5, <1>6, <1>7, LeaveSumStep
<1>9. Total(ChargedPayouts(e, y), PayoutMinutes)' = Total(ChargedPayouts(e, y), PayoutMinutes)
  BY <1>2 DEF ChargedPayouts, PayoutsOf, PayoutMinutes, Total, Units
<1>10. /\ Total(ChargedLeaves(e, y), LeaveMinutes) \in Nat
       /\ Total(ChargedPayouts(e, y), PayoutMinutes) \in Nat
  BY LeaveSumType, PayoutSumType DEF ChargedPayouts
<1> QED
  BY <1>4, <1>8, <1>9, <1>10 DEF Used

LEMMA ChargePayout ==
  ASSUME TypeOK, TypeOK', ReadsFresh, NEW s \in Sessions,
         CommitInsertPayout(s) \/ CommitApprovePayout(s), NEW e, NEW y
  PROVE  /\ Used(e, y)' \in Nat
         /\ Used(e, y)' =< Used(e, y) + tx[s].minutes
         /\ <<e, y>> # <<tx[s].employee, tx[s].year>> => Used(e, y)' =< Used(e, y)
         /\ tx[s].op = "createPayout" => Used(e, y)' =< Used(e, y)
<1> DEFINE p == tx[s].row
<1>1. /\ p \in PayoutIds
      /\ payouts[p].status \notin {"approved", "paid"}
      /\ payouts'[p].employee = tx[s].employee
      /\ payouts'[p].year = tx[s].year
      /\ Minutes(payouts'[p].hours) = tx[s].minutes
      /\ tx[s].op = "createPayout" => payouts'[p].status = "pending"
  <2>1. CASE CommitInsertPayout(s)
    <3>1. p \in PayoutIds /\ payouts[p] = NoPayout
      BY <2>1 DEF CommitInsertPayout, Write, ReadsFresh, RequestFresh
    <3>2. PICK f \in PayoutForms :
            /\ f.year = tx[s].year
            /\ Minutes(f.hours) = tx[s].minutes
            /\ payouts'[p] = PayoutRow(IF tx[s].op = "grantPayout" THEN "approved"
                                       ELSE "pending", tx[s].employee, f)
      BY <2>1, <3>1 DEF CommitInsertPayout, TypeOK
    <3> QED
      BY <3>1, <3>2 DEF NoPayout, PayoutRow
  <2>2. CASE CommitApprovePayout(s)
    <3>1. /\ p \in PayoutIds /\ payouts[p].status = "pending"
          /\ payouts[p].employee = tx[s].employee /\ payouts[p].year = tx[s].year
          /\ Minutes(payouts[p].hours) = tx[s].minutes
      BY <2>2 DEF CommitApprovePayout, Write, ReadsFresh, RequestFresh
    <3>2. payouts'[p] = [payouts[p] EXCEPT !.status = "approved"]
      BY <2>2, <3>1 DEF CommitApprovePayout, TypeOK
    <3>3. payouts[p] \in PayoutRows
      BY <3>1 DEF TypeOK, NoPayout
    <3>4. /\ payouts'[p].employee = payouts[p].employee
          /\ payouts'[p].year = payouts[p].year
          /\ payouts'[p].hours = payouts[p].hours
      BY <3>2, <3>3 DEF PayoutRows
    <3> QED
      BY <2>2, <3>1, <3>4 DEF CommitApprovePayout, Write
  <2> QED
    BY <2>1, <2>2
<1>2. /\ \A k \in PayoutIds \ {p} : payouts'[k] = payouts[k]
      /\ UNCHANGED leaves
  BY DEF CommitInsertPayout, CommitApprovePayout, TypeOK
<1>3. tx[s].minutes \in Nat
  BY TxOpen DEF CommitInsertPayout, CommitApprovePayout, Write, OpenTx
<1> HIDE DEF p
<1>4. p \notin ChargedPayouts(e, y)
  BY <1>1 DEF ChargedPayouts, PayoutsOf
<1>5. \A k \in ChargedPayouts(e, y)' \ {p} :
        k \in ChargedPayouts(e, y) /\ payouts'[k] = payouts[k]
  BY <1>2 DEF ChargedPayouts, PayoutsOf
<1>6. <<e, y>> # <<tx[s].employee, tx[s].year>> \/ tx[s].op = "createPayout" =>
        p \notin ChargedPayouts(e, y)'
  BY <1>1 DEF ChargedPayouts, PayoutsOf
<1>7. /\ Total(ChargedPayouts(e, y), PayoutMinutes)' \in Nat
      /\ Total(ChargedPayouts(e, y), PayoutMinutes)'
           =< Total(ChargedPayouts(e, y), PayoutMinutes) + tx[s].minutes
      /\ <<e, y>> # <<tx[s].employee, tx[s].year>> \/ tx[s].op = "createPayout" =>
           Total(ChargedPayouts(e, y), PayoutMinutes)'
             =< Total(ChargedPayouts(e, y), PayoutMinutes)
  BY <1>1, <1>4, <1>5, <1>6, PayoutSumStep
<1>8. Total(ChargedLeaves(e, y), LeaveMinutes)' = Total(ChargedLeaves(e, y), LeaveMinutes)
  BY <1>2 DEF ChargedLeaves, LeaveMinutes, Total, Units
<1>9. /\ Total(ChargedLeaves(e, y), LeaveMinutes) \in Nat
      /\ Total(ChargedPayouts(e, y), PayoutMinutes) \in Nat
  BY LeaveSumType, PayoutSumType DEF ChargedPayouts
<1> QED
  BY <1>3, <1>7, <1>8, <1>9 DEF Used

\* An int32 holds what is in its range.
LEMMA WrapFits ==
  ASSUME NEW n \in Int, -(MaxInt + 1) =< n, n =< MaxInt
  PROVE  Wrap(n) = n
<1>1. PICK m \in Nat : m = n + MaxInt + 1 /\ m < Width
  BY PopulationAssumption DEF Width
<1>2. PICK w \in Nat : w = Width /\ w > 0
  BY PopulationAssumption DEF Width
<1>3. m % w = m
  BY <1>1, <1>2
<1> QED
  BY <1>1, <1>2, <1>3, PopulationAssumption DEF Wrap

\* What keeps the subtraction of a payout's check within an int32, until its
\* account is waived: the account was within its cap when the total was read,
\* so the total covers the use, and what is reserved is an INT.
Unwrapped(t) ==
  LET x == tx[t]
  IN /\ x.op = "approveLeave" => x.reserved = 0 /\ x.pc # "reserved"
     /\ x.op \in PayoutOps /\ <<x.employee, x.year>> \notin waived =>
          /\ x.pc = "used" => Used(x.employee, x.year) =< x.total
          /\ x.pc \in {"reserved", "write"} => x.used =< x.total

ChecksUnwrapped == \A t \in Sessions : Unwrapped(t)

\* A commit keeps its account within the cap: the entitlement it read is no
\* more than the cap, the use it read no less than the use, and its check
\* did not overflow.
LEMMA CommitWithinCap ==
  ASSUME TypeOK, TypeOK', ReadsFresh, ChecksUnwrapped, NEW s \in Sessions, Commit(s),
         <<tx[s].employee, tx[s].year>> \notin waived'
  PROVE  \A e, y : e = tx[s].employee /\ y = tx[s].year => Used(e, y)' =< Cap(e, y)
<1> SUFFICES ASSUME NEW e, NEW y, e = tx[s].employee, y = tx[s].year
             PROVE  Used(e, y)' =< Cap(e, y)
  OBVIOUS
<1>1. /\ tx[s].pc = "write" /\ Sufficient(s)
      /\ tx[s].op \in PayoutOps \cup {"approveLeave"}
  BY DEF Commit, CommitApproveLeave, CommitInsertPayout, CommitApprovePayout, Write, PayoutOps
<1>2. /\ tx[s].total \in 0 .. MaxInt /\ tx[s].used \in 0 .. MaxInt
      /\ tx[s].reserved \in 0 .. MaxInt /\ MaxInt \in Nat
      /\ tx[s].minutes \in Nat /\ e \in Employees /\ y \in Years
  BY <1>1, TxOpen, PopulationAssumption DEF OpenTx
<1>3. <<e, y>> \notin waived
  BY DEF Commit, CommitApproveLeave, CommitInsertPayout, CommitApprovePayout, NoteOverflow
<1>4. /\ tx[s].total =< Cap(e, y)
      /\ Used(e, y) =< tx[s].used
      /\ tx[s].op = "approvePayout" => tx[s].minutes =< tx[s].reserved
  BY <1>1, <1>3 DEF ReadsFresh, BalanceFresh
<1>5. /\ tx[s].op = "approveLeave" => tx[s].reserved = 0
      /\ tx[s].op \in PayoutOps => tx[s].used =< tx[s].total
  BY <1>1, <1>3 DEF ChecksUnwrapped, Unwrapped
<1>6. Available(s) = tx[s].total - tx[s].used - tx[s].reserved
  <2>1. /\ tx[s].total - tx[s].used - tx[s].reserved \in Int
        /\ -(MaxInt + 1) =< tx[s].total - tx[s].used - tx[s].reserved
        /\ tx[s].total - tx[s].used - tx[s].reserved =< MaxInt
    BY <1>1, <1>2, <1>5
  <2> QED
    BY <2>1, WrapFits DEF Available
<1>7. /\ Used(e, y)' \in Nat /\ Used(e, y)' =< Used(e, y) + tx[s].minutes
      /\ tx[s].op = "createPayout" => Used(e, y)' =< Used(e, y)
  BY ChargeLeave, ChargePayout DEF Commit, CommitApproveLeave, Write
<1>8. Used(e, y) \in Nat /\ Cap(e, y) \in Nat
  BY <1>2, UsedType, CapType
<1>9. CASE tx[s].op = "createPayout"
  BY <1>2, <1>4, <1>5, <1>7, <1>8, <1>9 DEF PayoutOps
<1>10. CASE tx[s].op # "createPayout"
  <2>1. tx[s].op # "approvePayout" => tx[s].minutes =< MaxInt
    <3>1. CASE CommitApproveLeave(s)
      <4>1. /\ tx[s].row \in LeaveIds /\ leaves[tx[s].row].status = "pending"
            /\ leaves[tx[s].row].minutes = tx[s].minutes
        BY <3>1 DEF CommitApproveLeave, Write, ReadsFresh, RequestFresh
      <4> QED
        BY <1>2, <4>1 DEF TypeOK, LeaveRows, NoLeave
    <3>2. CASE CommitInsertPayout(s)
      BY <1>2, <1>3, <1>10, <3>2 DEF CommitInsertPayout, Write, NoteOverflow
    <3> QED
      BY <3>1, <3>2 DEF Commit, CommitApprovePayout, Write
  <2>2. Asked(s) = IF tx[s].op = "approvePayout" THEN 0 ELSE tx[s].minutes
    BY <1>2, <2>1, WrapFits DEF Asked
  <2>3. tx[s].used + tx[s].minutes =< tx[s].total
    BY <1>1, <1>2, <1>4, <1>6, <2>2 DEF Sufficient
  <2> QED
    BY <1>2, <1>4, <1>7, <1>8, <2>3
<1> QED
  BY <1>9, <1>10

Charges(s, e, y) ==
  /\ Commit(s)
  /\ tx[s].employee = e
  /\ tx[s].year = y
  /\ Used(e, y)' =< Cap(e, y)

\* Leave that is created, edited or decided with no balance check charges nothing.
LEMMA LeaveNextDrops ==
  ASSUME TypeOK, TypeOK', LeaveNext, NEW e \in Employees, NEW y \in Years
  PROVE  Used(e, y)' =< Used(e, y)
<1>0. CASE UNCHANGED <<leaves, payouts>>
  <2>1. Used(e, y) \in Nat /\ Used(e, y)' = Used(e, y)
    BY <1>0, UsedType, UsedSame
  <2> QED BY <2>1
<1>1. ASSUME NEW l \in LeaveIds, NEW v \in Employees, NEW by \in Employees,
             NEW f \in LeaveForms, CreateLeaveRequest(l, v, by, f)
      PROVE  Used(e, y)' =< Used(e, y)
  <2>1. /\ leaves[l].status # "approved" /\ leaves'[l].status # "approved"
        /\ \A k \in LeaveIds \ {l} : leaves'[k] = leaves[k]
    BY <1>1 DEF CreateLeaveRequest, TypeOK, NoLeave, LeaveRow
  <2> QED
    BY <1>1, <2>1, LeaveDrop DEF CreateLeaveRequest
<1>2. ASSUME NEW l \in LeaveIds, NEW f \in LeaveForms, leaves[l].status # "approved",
             EditLeave(l, f)
      PROVE  Used(e, y)' =< Used(e, y)
  <2>1. /\ leaves'[l].status # "approved"
        /\ \A k \in LeaveIds \ {l} : leaves'[k] = leaves[k]
    BY <1>2 DEF EditLeave, TypeOK, LeaveRow
  <2> QED
    BY <1>2, <2>1, LeaveDrop DEF EditLeave
<1>3. ASSUME NEW l \in LeaveIds, NEW a \in Admins, NEW status,
             status # "approved" \/ ~ leaves[l].deducts, DecideLeave(l, a, status)
      PROVE  Used(e, y)' =< Used(e, y)
  <2>1. /\ leaves[l].status # "approved" /\ leaves[l] \in LeaveRows
        /\ leaves'[l] = [leaves[l] EXCEPT !.status = status]
        /\ \A k \in LeaveIds \ {l} : leaves'[k] = leaves[k]
    BY <1>3 DEF DecideLeave, TypeOK, NoLeave
  <2>2. leaves'[l].status # "approved" \/ ~ leaves'[l].deducts
    BY <1>3, <2>1 DEF LeaveRows
  <2> QED
    BY <1>3, <2>1, <2>2, LeaveDrop DEF DecideLeave
<1> QED
  BY <1>0, <1>1, <1>2, <1>3
     DEF LeaveNext, UpdateLeaveRequest, UpdateLeaveRequestByAdmin, RejectLeave,
         ApproveFreeLeave, BeginApproveLeave, Begin

\* An admin's edit burdens the account it waives only.
LEMMA AdminEditDrops ==
  ASSUME TypeOK, TypeOK', NEW p \in PayoutIds, NEW f \in PayoutForms,
         UpdatePayoutRequestByAdmin(p, f), NEW e \in Employees, NEW y \in Years,
         <<e, y>> \notin waived' \/ <<e, y>> # <<payouts[p].employee, f.year>>
  PROVE  Used(e, y)' =< Used(e, y)
<1>1. /\ payouts'[p] = PayoutRow(payouts[p].status, payouts[p].employee, f)
      /\ \A k \in PayoutIds \ {p} : payouts'[k] = payouts[k]
      /\ UNCHANGED leaves
  BY DEF UpdatePayoutRequestByAdmin, EditPayout, TypeOK
<1>2. ASSUME p \in ChargedPayouts(e, y)'
      PROVE  p \in ChargedPayouts(e, y) /\ payouts'[p].hours =< payouts[p].hours
  <2>1. /\ payouts[p].status \in {"approved", "paid"}
        /\ payouts[p].employee = e /\ f.year = y
        /\ payouts'[p].hours = f.hours
    BY <1>1, <1>2 DEF ChargedPayouts, PayoutsOf, PayoutRow
  <2>2. f.year = payouts[p].year /\ ~ (f.hours > payouts[p].hours)
    BY <2>1 DEF UpdatePayoutRequestByAdmin
  <2>3. f.hours \in Nat /\ payouts[p].hours \in Nat
    BY PopulationAssumption DEF PayoutForm, TypeOK, PayoutRows, NoPayout
  <2> QED
    BY <2>1, <2>2, <2>3 DEF ChargedPayouts, PayoutsOf
<1> QED
  BY <1>1, <1>2, PayoutDrop

\* The other requests on payouts burden none.
LEMMA PayoutNextDrops ==
  ASSUME TypeOK, TypeOK', PayoutNext, NEW e \in Employees, NEW y \in Years,
         ~ \E p \in PayoutIds, f \in PayoutForms : UpdatePayoutRequestByAdmin(p, f)
  PROVE  Used(e, y)' =< Used(e, y)
<1>0. CASE UNCHANGED <<leaves, payouts>>
  <2>1. Used(e, y) \in Nat /\ Used(e, y)' = Used(e, y)
    BY <1>0, UsedType, UsedSame
  <2> QED BY <2>1
<1>1. ASSUME NEW p \in PayoutIds, NEW f \in PayoutForms, UpdatePayoutRequest(p, f)
      PROVE  Used(e, y)' =< Used(e, y)
  <2>1. /\ payouts'[p].status \in {"pending", "rejected"}
        /\ \A k \in PayoutIds \ {p} : payouts'[k] = payouts[k]
        /\ UNCHANGED leaves
    BY <1>1 DEF UpdatePayoutRequest, EditPayout, TypeOK, PayoutRow
  <2>2. p \notin ChargedPayouts(e, y)'
    BY <2>1 DEF ChargedPayouts, PayoutsOf
  <2> QED
    BY <2>1, <2>2, PayoutDrop
<1>2. ASSUME NEW p \in PayoutIds, NEW a \in Admins, NEW from, NEW to,
             to = "rejected" \/ from = "approved", SettlePayout(p, a, from, to),
             from \in PayoutStatus
      PROVE  Used(e, y)' =< Used(e, y)
  <2>1. payouts[p] \in PayoutRows
    BY <1>2 DEF SettlePayout, TypeOK, NoPayout, PayoutStatus
  <2>2. /\ payouts'[p] = [payouts[p] EXCEPT !.status = to]
        /\ \A k \in PayoutIds \ {p} : payouts'[k] = payouts[k]
        /\ UNCHANGED leaves /\ payouts[p].status = from
    BY <1>2 DEF SettlePayout, TypeOK
  <2>3. /\ payouts'[p].hours = payouts[p].hours
        /\ payouts'[p].employee = payouts[p].employee
        /\ payouts'[p].year = payouts[p].year
        /\ payouts'[p].status = to
        /\ payouts[p].hours \in Nat
    BY <2>1, <2>2 DEF PayoutRows
  <2>4. ASSUME p \in ChargedPayouts(e, y)'
        PROVE  p \in ChargedPayouts(e, y) /\ payouts'[p].hours =< payouts[p].hours
    <3>1. /\ to \in {"approved", "paid"}
          /\ payouts[p].employee = e /\ payouts[p].year = y
      BY <2>3, <2>4 DEF ChargedPayouts, PayoutsOf
    <3>2. payouts[p].status = "approved"
      BY <1>2, <2>2, <3>1
    <3>3. p \in ChargedPayouts(e, y)
      BY <3>1, <3>2 DEF ChargedPayouts, PayoutsOf
    <3> QED
      BY <2>3, <3>3
  <2> QED
    BY <2>2, <2>4, PayoutDrop
<1> QED
  BY <1>0, <1>1, <1>2
     DEF PayoutNext, RejectPayout, MarkPayoutRequestPaid, BeginCreatePayout,
         BeginGrantPayout, BeginApprovePayout, Begin, PayoutStatus

\* Until an account is waived, only a commit that holds its employee raises
\* the minutes used, and never above the cap.
LEMMA UsedStep ==
  ASSUME TypeOK, TypeOK', ReadsFresh, ChecksUnwrapped, [Next]_vars,
         NEW e \in Employees, NEW y \in Years, <<e, y>> \notin waived'
  PROVE  Used(e, y)' =< Used(e, y) \/ \E s \in Sessions : Charges(s, e, y)
<1>0. Used(e, y) \in Nat
  BY UsedType
<1>1. CASE UNCHANGED <<leaves, payouts>>
  BY <1>0, <1>1, UsedSame
<1>2. CASE LeaveNext
  BY <1>2, LeaveNextDrops
<1>3. CASE PayoutNext
  BY <1>3, PayoutNextDrops, AdminEditDrops
<1>4. CASE SessionNext
  <2>1. ASSUME NEW s \in Sessions, Commit(s)
        PROVE  Used(e, y)' =< Used(e, y) \/ Charges(s, e, y)
    <3>1. CASE <<e, y>> # <<tx[s].employee, tx[s].year>>
      BY <2>1, <3>1, ChargeLeave, ChargePayout DEF Commit
    <3>2. CASE <<e, y>> = <<tx[s].employee, tx[s].year>>
      <4> QED
        BY <2>1, <3>2, CommitWithinCap DEF Charges
    <3> QED
      BY <3>1, <3>2
  <2> QED
    BY <1>1, <1>4, <2>1
       DEF SessionNext, LockEmployee, ComputeTotal, ComputeUsed, ComputeReserved, Step,
           RefuseInsufficient, RefuseOutOfRange, Rollback, DeadlockVictim
<1>5. CASE Tick \/ UNCHANGED vars \/ \E v \in Employees, c \in Contracts : ReviseContract(v, c)
  BY <1>1, <1>5 DEF Tick, vars, ReviseContract
<1> QED
  BY <1>2, <1>3, <1>4, <1>5 DEF Next

-----------------------------------------------------------------------------
(* What an open transaction has computed stays on the safe side *)

LEMMA WaivedGrows ==
  ASSUME [Next]_vars
  PROVE  waived \subseteq waived'
BY DEF Next, vars, LeaveNext, PayoutNext, SessionNext, Tick, ReviseContract,
       CreateLeaveRequest, UpdateLeaveRequest, UpdateLeaveRequestByAdmin, EditLeave,
       RejectLeave, ApproveFreeLeave, DecideLeave, BeginApproveLeave, Begin,
       UpdatePayoutRequest, UpdatePayoutRequestByAdmin, RejectPayout,
       MarkPayoutRequestPaid, SettlePayout, BeginCreatePayout, BeginGrantPayout,
       BeginApprovePayout, LockEmployee, ComputeTotal, ComputeUsed, ComputeReserved,
       Step, Commit, CommitApproveLeave, CommitInsertPayout, CommitApprovePayout,
       NoteOverflow, Write, RefuseInsufficient, RefuseOutOfRange, Rollback,
       DeadlockVictim

\* What a step may do to the transaction of one session.
LEMMA TxMoves ==
  ASSUME TypeOK, [Next]_vars, NEW t \in Sessions
  PROVE  \/ tx'[t] = tx[t]
         \/ tx'[t] = IdleTx
         \/ /\ tx'[t].pc \in {"lock", "total"}
            /\ \/ tx'[t].reserved = 0
               \/ tx'[t].reserved = tx[t].reserved /\ tx'[t].op = tx[t].op
         \/ ComputeTotal(t)
         \/ ComputeUsed(t)
         \/ ComputeReserved(t)
<1>1. CASE UNCHANGED tx
  BY <1>1
<1>2. ASSUME NEW s \in Sessions, NEW op, NEW row, NEW e, NEW y, NEW minutes, NEW a,
             Begin(s, op, row, e, y, minutes, a)
      PROVE  tx'[t] = tx[t] \/ (tx'[t].pc = "lock" /\ tx'[t].reserved = 0)
  BY <1>2 DEF Begin, TypeOK, IdleTx
<1>3. ASSUME NEW s \in Sessions, End(s)
      PROVE  tx'[t] = tx[t] \/ tx'[t] = IdleTx
  BY <1>3 DEF End, TypeOK
<1>4. ASSUME NEW s \in Sessions, NEW pc, NEW next, Step(s, pc, next), s # t
      PROVE  tx'[t] = tx[t]
  BY <1>4 DEF Step, TypeOK
<1>5. ASSUME NEW s \in Sessions, LockEmployee(s)
      PROVE  \/ tx'[t] = tx[t]
             \/ /\ tx'[t].pc = "total"
                /\ tx'[t].reserved = tx[t].reserved /\ tx'[t].op = tx[t].op
  <2>1. tx[s] \in OpenTx
    BY <1>5, TxOpen DEF LockEmployee, Step
  <2> QED
    BY <1>5, <2>1 DEF LockEmployee, Step, TypeOK, OpenTx
<1>6. CASE LeaveNext
  BY <1>1, <1>2, <1>6
     DEF LeaveNext, CreateLeaveRequest, UpdateLeaveRequest, UpdateLeaveRequestByAdmin,
         EditLeave, RejectLeave, ApproveFreeLeave, DecideLeave, BeginApproveLeave
<1>7. CASE PayoutNext
  BY <1>1, <1>2, <1>7
     DEF PayoutNext, UpdatePayoutRequest, UpdatePayoutRequestByAdmin, EditPayout,
         RejectPayout, MarkPayoutRequestPaid, SettlePayout, BeginCreatePayout,
         BeginGrantPayout, BeginApprovePayout
<1>8. CASE SessionNext
  <2>1. PICK s \in Sessions :
          \/ LockEmployee(s)
          \/ ComputeTotal(s)
          \/ ComputeUsed(s)
          \/ ComputeReserved(s)
          \/ End(s)
    BY <1>8 DEF SessionNext, Commit, CommitApproveLeave, CommitInsertPayout,
                CommitApprovePayout, Write, RefuseInsufficient, RefuseOutOfRange, Rollback, DeadlockVictim
  <2>2. CASE s # t
    BY <1>3, <1>5, <2>1, <2>2, <1>4 DEF ComputeTotal, ComputeUsed, ComputeReserved
  <2>3. CASE s = t
    BY <1>3, <1>5, <2>1, <2>3
  <2> QED
    BY <2>2, <2>3
<1> QED
  BY <1>1, <1>6, <1>7, <1>8 DEF Next, vars, Tick, ReviseContract

LEMMA SumTypes ==
  TypeOK => \A e \in Employees, y \in Years : Cap(e, y) \in Nat /\ Used(e, y) \in Nat
BY CapType, UsedType

LEMMA SumTypesNext ==
  (TypeOK => \A e \in Employees, y \in Years : Cap(e, y) \in Nat /\ Used(e, y) \in Nat)'
BY SumTypes, PTL

\* While a transaction holds an employee, nobody else charges the account it
\* is computing, and the account's cap does not fall.
LEMMA HeldAccount ==
  ASSUME TypeOK, TypeOK', LocksExclusive, ReadsFresh, ChecksUnwrapped, [Next]_vars,
         NEW t \in Sessions, Holds(t), tx'[t] # IdleTx,
         NEW e, NEW y, e = tx[t].employee, y = tx[t].year, <<e, y>> \notin waived'
  PROVE  /\ Cap(e, y) \in Nat /\ Cap(e, y)' \in Nat /\ Cap(e, y) =< Cap(e, y)'
         /\ Used(e, y) \in Nat /\ Used(e, y)' \in Nat /\ Used(e, y)' =< Used(e, y)
<1>1. tx[t] \in OpenTx
  BY TxOpen DEF Holds, LockSteps
<1>2. e \in Employees /\ y \in Years
  BY <1>1 DEF OpenTx
<1>3. ASSUME NEW s \in Sessions, Charges(s, e, y)
      PROVE  FALSE
  <2>1. tx[s].pc = "write" /\ End(s) /\ tx[s].employee = e
    BY <1>3 DEF Charges, Commit, CommitApproveLeave, CommitInsertPayout,
                CommitApprovePayout, Write
  <2>2. Holds(s) /\ tx'[s] = IdleTx
    BY <2>1 DEF Holds, LockSteps, End, TypeOK
  <2> QED
    BY <2>1, <2>2 DEF LocksExclusive
<1>4. Used(e, y)' =< Used(e, y)
  BY <1>2, <1>3, UsedStep
<1>5. Cap(e, y) =< Cap(e, y)'
  BY <1>2, CapStep
<1>6. Cap(e, y) \in Nat /\ Used(e, y) \in Nat
  BY <1>2, CapType, UsedType
<1>7. Cap(e, y)' \in Nat /\ Used(e, y)' \in Nat
  BY <1>2, SumTypesNext
<1> QED
  BY <1>4, <1>5, <1>6, <1>7

\* Whatever a step does, what each open transaction has computed stays safe.
LEMMA BalancesStep ==
  ASSUME TypeOK, TypeOK', LocksExclusive, ReadsFresh, ChecksUnwrapped, [Next]_vars,
         NEW t \in Sessions
  PROVE  BalanceFresh(t)'
<1>1. PICK e, y : e = tx[t].employee /\ y = tx[t].year
  OBVIOUS
<1>2. CASE tx'[t] = IdleTx \/ tx'[t].pc \in {"lock", "total"}
  BY <1>2 DEF BalanceFresh, IdleTx
<1>3. BalanceFresh(t) /\ RequestFresh(t) /\ waived \subseteq waived'
  BY WaivedGrows DEF ReadsFresh
<1>4. ASSUME Holds(t), tx'[t] # IdleTx, <<e, y>> \notin waived'
      PROVE  /\ Cap(e, y) \in Nat /\ Cap(e, y)' \in Nat /\ Cap(e, y) =< Cap(e, y)'
             /\ Used(e, y) \in Nat /\ Used(e, y)' \in Nat /\ Used(e, y)' =< Used(e, y)
  BY <1>1, <1>4, HeldAccount
<1>5. Holds(t) => tx[t] \in OpenTx
  BY TxOpen DEF Holds, LockSteps
<1>6. SUFFICES ASSUME tx'[t] # IdleTx, Holds(t),
                      tx'[t].employee = e, tx'[t].year = y
               PROVE  BalanceFresh(t)'
  <2>1. CASE tx'[t] = tx[t] /\ ~ Holds(t)
    BY <2>1 DEF BalanceFresh, Holds, LockSteps
  <2>2. CASE tx'[t] = tx[t] /\ Holds(t)
    BY <1>1, <1>2, <1>6, <2>2
  <2>3. ASSUME NEW pc \in LockSteps, NEW next, Step(t, pc, next),
               next.employee = tx[t].employee, next.year = tx[t].year
        PROVE  BalanceFresh(t)'
    <3>1. tx'[t] = next /\ Holds(t)
      BY <2>3 DEF Step, TypeOK, Holds
    <3> QED
      BY <1>1, <1>2, <1>6, <2>3, <3>1
  <2>4. CASE ComputeTotal(t) \/ ComputeUsed(t) \/ ComputeReserved(t)
    <3>1. tx[t] \in OpenTx
      BY <2>4, TxOpen DEF ComputeTotal, ComputeUsed, ComputeReserved, Step
    <3> QED
      BY <2>3, <2>4, <3>1 DEF ComputeTotal, ComputeUsed, ComputeReserved, OpenTx, LockSteps
  <2> QED
    BY <1>2, <2>1, <2>2, <2>4, TxMoves
<1>7. /\ tx[t] \in OpenTx
      /\ tx[t].total \in Nat /\ tx[t].used \in Nat /\ tx[t].minutes \in Nat
      /\ e \in Employees /\ y \in Years
  BY <1>1, <1>5, <1>6 DEF OpenTx
<1>8. /\ BalanceFresh(t)' <=>
           /\ tx'[t].pc \in {"used", "reserved", "write"} /\ <<e, y>> \notin waived'
                => tx'[t].total =< Cap(e, y)'
           /\ tx'[t].pc \in {"reserved", "write"} /\ <<e, y>> \notin waived'
                => Used(e, y)' =< tx'[t].used
           /\ tx'[t].pc = "write" /\ tx'[t].op = "approvePayout"
                => tx'[t].minutes =< tx'[t].reserved
      /\ tx[t].pc \in {"used", "reserved", "write"} /\ <<e, y>> \notin waived
           => tx[t].total =< Cap(e, y)
      /\ tx[t].pc \in {"reserved", "write"} /\ <<e, y>> \notin waived
           => Used(e, y) =< tx[t].used
      /\ tx[t].pc = "write" /\ tx[t].op = "approvePayout"
           => tx[t].minutes =< tx[t].reserved
  BY <1>1, <1>3, <1>6 DEF BalanceFresh, Cap, LegalTotal, BalanceAsOf, Used, ChargedLeaves,
     ChargedPayouts, PayoutsOf
<1>9. CASE tx'[t] = tx[t]
  BY <1>3, <1>4, <1>6, <1>7, <1>8, <1>9
<1>10. CASE ComputeTotal(t)
  <2>1. PICK total : /\ tx'[t] = [tx[t] EXCEPT !.pc = "used", !.total = total]
                     /\ total = LegalTotal(e, y, IF tx[t].op = "approveLeave" THEN clock
                                                 ELSE BalanceAsOf(y))
    BY <1>1, <1>10 DEF ComputeTotal, Step, TypeOK
  <2>2. total =< Cap(e, y) /\ total \in Nat
    <3>1. CASE tx[t].op = "approveLeave"
      BY <1>7, <2>1, <3>1, LeaveTotalWithinCap, LegalTotalType DEF TypeOK
    <3>2. CASE tx[t].op # "approveLeave"
      BY <1>7, <2>1, <3>2, CapType DEF Cap
    <3> QED
      BY <3>1, <3>2
  <2>3. tx'[t].pc = "used" /\ tx'[t].total = total
    BY <1>7, <2>1 DEF OpenTx
  <2> QED
    BY <1>4, <1>6, <1>8, <2>2, <2>3
<1>11. CASE ComputeUsed(t)
  <2>1. tx'[t] = [tx[t] EXCEPT
          !.pc = IF tx[t].op = "approveLeave" THEN "write" ELSE "reserved",
          !.used = Used(e, y)]
    BY <1>1, <1>11 DEF ComputeUsed, Step, TypeOK
  <2>2. /\ tx[t].pc = "used" /\ tx'[t].total = tx[t].total /\ tx'[t].used = Used(e, y)
        /\ tx'[t].op = tx[t].op
        /\ tx'[t].pc = IF tx[t].op = "approveLeave" THEN "write" ELSE "reserved"
    <3>1. tx[t].pc = "used"
      BY <1>11 DEF ComputeUsed, Step
    <3> QED
      BY <1>7, <2>1, <3>1 DEF OpenTx
  <2> QED
    BY <1>3, <1>4, <1>6, <1>7, <1>8, <2>2
<1>12. CASE ComputeReserved(t)
  <2>1. tx'[t] = [tx[t] EXCEPT !.pc = "write", !.reserved = Reserved(e, y)]
    BY <1>1, <1>12 DEF ComputeReserved, Step, TypeOK
  <2>2. /\ tx[t].pc = "reserved" /\ tx'[t].total = tx[t].total
        /\ tx'[t].used = tx[t].used /\ tx'[t].reserved = Reserved(e, y)
        /\ tx'[t].minutes = tx[t].minutes
        /\ tx'[t].op = tx[t].op /\ tx'[t].pc = "write"
    <3>1. tx[t].pc = "reserved"
      BY <1>12 DEF ComputeReserved, Step
    <3> QED
      BY <1>7, <2>1, <3>1 DEF OpenTx
  <2>3. ASSUME tx[t].op = "approvePayout"
        PROVE  tx[t].minutes =< Reserved(e, y)
    <3> DEFINE p == tx[t].row
    <3>1. /\ p \in PayoutIds /\ p \in PayoutsOf(e, y, {"pending"})
          /\ Minutes(payouts[p].hours) = tx[t].minutes
      BY <1>1, <1>3, <2>3 DEF RequestFresh, PayoutsOf
    <3>2. PayoutMinutes[p] = tx[t].minutes
      BY <3>1 DEF PayoutMinutes
    <3> HIDE DEF p
    <3>3. /\ IsFiniteSet(PayoutsOf(e, y, {"pending"}))
          /\ \A k \in PayoutsOf(e, y, {"pending"}) : PayoutMinutes[k] \in Nat
      BY PayoutSumType
    <3> QED
      BY <3>1, <3>2, <3>3, TotalCovers DEF Reserved
  <2> QED
    BY <1>3, <1>4, <1>6, <1>7, <1>8, <2>2, <2>3
<1> QED
  BY <1>2, <1>6, <1>9, <1>10, <1>11, <1>12, TxMoves

\* Nor does what makes the check's subtraction exact change, while the account
\* is held and not waived.
LEMMA UnwrappedStep ==
  ASSUME TypeOK, TypeOK', LocksExclusive, ReadsFresh, ChecksUnwrapped, NoOverdraft,
         [Next]_vars, NEW t \in Sessions
  PROVE  Unwrapped(t)'
<1>1. PICK e, y : e = tx[t].employee /\ y = tx[t].year
  OBVIOUS
<1>2. Unwrapped(t) /\ waived \subseteq waived'
  BY WaivedGrows DEF ChecksUnwrapped
<1>3. CASE tx'[t] = IdleTx
  BY <1>3 DEF Unwrapped, IdleTx, PayoutOps
<1>4. CASE /\ tx'[t].pc \in {"lock", "total"}
           /\ \/ tx'[t].reserved = 0
              \/ tx'[t].reserved = tx[t].reserved /\ tx'[t].op = tx[t].op
  BY <1>2, <1>4 DEF Unwrapped
<1>5. ASSUME Holds(t), tx'[t] # IdleTx, <<e, y>> \notin waived'
      PROVE  /\ Cap(e, y) \in Nat /\ Used(e, y) \in Nat /\ Used(e, y)' \in Nat
             /\ Used(e, y)' =< Used(e, y) /\ Used(e, y) =< Cap(e, y)
  <2>1. e \in Employees /\ y \in Years
    BY <1>1, <1>5, TxOpen DEF Holds, LockSteps, OpenTx
  <2> QED
    BY <1>1, <1>2, <1>5, <2>1, HeldAccount DEF NoOverdraft
<1>6. ASSUME tx[t] \in OpenTx, tx'[t].employee = e, tx'[t].year = y
      PROVE  /\ Unwrapped(t)' <=>
                  /\ tx'[t].op = "approveLeave" =>
                       tx'[t].reserved = 0 /\ tx'[t].pc # "reserved"
                  /\ tx'[t].op \in PayoutOps /\ <<e, y>> \notin waived' =>
                       /\ tx'[t].pc = "used" => Used(e, y)' =< tx'[t].total
                       /\ tx'[t].pc \in {"reserved", "write"} => tx'[t].used =< tx'[t].total
             /\ tx[t].op = "approveLeave" => tx[t].reserved = 0 /\ tx[t].pc # "reserved"
             /\ tx[t].op \in PayoutOps /\ <<e, y>> \notin waived =>
                  /\ tx[t].pc = "used" => Used(e, y) =< tx[t].total
                  /\ tx[t].pc \in {"reserved", "write"} => tx[t].used =< tx[t].total
             /\ tx[t].total \in Nat /\ tx[t].used \in Nat
  BY <1>1, <1>2, <1>6, PopulationAssumption
     DEF Unwrapped, Used, ChargedLeaves, ChargedPayouts, PayoutsOf, OpenTx
<1>7. CASE tx'[t] = tx[t] /\ tx[t] # IdleTx
  <2>1. tx[t] \in OpenTx /\ tx'[t].employee = e /\ tx'[t].year = y
    BY <1>1, <1>7 DEF TypeOK
  <2>2. tx[t].pc = "used" => Holds(t)
    BY DEF Holds, LockSteps
  <2> QED
    BY <1>2, <1>5, <1>6, <1>7, <2>1, <2>2
<1>8. CASE ComputeTotal(t)
  <2>1. PICK total : /\ tx'[t] = [tx[t] EXCEPT !.pc = "used", !.total = total]
                     /\ total = LegalTotal(e, y, IF tx[t].op = "approveLeave" THEN clock
                                                 ELSE BalanceAsOf(y))
    BY <1>1, <1>8 DEF ComputeTotal, Step, TypeOK
  <2>2. tx[t] \in OpenTx /\ Holds(t)
    BY <1>8, TxOpen DEF ComputeTotal, Step, Holds, LockSteps
  <2>3. /\ tx'[t].pc = "used" /\ tx'[t].total = total /\ tx'[t].op = tx[t].op
        /\ tx'[t].reserved = tx[t].reserved
        /\ tx'[t].employee = e /\ tx'[t].year = y
    BY <1>1, <2>1, <2>2 DEF OpenTx
  <2>4. tx[t].op \in PayoutOps => total = Cap(e, y)
    BY <2>1 DEF Cap, PayoutOps
  <2> QED
    BY <1>3, <1>5, <1>6, <2>2, <2>3, <2>4
<1>9. CASE ComputeUsed(t)
  <2>1. tx'[t] = [tx[t] EXCEPT
          !.pc = IF tx[t].op = "approveLeave" THEN "write" ELSE "reserved",
          !.used = Used(e, y)]
    BY <1>1, <1>9 DEF ComputeUsed, Step, TypeOK
  <2>2. tx[t] \in OpenTx /\ tx[t].pc = "used"
    BY <1>9, TxOpen DEF ComputeUsed, Step
  <2>3. /\ tx'[t].pc = IF tx[t].op = "approveLeave" THEN "write" ELSE "reserved"
        /\ tx'[t].total = tx[t].total /\ tx'[t].op = tx[t].op
        /\ tx'[t].used = Used(e, y) /\ tx'[t].reserved = tx[t].reserved
        /\ tx'[t].employee = e /\ tx'[t].year = y
    BY <1>1, <2>1, <2>2 DEF OpenTx
  <2>4. tx[t].op \in PayoutOps => tx[t].op # "approveLeave"
    BY DEF PayoutOps
  <2> QED
    BY <1>2, <1>6, <2>2, <2>3, <2>4
<1>10. CASE ComputeReserved(t)
  <2>1. tx'[t] = [tx[t] EXCEPT !.pc = "write", !.reserved = Reserved(e, y)]
    BY <1>1, <1>10 DEF ComputeReserved, Step, TypeOK
  <2>2. tx[t] \in OpenTx /\ tx[t].pc = "reserved"
    BY <1>10, TxOpen DEF ComputeReserved, Step
  <2>3. /\ tx'[t].pc = "write" /\ tx'[t].total = tx[t].total
        /\ tx'[t].used = tx[t].used /\ tx'[t].op = tx[t].op
        /\ tx'[t].employee = e /\ tx'[t].year = y
    BY <1>1, <2>1, <2>2 DEF OpenTx
  <2>4. tx[t].op # "approveLeave"
    BY <2>2 DEF ChecksUnwrapped, Unwrapped
  <2> QED
    BY <1>2, <1>6, <2>2, <2>3, <2>4
<1> QED
  BY <1>3, <1>4, <1>7, <1>8, <1>9, <1>10, TxMoves

-----------------------------------------------------------------------------
(* The inductive invariant *)

\* NoOverdraft is not inductive: a commit relies on what its transaction read,
\* those reads on the locks, and all of them on the types.
IInv == TypeOK /\ LocksExclusive /\ ReadsFresh /\ ChecksUnwrapped /\ NoOverdraft

LEMMA OverdraftStep ==
  ASSUME TypeOK, TypeOK', ReadsFresh, ChecksUnwrapped, NoOverdraft, [Next]_vars
  PROVE  NoOverdraft'
<1> SUFFICES ASSUME NEW e \in Employees, NEW y \in Years, <<e, y>> \notin waived'
             PROVE  Used(e, y)' =< Cap(e, y)'
  BY DEF NoOverdraft
<1>1. CASE \E s \in Sessions : Charges(s, e, y)
  <2>1. Used(e, y)' =< Cap(e, y)
    BY <1>1 DEF Charges
  <2> QED
    BY <2>1, CapStep, CapType, SumTypesNext
<1>2. CASE Used(e, y)' =< Used(e, y)
  <2>1. Used(e, y) =< Cap(e, y)
    BY WaivedGrows DEF NoOverdraft
  <2> QED
    BY <1>2, <2>1, CapStep, CapType, UsedType, SumTypesNext
<1> QED
  BY <1>1, <1>2, UsedStep

LEMMA NothingUsed ==
  ASSUME Init
  PROVE  \A e, y : Used(e, y) = 0
<1> SUFFICES ASSUME NEW e, NEW y PROVE Used(e, y) = 0
  OBVIOUS
<1>1. ChargedLeaves(e, y) = {} /\ ChargedPayouts(e, y) = {}
  BY DEF Init, ChargedLeaves, ChargedPayouts, PayoutsOf, NoLeave, NoPayout
<1>2. \A m : Units({}, m) = {}
  BY DEF Units
<1>3. \A m : Total({}, m) = 0
  BY <1>2, FS_EmptySet DEF Total
<1> QED
  BY <1>1, <1>3 DEF Used

LEMMA InitInv ==
  ASSUME Init
  PROVE  IInv
<1>1. TypeOK
  BY CalendarAssumption DEF Init, TypeOK
<1>2. LocksExclusive
  BY DEF Init, LocksExclusive, IdleTx, Holds, LockSteps
<1>3. ReadsFresh
  BY DEF Init, ReadsFresh, RequestFresh, BalanceFresh, IdleTx
<1>4. ASSUME NEW e \in Employees, NEW y \in Years
      PROVE  Used(e, y) =< Cap(e, y)
  BY <1>1, NothingUsed, CapType
<1>5. ChecksUnwrapped
  BY DEF Init, ChecksUnwrapped, Unwrapped, IdleTx, PayoutOps
<1> QED
  BY <1>1, <1>2, <1>3, <1>4, <1>5 DEF IInv, NoOverdraft

LEMMA NextInv ==
  ASSUME IInv, [Next]_vars
  PROVE  IInv'
<1>1. TypeOK'
  BY TypeStep DEF IInv
<1>2. LocksExclusive'
  BY LocksStep DEF IInv
<1>3. ReadsFresh'
  BY <1>1, RequestsStep, BalancesStep DEF IInv, ReadsFresh
<1>4. NoOverdraft'
  BY <1>1, OverdraftStep DEF IInv
<1>5. ChecksUnwrapped'
  BY <1>1, UnwrappedStep DEF IInv, ChecksUnwrapped
<1> QED
  BY <1>1, <1>2, <1>3, <1>4, <1>5 DEF IInv

LEMMA Invariance == Spec => []IInv
BY InitInv, NextInv, PTL DEF Spec

\* Every row and every open transaction is well formed, for any number of
\* employees, requests and database sessions.
THEOREM TypeCorrect == Spec => []TypeOK
<1>1. IInv => TypeOK
  BY DEF IInv
<1> QED
  BY <1>1, Invariance, PTL

\* Two approvals never hold the same request or the same employee's balance:
\* the lock order of DecideLeaveRequestByAdmin and the payout handlers.
THEOREM LocksCorrect == Spec => []LocksExclusive
<1>1. IInv => LocksExclusive
  BY DEF IInv
<1> QED
  BY <1>1, Invariance, PTL

\* Between the row lock and the commit nothing an approval has read or
\* computed turns against it.
THEOREM ReadsCorrect == Spec => []ReadsFresh
<1>1. IInv => ReadsFresh
  BY DEF IInv
<1> QED
  BY <1>1, Invariance, PTL

\* No interleaving of requests spends more of a year than the contracts
\* entitle the employee to, on any account no admin changed behind the check
\* or charged, by a grant, with more minutes than an int32 holds: no other
\* overflow of the code's int32 arithmetic lets a request through.
THEOREM OverdraftFree == Spec => []NoOverdraft
<1>1. IInv => NoOverdraft
  BY DEF IInv
<1> QED
  BY <1>1, Invariance, PTL

-----------------------------------------------------------------------------
(* Decisions *)

\* A leave that is decided keeps its decision, and its row when approved.
LeaveKept(l) ==
  /\ leaves[l].status = "approved" => leaves'[l] = leaves[l]
  /\ leaves[l].status = "rejected" => leaves'[l].status = "rejected"

PayoutKept(p) ==
  /\ payouts[p].status \in {"rejected", "paid"} => payouts'[p].status = payouts[p].status
  /\ payouts[p].status = "approved" => payouts'[p].status \in {"approved", "paid"}

\* Only a request that is pending, or a new one, gets another status, except
\* for the approved payout that is paid.
LEMMA DecisionsStep ==
  ASSUME IInv, [Next]_vars
  PROVE  (\A l \in LeaveIds : LeaveKept(l)) /\ (\A p \in PayoutIds : PayoutKept(p))
<1>0. TypeOK /\ \A s \in Sessions : RequestFresh(s)
  BY DEF IInv, ReadsFresh
<1>1. CASE UNCHANGED <<leaves, payouts>>
  BY <1>1 DEF LeaveKept, PayoutKept
<1>2. ASSUME NEW l \in LeaveIds, UNCHANGED payouts,
             \A k \in LeaveIds \ {l} : leaves'[k] = leaves[k],
             leaves[l].status # "approved",
             leaves[l].status = "rejected" => leaves'[l].status = "rejected"
      PROVE  (\A k \in LeaveIds : LeaveKept(k)) /\ (\A p \in PayoutIds : PayoutKept(p))
  BY <1>2 DEF LeaveKept, PayoutKept
<1>3. ASSUME NEW p \in PayoutIds, UNCHANGED leaves,
             \A k \in PayoutIds \ {p} : payouts'[k] = payouts[k],
             PayoutKept(p)
      PROVE  (\A k \in LeaveIds : LeaveKept(k)) /\ (\A q \in PayoutIds : PayoutKept(q))
  BY <1>3 DEF LeaveKept, PayoutKept
<1>4. CASE LeaveNext
  <2>1. ASSUME NEW l \in LeaveIds, NEW v \in Employees, NEW by \in Employees,
               NEW f \in LeaveForms, CreateLeaveRequest(l, v, by, f)
        PROVE  leaves[l].status \notin {"approved", "rejected"}
    BY <2>1 DEF CreateLeaveRequest, NoLeave
  <2>2. ASSUME NEW l \in LeaveIds, NEW f \in LeaveForms, leaves[l].status # "approved",
               EditLeave(l, f)
        PROVE  (\A k \in LeaveIds : LeaveKept(k)) /\ (\A p \in PayoutIds : PayoutKept(p))
    <3>1. leaves'[l].status = leaves[l].status
      BY <1>0, <2>2 DEF EditLeave, TypeOK, LeaveRow
    <3> QED BY <1>0, <1>2, <2>2, <3>1 DEF EditLeave, TypeOK
  <2>3. ASSUME NEW l \in LeaveIds, NEW a \in Admins, NEW status, DecideLeave(l, a, status)
        PROVE  (\A k \in LeaveIds : LeaveKept(k)) /\ (\A p \in PayoutIds : PayoutKept(p))
    BY <1>0, <1>2, <2>3 DEF DecideLeave, TypeOK
  <2>4. ASSUME NEW l \in LeaveIds, NEW v \in Employees, NEW by \in Employees,
               NEW f \in LeaveForms, CreateLeaveRequest(l, v, by, f)
        PROVE  (\A k \in LeaveIds : LeaveKept(k)) /\ (\A p \in PayoutIds : PayoutKept(p))
    BY <1>0, <1>2, <2>1, <2>4 DEF CreateLeaveRequest, TypeOK
  <2> QED
    BY <1>1, <1>4, <2>2, <2>3, <2>4
       DEF LeaveNext, UpdateLeaveRequest, UpdateLeaveRequestByAdmin, RejectLeave,
           ApproveFreeLeave, BeginApproveLeave, Begin
<1>5. CASE PayoutNext
  <2>1. ASSUME NEW p \in PayoutIds, NEW f \in PayoutForms, EditPayout(p, f)
        PROVE  (\A k \in LeaveIds : LeaveKept(k)) /\ (\A q \in PayoutIds : PayoutKept(q))
    <3>1. payouts'[p].status = payouts[p].status
      BY <1>0, <2>1 DEF EditPayout, TypeOK, PayoutRow
    <3> QED BY <1>0, <1>3, <2>1, <3>1 DEF EditPayout, TypeOK, PayoutKept
  <2>2. ASSUME NEW p \in PayoutIds, NEW a \in Admins, NEW from, NEW to,
               SettlePayout(p, a, from, to),
               \/ from = "pending" /\ to = "rejected"
               \/ from = "approved" /\ to = "paid"
        PROVE  (\A k \in LeaveIds : LeaveKept(k)) /\ (\A q \in PayoutIds : PayoutKept(q))
    <3>1. payouts[p].status = from /\ payouts[p] \in PayoutRows
      BY <1>0, <2>2 DEF SettlePayout, TypeOK, NoPayout
    <3>2. payouts'[p].status = to
      BY <1>0, <2>2, <3>1 DEF SettlePayout, TypeOK, PayoutRows
    <3> QED BY <1>0, <1>3, <2>2, <3>1, <3>2 DEF SettlePayout, TypeOK, PayoutKept
  <2> QED
    BY <1>1, <1>5, <2>1, <2>2
       DEF PayoutNext, UpdatePayoutRequest, UpdatePayoutRequestByAdmin, RejectPayout,
           MarkPayoutRequestPaid, BeginCreatePayout, BeginGrantPayout, BeginApprovePayout, Begin
<1>6. CASE SessionNext
  <2>1. ASSUME NEW s \in Sessions, CommitApproveLeave(s)
        PROVE  (\A k \in LeaveIds : LeaveKept(k)) /\ (\A p \in PayoutIds : PayoutKept(p))
    <3>1. tx[s].row \in LeaveIds /\ leaves[tx[s].row].status = "pending"
      BY <1>0, <2>1 DEF CommitApproveLeave, Write, RequestFresh
    <3> QED BY <1>0, <1>2, <2>1, <3>1 DEF CommitApproveLeave, TypeOK
  <2>2. ASSUME NEW s \in Sessions, CommitInsertPayout(s) \/ CommitApprovePayout(s)
        PROVE  (\A k \in LeaveIds : LeaveKept(k)) /\ (\A p \in PayoutIds : PayoutKept(p))
    <3>1. tx[s].row \in PayoutIds /\ payouts[tx[s].row].status \in {"none", "pending"}
      BY <1>0, <2>2 DEF CommitInsertPayout, CommitApprovePayout, Write, RequestFresh, NoPayout
    <3>2. PayoutKept(tx[s].row)
      BY <3>1 DEF PayoutKept
    <3> QED BY <1>0, <1>3, <2>2, <3>1, <3>2 DEF CommitInsertPayout, CommitApprovePayout, TypeOK
  <2> QED
    BY <1>1, <1>6, <2>1, <2>2
       DEF SessionNext, LockEmployee, ComputeTotal, ComputeUsed, ComputeReserved, Step, Commit,
           RefuseInsufficient, RefuseOutOfRange, Rollback, DeadlockVictim
<1>7. CASE Tick \/ UNCHANGED vars \/ \E v \in Employees, c \in Contracts : ReviseContract(v, c)
  BY <1>1, <1>7 DEF Tick, vars, ReviseContract
<1> QED BY <1>4, <1>5, <1>6, <1>7 DEF Next

\* A decision is final: no handler but the payment of an approved payout changes
\* the status of a decided request, and no handler changes an approved leave,
\* whatever transactions are open.
THEOREM DecisionsStay == Spec => DecisionsFinal
<1>1. IInv /\ [Next]_vars =>
        [/\ \A l \in LeaveIds :
              /\ leaves[l].status = "approved" => leaves'[l] = leaves[l]
              /\ leaves[l].status = "rejected" => leaves'[l].status = "rejected"
         /\ \A p \in PayoutIds :
              /\ payouts[p].status \in {"rejected", "paid"} =>
                    payouts'[p].status = payouts[p].status
              /\ payouts[p].status = "approved" =>
                    payouts'[p].status \in {"approved", "paid"}]_vars
  BY DecisionsStep DEF LeaveKept, PayoutKept
<1> QED
  BY <1>1, Invariance, PTL DEF Spec, DecisionsFinal

-----------------------------------------------------------------------------
(* The ledger implements accounts that are charged at once, within their caps *)

LEMMA ChargedLeavesSame ==
  ASSUME TypeOK, NEW e, NEW y, ChargedLeaves(e, y)' = ChargedLeaves(e, y),
         \A k \in ChargedLeaves(e, y) : leaves'[k].minutes = leaves[k].minutes
  PROVE  Total(ChargedLeaves(e, y), LeaveMinutes)' = Total(ChargedLeaves(e, y), LeaveMinutes)
<1> DEFINE rows == ChargedLeaves(e, y)
           m == LeaveMinutes
           n == LeaveMinutes'
<1>1. \A k \in rows : n[k] = m[k]
  BY DEF LeaveMinutes, ChargedLeaves
<1>2. Total(ChargedLeaves(e, y), LeaveMinutes)' = Total(rows, n)
  BY DEF Total, Units
<1> HIDE DEF rows, m, n
<1>3. Total(rows, n) = Total(rows, m)
  BY <1>1, TotalSame
<1> QED BY <1>2, <1>3 DEF rows, m

LEMMA ChargedPayoutsSame ==
  ASSUME TypeOK, NEW e, NEW y, ChargedPayouts(e, y)' = ChargedPayouts(e, y),
         \A k \in ChargedPayouts(e, y) : payouts'[k].hours = payouts[k].hours
  PROVE  Total(ChargedPayouts(e, y), PayoutMinutes)'
           = Total(ChargedPayouts(e, y), PayoutMinutes)
<1> DEFINE rows == ChargedPayouts(e, y)
           m == PayoutMinutes
           n == PayoutMinutes'
<1>1. \A k \in rows : n[k] = m[k]
  BY DEF PayoutMinutes, ChargedPayouts, PayoutsOf
<1>2. Total(ChargedPayouts(e, y), PayoutMinutes)' = Total(rows, n)
  BY DEF Total, Units
<1> HIDE DEF rows, m, n
<1>3. Total(rows, n) = Total(rows, m)
  BY <1>1, TotalSame
<1> QED BY <1>2, <1>3 DEF rows, m

\* A leave that joins those charged to an account adds its minutes.
LEMMA ChargedLeavesMore ==
  ASSUME TypeOK, NEW e, NEW y, NEW l \in LeaveIds, l \notin ChargedLeaves(e, y),
         ChargedLeaves(e, y)' = ChargedLeaves(e, y) \cup {l},
         \A k \in ChargedLeaves(e, y) : leaves'[k].minutes = leaves[k].minutes,
         leaves'[l].minutes = leaves[l].minutes
  PROVE  Total(ChargedLeaves(e, y), LeaveMinutes)'
           = Total(ChargedLeaves(e, y), LeaveMinutes) + leaves[l].minutes
<1> DEFINE rows == ChargedLeaves(e, y)
           m == LeaveMinutes
           n == LeaveMinutes'
<1>1. /\ IsFiniteSet(rows) /\ rows \subseteq LeaveIds
      /\ \A k \in LeaveIds : m[k] \in Nat
  BY LeaveSumType
<1>2. \A k \in rows \cup {l} : n[k] = m[k]
  BY DEF LeaveMinutes, ChargedLeaves
<1>3. Total(ChargedLeaves(e, y), LeaveMinutes)' = Total(rows \cup {l}, n)
  BY DEF Total, Units
<1>4. m[l] = leaves[l].minutes /\ l \notin rows
  BY DEF LeaveMinutes
<1> HIDE DEF rows, m, n
<1>5. Total(rows \cup {l}, n) = Total(rows \cup {l}, m)
  BY <1>2, TotalSame
<1>6. Total(rows \cup {l}, m) = Total(rows, m) + m[l]
  BY <1>1, <1>4, TotalAdd
<1> QED BY <1>3, <1>4, <1>5, <1>6 DEF rows, m

\* A payout that joins those charged to an account adds its minutes.
LEMMA ChargedPayoutsMore ==
  ASSUME TypeOK, TypeOK', NEW e, NEW y, NEW p \in PayoutIds, p \notin ChargedPayouts(e, y),
         ChargedPayouts(e, y)' = ChargedPayouts(e, y) \cup {p},
         \A k \in PayoutIds \ {p} : payouts'[k] = payouts[k]
  PROVE  Total(ChargedPayouts(e, y), PayoutMinutes)'
           = Total(ChargedPayouts(e, y), PayoutMinutes) + Minutes(payouts'[p].hours)
<1> DEFINE rows == ChargedPayouts(e, y)
           m == PayoutMinutes
           n == PayoutMinutes'
<1>1. /\ IsFiniteSet(rows) /\ rows \subseteq PayoutIds
      /\ \A k \in PayoutIds : m[k] \in Nat
  BY PayoutSumType DEF ChargedPayouts
<1>2. /\ \A k \in PayoutIds : payouts'[k].hours \in Nat
      /\ MinutesPerHour \in Nat
  BY PopulationAssumption DEF TypeOK, PayoutRows, NoPayout
<1>3. \A k \in PayoutIds : n[k] = payouts'[k].hours * MinutesPerHour
  BY DEF PayoutMinutes, Minutes
<1>4. \A k \in PayoutIds : n[k] \in Nat
  BY <1>2, <1>3
<1>5. \A k \in rows : n[k] = m[k]
  BY DEF PayoutMinutes, ChargedPayouts, PayoutsOf
<1>6. Total(ChargedPayouts(e, y), PayoutMinutes)' = Total(rows \cup {p}, n)
  BY DEF Total, Units
<1>7. n[p] = Minutes(payouts'[p].hours) /\ p \notin rows
  BY <1>3 DEF Minutes
<1> HIDE DEF rows, m, n
<1>8. Total(rows \cup {p}, n) = Total(rows, n) + n[p]
  BY <1>1, <1>4, <1>7, TotalAdd
<1>9. Total(rows, n) = Total(rows, m)
  BY <1>5, TotalSame
<1> QED BY <1>6, <1>7, <1>8, <1>9 DEF rows, m

\* What a commit charges: nothing, or its own account its own minutes.
ChargesNothingElse(s, e, y) ==
  \/ Used(e, y)' = Used(e, y)
  \/ /\ e = tx[s].employee /\ y = tx[s].year
     /\ Used(e, y) \in Nat /\ tx[s].minutes \in Nat \ {0}
     /\ Used(e, y)' = Used(e, y) + tx[s].minutes

LEMMA LeaveCommitCharges ==
  ASSUME TypeOK, TypeOK', ReadsFresh, NEW s \in Sessions, CommitApproveLeave(s),
         NEW e, NEW y
  PROVE  ChargesNothingElse(s, e, y)
<1> DEFINE l == tx[s].row
<1>1. /\ l \in LeaveIds /\ leaves[l].status = "pending"
      /\ leaves[l].employee = tx[s].employee /\ YearOf[leaves[l].start] = tx[s].year
      /\ leaves[l].minutes = tx[s].minutes
  BY DEF CommitApproveLeave, Write, ReadsFresh, RequestFresh
<1>2. /\ leaves'[l] = [leaves[l] EXCEPT !.status = "approved"]
      /\ \A k \in LeaveIds \ {l} : leaves'[k] = leaves[k]
      /\ UNCHANGED payouts
  BY <1>1 DEF CommitApproveLeave, TypeOK
<1>3. leaves[l] \in LeaveRows
  BY <1>1 DEF TypeOK, NoLeave
<1>4. /\ leaves'[l].minutes = leaves[l].minutes /\ leaves[l].minutes \in Nat \ {0}
      /\ leaves'[l].employee = leaves[l].employee
      /\ leaves'[l].start = leaves[l].start
      /\ leaves'[l].status = "approved" /\ leaves'[l].deducts = leaves[l].deducts
  BY <1>2, <1>3, PopulationAssumption DEF LeaveRows
<1> HIDE DEF l
<1>5. l \notin ChargedLeaves(e, y)
  BY <1>1 DEF ChargedLeaves
<1>6. /\ ChargedLeaves(e, y)' = IF l \in ChargedLeaves(e, y)' THEN ChargedLeaves(e, y) \cup {l}
                                                              ELSE ChargedLeaves(e, y)
      /\ \A k \in ChargedLeaves(e, y) : leaves'[k].minutes = leaves[k].minutes
  BY <1>1, <1>2, <1>5 DEF ChargedLeaves
<1>7. Total(ChargedPayouts(e, y), PayoutMinutes)' = Total(ChargedPayouts(e, y), PayoutMinutes)
  BY <1>2 DEF ChargedPayouts, PayoutsOf, PayoutMinutes, Total, Units
<1>8. /\ Total(ChargedLeaves(e, y), LeaveMinutes) \in Nat
      /\ Total(ChargedPayouts(e, y), PayoutMinutes) \in Nat
  BY LeaveSumType, PayoutSumType DEF ChargedPayouts
<1>9. CASE l \notin ChargedLeaves(e, y)'
  <2>1. Total(ChargedLeaves(e, y), LeaveMinutes)' = Total(ChargedLeaves(e, y), LeaveMinutes)
    BY <1>6, <1>9, ChargedLeavesSame
  <2> QED BY <1>7, <2>1 DEF Used, ChargesNothingElse
<1>10. CASE l \in ChargedLeaves(e, y)'
  <2>1. Total(ChargedLeaves(e, y), LeaveMinutes)'
          = Total(ChargedLeaves(e, y), LeaveMinutes) + leaves[l].minutes
    BY <1>1, <1>4, <1>5, <1>6, <1>10, ChargedLeavesMore
  <2>2. e = tx[s].employee /\ y = tx[s].year
    BY <1>1, <1>4, <1>10 DEF ChargedLeaves
  <2> QED BY <1>1, <1>4, <1>7, <1>8, <2>1, <2>2 DEF Used, ChargesNothingElse
<1> QED BY <1>9, <1>10

LEMMA PayoutCommitCharges ==
  ASSUME TypeOK, TypeOK', ReadsFresh, NEW s \in Sessions,
         CommitInsertPayout(s) \/ CommitApprovePayout(s), NEW e, NEW y
  PROVE  ChargesNothingElse(s, e, y)
<1> DEFINE p == tx[s].row
<1>1. /\ p \in PayoutIds
      /\ payouts[p].status \notin {"approved", "paid"}
      /\ payouts'[p].employee = tx[s].employee
      /\ payouts'[p].year = tx[s].year
      /\ Minutes(payouts'[p].hours) = tx[s].minutes
  <2>1. CASE CommitInsertPayout(s)
    <3>1. p \in PayoutIds /\ payouts[p] = NoPayout
      BY <2>1 DEF CommitInsertPayout, Write, ReadsFresh, RequestFresh
    <3>2. PICK f \in PayoutForms :
            /\ f.year = tx[s].year
            /\ Minutes(f.hours) = tx[s].minutes
            /\ payouts'[p] = PayoutRow(IF tx[s].op = "grantPayout" THEN "approved"
                                       ELSE "pending", tx[s].employee, f)
      BY <2>1, <3>1 DEF CommitInsertPayout, TypeOK
    <3> QED
      BY <3>1, <3>2 DEF NoPayout, PayoutRow
  <2>2. CASE CommitApprovePayout(s)
    <3>1. /\ p \in PayoutIds /\ payouts[p].status = "pending"
          /\ payouts[p].employee = tx[s].employee /\ payouts[p].year = tx[s].year
          /\ Minutes(payouts[p].hours) = tx[s].minutes
      BY <2>2 DEF CommitApprovePayout, Write, ReadsFresh, RequestFresh
    <3>2. payouts'[p] = [payouts[p] EXCEPT !.status = "approved"]
      BY <2>2, <3>1 DEF CommitApprovePayout, TypeOK
    <3>3. payouts[p] \in PayoutRows
      BY <3>1 DEF TypeOK, NoPayout
    <3>4. /\ payouts'[p].employee = payouts[p].employee
          /\ payouts'[p].year = payouts[p].year
          /\ payouts'[p].hours = payouts[p].hours
      BY <3>2, <3>3 DEF PayoutRows
    <3> QED
      BY <3>1, <3>4
  <2> QED
    BY <2>1, <2>2
<1>2. /\ \A k \in PayoutIds \ {p} : payouts'[k] = payouts[k]
      /\ UNCHANGED leaves
  BY DEF CommitInsertPayout, CommitApprovePayout, TypeOK
<1> HIDE DEF p
<1>3. p \notin ChargedPayouts(e, y)
  BY <1>1 DEF ChargedPayouts, PayoutsOf
<1>4. /\ ChargedPayouts(e, y)' = IF p \in ChargedPayouts(e, y)' THEN ChargedPayouts(e, y) \cup {p}
                                                                ELSE ChargedPayouts(e, y)
      /\ \A k \in ChargedPayouts(e, y) : payouts'[k] = payouts[k]
  BY <1>1, <1>2, <1>3 DEF ChargedPayouts, PayoutsOf
<1>5. Total(ChargedLeaves(e, y), LeaveMinutes)' = Total(ChargedLeaves(e, y), LeaveMinutes)
  BY <1>2 DEF ChargedLeaves, LeaveMinutes, Total, Units
<1>6. /\ Total(ChargedLeaves(e, y), LeaveMinutes) \in Nat
      /\ Total(ChargedPayouts(e, y), PayoutMinutes) \in Nat
  BY LeaveSumType, PayoutSumType DEF ChargedPayouts
<1>7. CASE p \notin ChargedPayouts(e, y)'
  <2>1. Total(ChargedPayouts(e, y), PayoutMinutes)' = Total(ChargedPayouts(e, y), PayoutMinutes)
    BY <1>4, <1>7, ChargedPayoutsSame
  <2> QED BY <1>5, <2>1 DEF Used, ChargesNothingElse
<1>8. CASE p \in ChargedPayouts(e, y)'
  <2>1. Total(ChargedPayouts(e, y), PayoutMinutes)'
          = Total(ChargedPayouts(e, y), PayoutMinutes) + Minutes(payouts'[p].hours)
    BY <1>1, <1>2, <1>3, <1>4, <1>8, ChargedPayoutsMore
  <2>2. e = tx[s].employee /\ y = tx[s].year
    BY <1>1, <1>8 DEF ChargedPayouts, PayoutsOf
  <2>3. payouts'[p] \in PayoutRows
    BY <1>1, <1>8 DEF TypeOK, NoPayout, ChargedPayouts, PayoutsOf
  <2>4. payouts'[p].hours \in Nat \ {0} /\ MinutesPerHour \in Nat \ {0}
    BY <2>3, PopulationAssumption DEF PayoutRows
  <2>5. \A h, k \in Nat \ {0} : h * k \in Nat \ {0}
    OBVIOUS
  <2>6. Minutes(payouts'[p].hours) \in Nat \ {0}
    BY <2>4, <2>5 DEF Minutes
  <2> HIDE DEF Minutes
  <2> QED BY <1>1, <1>5, <1>6, <2>1, <2>2, <2>6 DEF Used, ChargesNothingElse
<1> QED BY <1>7, <1>8

spent == [a \in Accounts |-> Used(a[1], a[2])]
cap == [a \in Accounts |-> Cap(a[1], a[2])]

\* What the two functions say of one account.
LEMMA AccountsAre ==
  ASSUME TypeOK, TypeOK', NEW a \in Accounts
  PROVE  /\ a[1] \in Employees /\ a[2] \in Years /\ a = <<a[1], a[2]>>
         /\ spent[a] = Used(a[1], a[2]) /\ spent'[a] = Used(a[1], a[2])'
         /\ cap[a] = Cap(a[1], a[2]) /\ cap'[a] = Cap(a[1], a[2])'
         /\ spent[a] \in Nat /\ spent'[a] \in Nat /\ cap[a] \in Nat /\ cap'[a] \in Nat
<1>1. a[1] \in Employees /\ a[2] \in Years /\ a = <<a[1], a[2]>>
  BY DEF Accounts
<1>2. /\ spent[a] = Used(a[1], a[2]) /\ spent'[a] = Used(a[1], a[2])'
      /\ cap[a] = Cap(a[1], a[2]) /\ cap'[a] = Cap(a[1], a[2])'
  BY DEF spent, cap
<1>3. /\ Used(a[1], a[2]) \in Nat /\ Used(a[1], a[2])' \in Nat
      /\ Cap(a[1], a[2]) \in Nat /\ Cap(a[1], a[2])' \in Nat
  BY <1>1, SumTypes, SumTypesNext
<1> QED BY <1>1, <1>2, <1>3

LEMMA SpentSame ==
  ASSUME \A a \in Accounts : Used(a[1], a[2])' = Used(a[1], a[2])
  PROVE  spent' = spent
BY DEF spent

LEMMA CapSame ==
  ASSUME UNCHANGED <<contract, clock>>
  PROVE  cap' = cap
BY DEF cap, Cap, LegalTotal, BalanceAsOf

\* The accounts' own variables.
accounts == <<spent, cap, waived>>

LEMMA QuietCharges ==
  ASSUME UNCHANGED <<leaves, payouts, contract, clock, waived>>
  PROVE  UNCHANGED accounts
<1>1. \A a \in Accounts : Used(a[1], a[2])' = Used(a[1], a[2])
  BY UsedSame
<1> QED BY <1>1, SpentSame, CapSame DEF accounts

\* Days and revisions entitle.
LEMMA EntitleCharges ==
  ASSUME TypeOK, TypeOK', [Next]_vars, UNCHANGED <<leaves, payouts>>
  PROVE  LedgerAccounts!Entitle
<1>1. \A a \in Accounts : Used(a[1], a[2])' = Used(a[1], a[2])
  BY UsedSame
<1>2. ASSUME NEW a \in Accounts, cap'[a] < cap[a]
      PROVE  a \in waived'
  <2>1. SUFFICES ASSUME a \notin waived' PROVE FALSE
    OBVIOUS
  <2>2. Cap(a[1], a[2]) =< Cap(a[1], a[2])'
    BY <2>1, AccountsAre, CapStep
  <2> QED BY <1>2, <2>2, AccountsAre
<1>3. spent' = spent /\ waived \subseteq waived'
  BY <1>1, SpentSame, WaivedGrows
<1> QED BY <1>2, <1>3 DEF LedgerAccounts!Entitle, spent, cap

\* A request that is created, edited or decided with no balance check only
\* takes from accounts, but for the one an admin's edit waives.
LEMMA DropCharges ==
  ASSUME TypeOK, TypeOK', NEW a \in Accounts, UNCHANGED <<contract, clock>>,
         waived' \in {waived, waived \cup {a}},
         \A b \in Accounts : b # a \/ a \notin waived' => Used(b[1], b[2])' =< Used(b[1], b[2])
  PROVE  LedgerAccounts!Rewrite(a)
<1>1. \A b \in Accounts \ {a} : spent'[b] =< spent[b]
  BY AccountsAre
<1>2. spent'[a] > spent[a] => a \in waived'
  BY AccountsAre
<1>3. cap' = cap
  BY CapSame
<1> QED BY <1>1, <1>2, <1>3 DEF LedgerAccounts!Rewrite, spent, cap

\* Without accounts nothing changes.
LEMMA FewerCharges ==
  ASSUME TypeOK, TypeOK', UNCHANGED <<contract, clock, waived>>,
         \A e \in Employees, y \in Years : Used(e, y)' =< Used(e, y)
  PROVE  LedgerAccounts!Next \/ UNCHANGED accounts
<1>1. CASE Accounts = {}
  BY <1>1, SpentSame, CapSame DEF accounts
<1>2. ASSUME NEW a \in Accounts PROVE LedgerAccounts!Next
  <2>1. \A b \in Accounts : Used(b[1], b[2])' =< Used(b[1], b[2])
    BY AccountsAre
  <2> QED BY <1>2, <2>1, DropCharges DEF LedgerAccounts!Next
<1> QED BY <1>1, <1>2

\* A commit charges its account within the cap.
LEMMA CommitCharges ==
  ASSUME TypeOK, TypeOK', ReadsFresh, ChecksUnwrapped, NEW s \in Sessions, Commit(s)
  PROVE  LedgerAccounts!Next \/ UNCHANGED accounts
<1>0. PICK a : a = <<tx[s].employee, tx[s].year>>
  OBVIOUS
<1>1. /\ tx[s] \in OpenTx
      /\ UNCHANGED <<contract, clock>>
      /\ \/ waived' = waived
         \/ waived' = waived \cup {a} /\ tx[s].minutes > MaxInt
  BY <1>0, TxOpen DEF Commit, CommitApproveLeave, CommitInsertPayout, CommitApprovePayout,
     Write, NoteOverflow
<1>2. a \in Accounts /\ a[1] = tx[s].employee /\ a[2] = tx[s].year
  BY <1>0, <1>1 DEF OpenTx, Accounts
<1>3. ASSUME NEW b \in Accounts
      PROVE  ChargesNothingElse(s, b[1], b[2])
  BY LeaveCommitCharges, PayoutCommitCharges DEF Commit
<1>4. a \notin waived' => Used(a[1], a[2])' =< Cap(a[1], a[2])
  BY <1>0, <1>2, CommitWithinCap
<1>5. \A b \in Accounts \ {a} : spent'[b] = spent[b]
  <2> SUFFICES ASSUME NEW b \in Accounts \ {a} PROVE spent'[b] = spent[b]
    OBVIOUS
  <2>1. b = <<b[1], b[2]>>
    BY AccountsAre
  <2>2. Used(b[1], b[2])' = Used(b[1], b[2])
    BY <1>0, <1>3, <2>1 DEF ChargesNothingElse
  <2> QED BY <2>2, AccountsAre
<1>6. cap' = cap
  BY <1>1, CapSame
<1>7. CASE spent'[a] > spent[a] /\ waived' = waived
  <2>1. spent'[a] =< cap[a] \/ a \in waived
    BY <1>2, <1>4, <1>7, AccountsAre
  <2>2. LedgerAccounts!Approve(a)
    BY <1>5, <1>6, <1>7, <2>1 DEF LedgerAccounts!Approve, spent, cap
  <2> QED BY <1>2, <2>2 DEF LedgerAccounts!Next
<1>9. CASE spent'[a] > spent[a] /\ waived' # waived
  <2>1. tx[s].minutes > MaxInt /\ waived' = waived \cup {a} /\ MaxInt \in Nat
    BY <1>1, <1>9, PopulationAssumption
  <2>2. spent'[a] > spent[a] + MaxInt
    BY <1>2, <1>3, <1>9, <2>1, AccountsAre DEF ChargesNothingElse
  <2>3. LedgerAccounts!Overflow(a)
    BY <1>5, <1>6, <2>1, <2>2 DEF LedgerAccounts!Overflow, spent, cap
  <2> QED BY <1>2, <2>3 DEF LedgerAccounts!Next
<1>8. CASE ~(spent'[a] > spent[a])
  <2>1. Used(a[1], a[2])' = Used(a[1], a[2])
    BY <1>2, <1>3, <1>8, AccountsAre DEF ChargesNothingElse
  <2>2. \A b \in Accounts : Used(b[1], b[2])' = Used(b[1], b[2])
    BY <1>5, <2>1, AccountsAre
  <2>3. waived' \in {waived, waived \cup {a}}
    BY <1>1
  <2>4. \A b \in Accounts : Used(b[1], b[2])' =< Used(b[1], b[2])
    BY <2>2, AccountsAre
  <2>5. LedgerAccounts!Rewrite(a)
    BY <1>1, <1>2, <2>3, <2>4, DropCharges
  <2> QED BY <1>2, <2>5 DEF LedgerAccounts!Next
<1> QED BY <1>7, <1>8, <1>9

LEMMA NextCharges ==
  IInv /\ IInv' /\ [Next]_vars => LedgerAccounts!Next \/ UNCHANGED accounts
<1> SUFFICES ASSUME IInv, IInv', [Next]_vars
             PROVE  LedgerAccounts!Next \/ UNCHANGED accounts
  OBVIOUS
<1>0. TypeOK /\ TypeOK' /\ ReadsFresh /\ ChecksUnwrapped
  BY DEF IInv
<1>1. CASE UNCHANGED <<leaves, payouts, contract, clock, waived>>
  BY <1>1, QuietCharges
<1>2. CASE LeaveNext
  <2>1. UNCHANGED <<contract, clock, waived>>
    BY <1>2 DEF LeaveNext, CreateLeaveRequest, UpdateLeaveRequest, UpdateLeaveRequestByAdmin,
       EditLeave, RejectLeave, ApproveFreeLeave, DecideLeave, BeginApproveLeave, Begin
  <2> QED BY <1>0, <1>2, <2>1, LeaveNextDrops, FewerCharges
<1>3. ASSUME NEW p \in PayoutIds, NEW f \in PayoutForms, UpdatePayoutRequestByAdmin(p, f)
      PROVE  LedgerAccounts!Next
  <2>1. PICK a : a = <<payouts[p].employee, f.year>>
    OBVIOUS
  <2>2. payouts[p] \in PayoutRows /\ f \in PayoutForm
    BY <1>0, <1>3, PopulationAssumption DEF UpdatePayoutRequestByAdmin, TypeOK
  <2>3. a \in Accounts
    BY <2>1, <2>2 DEF Accounts, PayoutRows, PayoutForm
  <2>4. /\ UNCHANGED <<contract, clock>>
        /\ waived' \in {waived, waived \cup {a}}
    BY <1>3, <2>1 DEF UpdatePayoutRequestByAdmin, EditPayout
  <2>5. ASSUME NEW b \in Accounts, b # a \/ a \notin waived'
        PROVE  Used(b[1], b[2])' =< Used(b[1], b[2])
    <3>1. b[1] \in Employees /\ b[2] \in Years /\ b = <<b[1], b[2]>>
      BY <1>0, AccountsAre
    <3>2. <<b[1], b[2]>> \notin waived' \/ <<b[1], b[2]>> # <<payouts[p].employee, f.year>>
      BY <2>1, <2>5, <3>1
    <3> QED BY <1>0, <1>3, <3>1, <3>2, AdminEditDrops
  <2>6. LedgerAccounts!Rewrite(a)
    BY <1>0, <2>3, <2>4, <2>5, DropCharges
  <2> QED BY <2>3, <2>6 DEF LedgerAccounts!Next
<1>4. CASE PayoutNext /\ ~ \E p \in PayoutIds, f \in PayoutForms : UpdatePayoutRequestByAdmin(p, f)
  <2>1. UNCHANGED <<contract, clock, waived>>
    BY <1>4 DEF PayoutNext, UpdatePayoutRequest, EditPayout, RejectPayout,
       MarkPayoutRequestPaid, SettlePayout, BeginCreatePayout, BeginGrantPayout,
       BeginApprovePayout, Begin
  <2> QED BY <1>0, <1>4, <2>1, PayoutNextDrops, FewerCharges
<1>5. CASE SessionNext
  <2>1. ASSUME NEW s \in Sessions, Commit(s)
        PROVE  LedgerAccounts!Next \/ UNCHANGED accounts
    BY <1>0, <2>1, CommitCharges
  <2> QED
    BY <1>1, <1>5, <2>1
       DEF SessionNext, LockEmployee, ComputeTotal, ComputeUsed, ComputeReserved, Step,
           RefuseInsufficient, RefuseOutOfRange, Rollback, DeadlockVictim
<1>6. CASE Tick \/ \E e \in Employees, c \in Contracts : ReviseContract(e, c)
  <2>1. UNCHANGED <<leaves, payouts>>
    BY <1>6 DEF Tick, ReviseContract
  <2> QED BY <1>0, <2>1, EntitleCharges DEF LedgerAccounts!Next
<1>7. CASE UNCHANGED vars
  BY <1>1, <1>7 DEF vars
<1> QED BY <1>2, <1>3, <1>4, <1>5, <1>6, <1>7 DEF Next

LEMMA InitCharges == Init => LedgerAccounts!Init
<1> SUFFICES ASSUME Init PROVE LedgerAccounts!Init
  OBVIOUS
<1>1. TypeOK
  BY InitInv DEF IInv
<1>2. \A a \in Accounts : Cap(a[1], a[2]) \in Nat
  BY <1>1, CapType DEF Accounts
<1>3. \A a \in Accounts : Used(a[1], a[2]) = 0
  BY NothingUsed
<1> QED BY <1>2, <1>3 DEF LedgerAccounts!Init, Init

\* The locks, transactions and tables of the ledger implement accounts that are
\* charged at once and within their caps: an approval is one commit that charges
\* the account it checked, and nothing else does but an admin's edit of an
\* approved payout and a grant whose minutes overflow, which waive the account.
THEOREM AccountsImplemented == Spec => ImplementsAccounts
<1>1. IInv /\ IInv' /\ [Next]_vars =>
        [LedgerAccounts!Next]_<<[a \in Accounts |-> Used(a[1], a[2])],
                                [a \in Accounts |-> Cap(a[1], a[2])],
                                waived>>
  BY NextCharges DEF accounts, spent, cap
<1> QED
  BY <1>1, InitCharges, Invariance, PTL DEF Spec, ImplementsAccounts, LedgerAccounts!Spec
=============================================================================
