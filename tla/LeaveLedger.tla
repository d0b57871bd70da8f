---------------------------- MODULE LeaveLedger ----------------------------
(***************************************************************************)
(* The leave balance of each employee and calendar year, and the two       *)
(* tables that draw on it: leave_requests (internal/service/               *)
(* leave_service.go) and leave_payout_requests (internal/service/          *)
(* payout_service.go).                                                     *)
(*                                                                         *)
(* No balance is stored.  An approval is a PostgreSQL transaction (READ    *)
(* COMMITTED) that locks its request row, locks the employee's row         *)
(* (SELECT ... FOR UPDATE), computes what the contracts entitle the        *)
(* employee to, what approved requests already use, for payouts also what  *)
(* pending payouts reserve, and then writes.  Each of these statements is  *)
(* a step here, and every other request of the API may run between two of  *)
(* them.  Requests that run one short transaction with no balance          *)
(* arithmetic are one step, enabled while no other transaction holds a     *)
(* lock they need.                                                         *)
(***************************************************************************)
EXTENDS LedgerSums

CONSTANTS
  Employees,     \* rows of employee_profile
  Admins,        \* the employees whose role may decide requests
  Years,         \* calendar years
  LeaveIds,      \* ids of leave_requests rows
  PayoutIds,     \* ids of leave_payout_requests rows
  Sessions,      \* database sessions serving balance transactions
  None,          \* SQL NULL
  LastDay,       \* bound: the last day the clock reaches
  YearOf,        \* the year of a day
  YearStart,     \* January 1 of a year
  YearEnd,       \* December 31 of a year
  Contracts,     \* versions of what entitles an employee: contracts, on-call work
  Accrued,       \* minutes a contract version accrues for a year by a day
  LeaveForms,    \* bodies of leave requests
  PayoutForms,   \* bodies of payout requests
  MinutesPerHour, \* 60 in the code
  MaxInt         \* the largest int32 and INT: 2^31 - 1 in the code

Days == 0 .. LastDay

\* No request has an upper bound but that of its integer.
LeaveForm == [deducts : BOOLEAN, start : Days, end : Days, minutes : 1 .. MaxInt]
PayoutForm == [hours : 1 .. MaxInt, year : Years]

\* The rows, sessions and inputs are finite sets with distinct names.
ASSUME PopulationAssumption ==
  /\ Admins \subseteq Employees
  /\ IsFiniteSet(LeaveIds)
  /\ IsFiniteSet(PayoutIds)
  /\ LeaveIds \cap PayoutIds = {}
  /\ None \notin Employees \cup LeaveIds \cup PayoutIds \cup Years
  /\ LeaveForms \subseteq LeaveForm
  /\ PayoutForms \subseteq PayoutForm
  /\ MinutesPerHour \in Nat \ {0}
  /\ MaxInt \in Nat

\* The calendar: every day lies in its year.
ASSUME CalendarAssumption ==
  /\ LastDay \in Nat
  /\ YearOf \in [Days -> Years]
  /\ YearStart \in [Years -> Days]
  /\ YearEnd \in [Years -> Days]
  /\ \A y \in Years : YearStart[y] =< YearEnd[y]

\* An unchanged contract never accrues less as time passes, and what it
\* accrues is an INT (calculate_legal_leave_minutes, migrations/000001_init.up.sql:1348).
ASSUME AccrualAssumption ==
  /\ Accrued \in [Contracts -> [Years -> [Days -> 0 .. MaxInt]]]
  /\ \A c \in Contracts, y \in Years, d, e \in Days :
        d =< e => Accrued[c][y][d] =< Accrued[c][y][e]

VARIABLES
  leaves,    \* leave_requests
  payouts,   \* leave_payout_requests
  contract,  \* the version each employee is at
  clock,     \* today
  tx,        \* the open balance transaction of each session
  waived     \* history: accounts the code changed with no balance check, or
             \* with one whose minutes had overflowed

vars == <<leaves, payouts, contract, clock, tx, waived>>

-----------------------------------------------------------------------------
(* Rows *)

LeaveStatus == {"pending", "approved", "rejected"}
PayoutStatus == {"pending", "approved", "rejected", "paid"}

NoLeave == [status |-> "none", employee |-> None, deducts |-> FALSE,
            start |-> 0, end |-> 0, minutes |-> 0]

LeaveRow(status, e, f) ==
  [status |-> status, employee |-> e, deducts |-> f.deducts,
   start |-> f.start, end |-> f.end, minutes |-> f.minutes]

LeaveRows == [status : LeaveStatus, employee : Employees, deducts : BOOLEAN,
              start : Days, end : Days, minutes : 1 .. MaxInt]

NoPayout == [status |-> "none", employee |-> None, hours |-> 0, year |-> None]

PayoutRow(status, e, f) ==
  [status |-> status, employee |-> e, hours |-> f.hours, year |-> f.year]

PayoutRows == [status : PayoutStatus, employee : Employees,
               hours : 1 .. MaxInt, year : Years]

IdleTx == [pc |-> "idle", op |-> "none", row |-> None, employee |-> None,
           year |-> None, minutes |-> 0, admin |-> None,
           total |-> 0, used |-> 0, reserved |-> 0]

LockSteps == {"total", "used", "reserved", "write"}
PayoutOps == {"createPayout", "grantPayout", "approvePayout"}

OpenTx == [pc : {"lock"} \cup LockSteps, op : PayoutOps \cup {"approveLeave"},
           row : LeaveIds \cup PayoutIds, employee : Employees, year : Years,
           minutes : Nat, admin : Employees,
           total : 0 .. MaxInt, used : 0 .. MaxInt, reserved : 0 .. MaxInt]

Init ==
  /\ leaves = [l \in LeaveIds |-> NoLeave]
  /\ payouts = [p \in PayoutIds |-> NoPayout]
  /\ contract \in [Employees -> Contracts]
  /\ clock = 0
  /\ tx = [s \in Sessions |-> IdleTx]
  /\ waived = {}

-----------------------------------------------------------------------------
(* Balance arithmetic *)

\* What a payout costs.  SQL computes this product or fails.
Minutes(hours) == hours * MinutesPerHour

Width == 2 * (MaxInt + 1)

\* What Go's int32 makes of a result: two's complement.
Wrap(n) == ((n + MaxInt + 1) % Width) - (MaxInt + 1)

LeaveMinutes == [l \in LeaveIds |-> leaves[l].minutes]
PayoutMinutes == [p \in PayoutIds |-> Minutes(payouts[p].hours)]

\* Mutant: the sum forgets the year.
ChargedLeavesAnyYear(e, y) ==
  {l \in LeaveIds : /\ leaves[l].status = "approved"
                    /\ leaves[l].deducts
                    /\ leaves[l].employee = e}

\* Approved leave that deducts is charged to the year it starts in.
ChargedLeaves(e, y) ==
  {l \in LeaveIds : /\ leaves[l].status = "approved"
                    /\ leaves[l].deducts
                    /\ leaves[l].employee = e
                    /\ YearOf[leaves[l].start] = y}

PayoutsOf(e, y, statuses) ==
  {p \in PayoutIds : /\ payouts[p].status \in statuses
                     /\ payouts[p].employee = e
                     /\ payouts[p].year = y}

ChargedPayouts(e, y) == PayoutsOf(e, y, {"approved", "paid"})

Used(e, y) ==
  Total(ChargedLeaves(e, y), LeaveMinutes)
    + Total(ChargedPayouts(e, y), PayoutMinutes)

Reserved(e, y) == Total(PayoutsOf(e, y, {"pending"}), PayoutMinutes)

\* Nothing before January 1 and nothing more after December 31.
LegalTotal(e, y, asOf) ==
  IF asOf < YearStart[y] THEN 0
  ELSE Accrued[contract[e]][y][IF asOf > YearEnd[y] THEN YearEnd[y] ELSE asOf]

BalanceAsOf(y) ==
  IF clock > YearEnd[y] THEN YearEnd[y]
  ELSE IF clock < YearStart[y] THEN YearStart[y] ELSE clock

Cap(e, y) == LegalTotal(e, y, BalanceAsOf(y))

-----------------------------------------------------------------------------
(* Locks *)

\* Mutant: the employee is read without FOR UPDATE.
HoldsNothing(s) == FALSE

\* FOR UPDATE on the employee's row is held from the lock to the commit.
Holds(s) == tx[s].pc \in LockSteps

RowFree(r) == \A s \in Sessions : tx[s].row # r

\* A write that sets a foreign key to e needs FOR KEY SHARE on e's row, which
\* conflicts with another transaction's FOR UPDATE.
KeyShare(e, self) ==
  \A t \in Sessions \ self : Holds(t) => tx[t].employee # e

WaitsFor(s, t) ==
  /\ s # t
  /\ tx[s].pc = "write"
  /\ Holds(t)
  /\ tx[t].employee = tx[s].admin

\* A session waits for at most one other, so a set in which each waits for a
\* member and is waited for by one is made of cycles.
Deadlocked(s) ==
  \E C \in SUBSET Sessions :
    /\ s \in C
    /\ \A t \in C : (\E u \in C : WaitsFor(t, u)) /\ (\E u \in C : WaitsFor(u, t))

End(s) == tx' = [tx EXCEPT ![s] = IdleTx]

-----------------------------------------------------------------------------
(* Leave requests without balance arithmetic *)

ValidLeave(f) ==
  /\ f.end >= f.start
  /\ f.deducts => YearOf[f.start] = YearOf[f.end]

CreateLeaveRequest(l, e, by, f) ==
  /\ leaves[l] = NoLeave
  /\ by = e \/ by \in Admins
  /\ ValidLeave(f)
  /\ KeyShare(e, {}) /\ KeyShare(by, {})
  /\ leaves' = [leaves EXCEPT ![l] = LeaveRow("pending", e, f)]
  /\ UNCHANGED <<payouts, contract, clock, tx, waived>>

EditLeave(l, f) ==
  /\ RowFree(l)
  /\ ValidLeave(f)
  /\ leaves' = [leaves EXCEPT
                  ![l] = LeaveRow(leaves[l].status, leaves[l].employee, f)]
  /\ UNCHANGED <<payouts, contract, clock, tx, waived>>

\* The owner edits a pending request that starts, before and after, in the
\* future.
UpdateLeaveRequest(l, f) ==
  /\ leaves[l].status = "pending"
  /\ leaves[l].start > clock
  /\ f.start > clock
  /\ EditLeave(l, f)

\* Mutant: no status guard.
UpdateAnyLeaveByAdmin(l, f) == leaves[l] # NoLeave /\ EditLeave(l, f)

UpdateLeaveRequestByAdmin(l, f) ==
  /\ leaves[l].status \in {"pending", "rejected"}
  /\ EditLeave(l, f)

DecideLeave(l, a, status) ==
  /\ leaves[l].status = "pending"
  /\ RowFree(l)
  /\ KeyShare(a, {})
  /\ leaves' = [leaves EXCEPT ![l].status = status]
  /\ UNCHANGED <<payouts, contract, clock, tx, waived>>

RejectLeave(l, a) == DecideLeave(l, a, "rejected")

ApproveFreeLeave(l, a) ==
  /\ ~leaves[l].deducts
  /\ DecideLeave(l, a, "approved")

-----------------------------------------------------------------------------
(* Payout requests without balance arithmetic *)

\* Mutant: the row is read without FOR UPDATE.
EditPayoutUnlocked(p, f) ==
  /\ payouts' = [payouts EXCEPT
                   ![p] = PayoutRow(payouts[p].status, payouts[p].employee, f)]
  /\ UNCHANGED <<leaves, contract, clock, tx>>

EditPayout(p, f) ==
  /\ RowFree(p)
  /\ payouts' = [payouts EXCEPT
                   ![p] = PayoutRow(payouts[p].status, payouts[p].employee, f)]
  /\ UNCHANGED <<leaves, contract, clock, tx>>

\* The owner may change hours and year of a pending or rejected request.
UpdatePayoutRequest(p, f) ==
  /\ payouts[p].status \in {"pending", "rejected"}
  /\ EditPayout(p, f)
  /\ UNCHANGED waived

\* Mutant: no not-found check.
UpdateMissingPayoutByAdmin(p, f) == EditPayout(p, f) /\ UNCHANGED waived

\* The admin may do so in any status; on an approved or paid request this
\* charges the account with no balance check.
UpdatePayoutRequestByAdmin(p, f) ==
  /\ payouts[p] # NoPayout
  /\ EditPayout(p, f)
  /\ waived' =
       IF /\ payouts[p].status \in {"approved", "paid"}
          /\ f.year # payouts[p].year \/ f.hours > payouts[p].hours
       THEN waived \cup {<<payouts[p].employee, f.year>>}
       ELSE waived

SettlePayout(p, a, from, to) ==
  /\ payouts[p].status = from
  /\ RowFree(p)
  /\ KeyShare(a, {})
  /\ payouts' = [payouts EXCEPT ![p].status = to]
  /\ UNCHANGED <<leaves, contract, clock, tx, waived>>

RejectPayout(p, a) == SettlePayout(p, a, "pending", "rejected")

MarkPayoutRequestPaid(p, a) == SettlePayout(p, a, "approved", "paid")

-----------------------------------------------------------------------------
(* Balance transactions *)

\* Mutant: the row is read without FOR UPDATE.
BeginUnlocked(s, op, row, e, y, minutes, a) ==
  /\ tx[s] = IdleTx
  /\ tx' = [tx EXCEPT ![s] =
              [IdleTx EXCEPT !.pc = "lock", !.op = op, !.row = row,
                 !.employee = e, !.year = y, !.minutes = minutes, !.admin = a]]
  /\ UNCHANGED <<leaves, payouts, contract, clock, waived>>

Begin(s, op, row, e, y, minutes, a) ==
  /\ tx[s] = IdleTx
  /\ RowFree(row)
  /\ tx' = [tx EXCEPT ![s] =
              [IdleTx EXCEPT !.pc = "lock", !.op = op, !.row = row,
                 !.employee = e, !.year = y, !.minutes = minutes, !.admin = a]]
  /\ UNCHANGED <<leaves, payouts, contract, clock, waived>>

BeginApproveLeave(s, l, a) ==
  /\ leaves[l].status = "pending"
  /\ leaves[l].deducts
  /\ YearOf[leaves[l].start] = YearOf[leaves[l].end]
  /\ Begin(s, "approveLeave", l, leaves[l].employee, YearOf[leaves[l].start],
           leaves[l].minutes, a)

\* An insert picks an id nobody else sees before the commit.
BeginCreatePayout(s, p, e, f) ==
  /\ payouts[p] = NoPayout
  /\ Begin(s, "createPayout", p, e, f.year, Minutes(f.hours), e)

BeginGrantPayout(s, p, e, f, a) ==
  /\ payouts[p] = NoPayout
  /\ Begin(s, "grantPayout", p, e, f.year, Minutes(f.hours), a)

BeginApprovePayout(s, p, a) ==
  /\ payouts[p].status = "pending"
  /\ Begin(s, "approvePayout", p, payouts[p].employee, payouts[p].year,
           Minutes(payouts[p].hours), a)

Step(s, pc, next) ==
  /\ tx[s].pc = pc
  /\ tx' = [tx EXCEPT ![s] = next]
  /\ UNCHANGED <<leaves, payouts, contract, clock, waived>>

LockEmployee(s) ==
  /\ KeyShare(tx[s].employee, {s})
  /\ Step(s, "lock", [tx[s] EXCEPT !.pc = "total"])

\* A leave is measured against the entitlement as of now, a payout against
\* the entitlement as of now or the nearest day of its year.
ComputeTotal(s) ==
  LET e == tx[s].employee
      y == tx[s].year
      asOf == IF tx[s].op = "approveLeave" THEN clock ELSE BalanceAsOf(y)
  IN Step(s, "total", [tx[s] EXCEPT !.pc = "used", !.total = LegalTotal(e, y, asOf)])

ComputeUsed(s) ==
  /\ Used(tx[s].employee, tx[s].year) =< MaxInt
  /\ Step(s, "used",
          [tx[s] EXCEPT !.pc = IF tx[s].op = "approveLeave" THEN "write" ELSE "reserved",
                        !.used = Used(tx[s].employee, tx[s].year)])

ComputeReserved(s) ==
  /\ Reserved(tx[s].employee, tx[s].year) =< MaxInt
  /\ Step(s, "reserved",
          [tx[s] EXCEPT !.pc = "write",
                        !.reserved = Reserved(tx[s].employee, tx[s].year)])

\* The decision on a pending payout finds its own minutes among the reserved.
\* Both sides of the comparison are computed in int32.
Available(s) == Wrap(tx[s].total - tx[s].used - tx[s].reserved)

Asked(s) == IF tx[s].op = "approvePayout" THEN 0 ELSE Wrap(tx[s].minutes)

Sufficient(s) == Available(s) >= Asked(s)

Write(s, ops) ==
  /\ tx[s].pc = "write"
  /\ tx[s].op \in ops
  /\ Sufficient(s)
  /\ KeyShare(tx[s].admin, {s})
  /\ End(s)
  /\ UNCHANGED <<contract, clock>>

CommitApproveLeave(s) ==
  /\ Write(s, {"approveLeave"})
  /\ leaves' = [leaves EXCEPT ![tx[s].row].status = "approved"]
  /\ UNCHANGED <<payouts, waived>>

\* A grant that costs more than an int32 holds is checked as what is left of it.
NoteOverflow(s) ==
  waived' = IF tx[s].op = "grantPayout" /\ tx[s].minutes > MaxInt
            THEN waived \cup {<<tx[s].employee, tx[s].year>>}
            ELSE waived

CommitInsertPayout(s) ==
  /\ Write(s, {"createPayout", "grantPayout"})
  /\ \E f \in PayoutForms :
       /\ f.year = tx[s].year
       /\ Minutes(f.hours) = tx[s].minutes
       /\ payouts' = [payouts EXCEPT ![tx[s].row] =
            PayoutRow(IF tx[s].op = "grantPayout" THEN "approved" ELSE "pending",
                      tx[s].employee, f)]
  /\ NoteOverflow(s)
  /\ UNCHANGED leaves

CommitApprovePayout(s) ==
  /\ Write(s, {"approvePayout"})
  /\ payouts' = [payouts EXCEPT ![tx[s].row].status = "approved"]
  /\ UNCHANGED <<leaves, waived>>

Commit(s) ==
  CommitApproveLeave(s) \/ CommitInsertPayout(s) \/ CommitApprovePayout(s)

\* Mutant: the error returns without a rollback.
RefuseAndLeak(s) ==
  /\ tx[s].pc = "write"
  /\ ~Sufficient(s)
  /\ UNCHANGED vars

RefuseInsufficient(s) ==
  /\ tx[s].pc = "write"
  /\ ~Sufficient(s)
  /\ End(s)
  /\ UNCHANGED <<leaves, payouts, contract, clock, waived>>

\* The sum of an account, or one product in it, is out of an INT's range: its
\* SELECT is an error.
RefuseOutOfRange(s) ==
  /\ \/ tx[s].pc = "used" /\ Used(tx[s].employee, tx[s].year) > MaxInt
     \/ tx[s].pc = "reserved" /\ Reserved(tx[s].employee, tx[s].year) > MaxInt
  /\ End(s)
  /\ UNCHANGED <<leaves, payouts, contract, clock, waived>>

\* Any error of a statement, a missing contract rate, a client that hangs up.
Rollback(s) ==
  /\ tx[s] # IdleTx
  /\ End(s)
  /\ UNCHANGED <<leaves, payouts, contract, clock, waived>>

\* PostgreSQL aborts a transaction that waits in a cycle.
DeadlockVictim(s) ==
  /\ Deadlocked(s)
  /\ End(s)
  /\ UNCHANGED <<leaves, payouts, contract, clock, waived>>

-----------------------------------------------------------------------------
(* The world around the ledger *)

Tick ==
  /\ clock < LastDay
  /\ clock' = clock + 1
  /\ UNCHANGED <<leaves, payouts, contract, tx, waived>>

\* A contract edit, or for on-call contracts an edit of shifts worked, takes
\* no balance lock and looks at no request.
ReviseContract(e, c) ==
  /\ contract' = [contract EXCEPT ![e] = c]
  /\ waived' = waived \cup
       {e} \X {y \in Years : \E d \in Days :
                 Accrued[c][y][d] < Accrued[contract[e]][y][d]}
  /\ UNCHANGED <<leaves, payouts, clock, tx>>

LeaveNext ==
  \E l \in LeaveIds :
    \/ \E e, by \in Employees, f \in LeaveForms : CreateLeaveRequest(l, e, by, f)
    \/ \E f \in LeaveForms : UpdateLeaveRequest(l, f)
    \/ \E f \in LeaveForms : UpdateLeaveRequestByAdmin(l, f)
    \/ \E a \in Admins : RejectLeave(l, a)
    \/ \E a \in Admins : ApproveFreeLeave(l, a)
    \/ \E s \in Sessions, a \in Admins : BeginApproveLeave(s, l, a)

PayoutNext ==
  \E p \in PayoutIds :
    \/ \E f \in PayoutForms : UpdatePayoutRequest(p, f)
    \/ \E f \in PayoutForms : UpdatePayoutRequestByAdmin(p, f)
    \/ \E a \in Admins : RejectPayout(p, a)
    \/ \E a \in Admins : MarkPayoutRequestPaid(p, a)
    \/ \E s \in Sessions, e \in Employees, f \in PayoutForms :
         BeginCreatePayout(s, p, e, f)
    \/ \E s \in Sessions, e \in Employees, f \in PayoutForms, a \in Admins :
         BeginGrantPayout(s, p, e, f, a)
    \/ \E s \in Sessions, a \in Admins : BeginApprovePayout(s, p, a)

SessionNext ==
  \E s \in Sessions :
    \/ LockEmployee(s)
    \/ ComputeTotal(s)
    \/ ComputeUsed(s)
    \/ ComputeReserved(s)
    \/ Commit(s)
    \/ RefuseInsufficient(s)
    \/ RefuseOutOfRange(s)
    \/ Rollback(s)
    \/ DeadlockVictim(s)

Next ==
  \/ LeaveNext
  \/ PayoutNext
  \/ SessionNext
  \/ Tick
  \/ \E e \in Employees, c \in Contracts : ReviseContract(e, c)

Spec == Init /\ [][Next]_vars

\* Statements of an open transaction run; a lock that is granted again and
\* again is granted to every waiter (PostgreSQL queues them); the deadlock
\* detector runs.  Nothing forces a client to send a request.
Fairness ==
  \A s \in Sessions :
    /\ SF_vars(LockEmployee(s))
    /\ WF_vars(ComputeTotal(s))
    /\ WF_vars(ComputeUsed(s))
    /\ WF_vars(ComputeReserved(s))
    /\ SF_vars(Commit(s))
    /\ WF_vars(RefuseInsufficient(s))
    /\ WF_vars(RefuseOutOfRange(s))
    /\ WF_vars(DeadlockVictim(s))

FairSpec == Spec /\ Fairness

-----------------------------------------------------------------------------
(* Properties *)

Accounts == Employees \X Years

\* Type invariant: every row and every open transaction is well formed.
TypeOK ==
  /\ leaves \in [LeaveIds -> LeaveRows \cup {NoLeave}]
  /\ payouts \in [PayoutIds -> PayoutRows \cup {NoPayout}]
  /\ contract \in [Employees -> Contracts]
  /\ clock \in Days
  /\ tx \in [Sessions -> OpenTx \cup {IdleTx}]
  /\ waived \subseteq Accounts

\* What approved leave and approved or paid payouts of a year use never exceeds
\* what the contracts entitle the employee to, whatever requests interleave,
\* except on accounts that an admin's edit of an approved payout or a contract
\* revision changed behind the balance check, or that a grant charged with more
\* minutes than an int32 holds (DecideLeaveRequestByAdmin,
\* CreateApprovedPayoutRequestByAdmin, DecidePayoutRequestByAdmin).  In
\* particular a payout whose minutes overflow and that is asked for and then
\* decided never gets through, and no balance itself wraps around.
NoOverdraft ==
  \A e \in Employees, y \in Years :
    <<e, y>> \notin waived => Used(e, y) =< Cap(e, y)

\* At most one transaction holds an employee's balance and at most one a
\* request (LockEmployeeProfileForLeaveBalance, LockLeaveRequestByID,
\* LockPayoutRequestByID).
LocksExclusive ==
  \A s, t \in Sessions :
    s # t => /\ tx[s] # IdleTx => tx[s].row # tx[t].row
             /\ Holds(s) /\ Holds(t) => tx[s].employee # tx[t].employee

\* The request a transaction read under its row lock is still what it read, so
\* the minutes it checks are the minutes it will charge.
RequestFresh(s) ==
  LET x == tx[s]
  IN /\ x.op = "approveLeave" =>
          /\ x.row \in LeaveIds
          /\ leaves[x.row].status = "pending"
          /\ leaves[x.row].employee = x.employee
          /\ YearOf[leaves[x.row].start] = x.year
          /\ leaves[x.row].minutes = x.minutes
     /\ x.op = "approvePayout" =>
          /\ x.row \in PayoutIds
          /\ payouts[x.row].status = "pending"
          /\ payouts[x.row].employee = x.employee
          /\ payouts[x.row].year = x.year
          /\ Minutes(payouts[x.row].hours) = x.minutes
     /\ x.op \in {"createPayout", "grantPayout"} =>
          /\ x.row \in PayoutIds
          /\ payouts[x.row] = NoPayout

\* What a transaction has computed under the employee's lock is on the safe
\* side of the truth until it ends: the cap is no lower, the use no higher,
\* and the reserved minutes cover the payout that is being approved.
BalanceFresh(s) ==
  LET x == tx[s]
      a == <<x.employee, x.year>>
  IN /\ x.pc \in {"used", "reserved", "write"} /\ a \notin waived =>
          x.total =< Cap(x.employee, x.year)
     /\ x.pc \in {"reserved", "write"} /\ a \notin waived =>
          Used(x.employee, x.year) =< x.used
     /\ x.pc = "write" /\ x.op = "approvePayout" => x.minutes =< x.reserved

\* Every open transaction works on fresh data (the reads between the row lock
\* and the commit in the three balance-checking handlers).
ReadsFresh == \A s \in Sessions : RequestFresh(s) /\ BalanceFresh(s)

\* A decision is final: approved leave never changes, rejected requests stay
\* rejected, an approved payout can only become paid, a paid one stays paid
\* (the status guards of every update and decision handler).
DecisionsFinal ==
  [][/\ \A l \in LeaveIds :
          /\ leaves[l].status = "approved" => leaves'[l] = leaves[l]
          /\ leaves[l].status = "rejected" => leaves'[l].status = "rejected"
     /\ \A p \in PayoutIds :
          /\ payouts[p].status \in {"rejected", "paid"} =>
                payouts'[p].status = payouts[p].status
          /\ payouts[p].status = "approved" =>
                payouts'[p].status \in {"approved", "paid"}]_vars

\* An approval that commits leaves its account within the entitlement: it is
\* refused when the live balance is insufficient
\* (TestDecideLeaveRequestRejectsInsufficientLiveBalance,
\* internal/service/leave_service_test.go:539).
ApprovalWithinBalance ==
  [][\A s \in Sessions, e \in Employees, y \in Years :
       /\ tx[s].pc = "write" /\ tx[s].employee = e /\ tx[s].year = y
       /\ tx[s].op \in {"approveLeave", "approvePayout", "grantPayout"}
       /\ leaves' # leaves \/ payouts' # payouts
       /\ tx'[s] = IdleTx
       => Used(e, y)' =< Cap(e, y)']_vars

\* Every balance transaction ends: it commits, is refused, or is rolled back,
\* even when two admins approve each other's requests at the same time.
TransactionsEnd == \A s \in Sessions : tx[s] # IdleTx ~> tx[s] = IdleTx

\* The transactions, locks and tables implement accounts that are charged
\* atomically and within their caps.
LedgerAccounts == INSTANCE LeaveAccounts WITH
  spent <- [a \in Accounts |-> Used(a[1], a[2])],
  cap <- [a \in Accounts |-> Cap(a[1], a[2])]

ImplementsAccounts == LedgerAccounts!Spec
=============================================================================
