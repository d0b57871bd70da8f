---------------------------- MODULE PayrollClose ----------------------------
(***************************************************************************)
(* Closing pay periods: pay_periods, their line items, and the rows of     *)
(* schedules, overtime_entries and leave_payout_requests they pay          *)
(* (internal/service/salary_payroll.go), with the handlers that change     *)
(* those rows meanwhile (overtime_service.go, payout_service.go,           *)
(* schedule_service.go).                                                   *)
(*                                                                         *)
(* A close is one transaction per employee, a step per statement; a month  *)
(* or a four-week period is closed for several employees, one transaction  *)
(* after the other.  The database runs READ COMMITTED.  Time is counted in *)
(* days; amounts are left out and an entry's minutes stand for its worth.  *)
(*                                                                         *)
(* A close locks rows one at a time in whatever order the database finds   *)
(* them, and keeps them to its end; so closes may wait in a circle, which  *)
(* the database breaks.                                                    *)
(***************************************************************************)
EXTENDS Integers, FiniteSets

CONSTANTS
  Employees,
  Items,        \* bound: rows of the three tables of payable work
  KindOf,       \* the table a row is of
  Admins,       \* sessions that close pay periods
  PeriodIds,    \* bound: pay periods ever created
  Days,         \* bound: the calendar
  Minutes,      \* bound: what an edit may set an entry's minutes to
  GroupOn,      \* payroll group of the contract an employee has on a day
  Closings,     \* bound: the periods, groups and cutoffs that are asked for
  Requests,     \* bound: the closes that are asked for, and for whom
  Edited,       \* bound: the rows that are edited meanwhile
  Shifts,       \* bound: owner, first and last day a schedule may be given
  Connections,  \* the size of the database connection pool
  InitialTables,
  None          \* no value

Kinds == {"schedule", "overtime", "payout"}
Groups == {"fixed", "on_call"}

StatesOf == [schedule |-> {"live", "deleted"},
             overtime |-> {"unused", "submitted", "approved", "rejected", "deleted"},
             payout |-> {"pending", "approved", "rejected", "paid"}]

States == UNION {StatesOf[k] : k \in Kinds}

Rows == [state : States, employee : Employees, first : Days \cup {None},
         last : Days \cup {None}, minutes : Minutes,
         paidBy : PeriodIds \cup {None}]

\* Work that can be paid, now or once it is approved, has a date.
RowOk(row, kind) ==
  /\ row.state \in StatesOf[kind]
  /\ row.state \in {"live", "submitted", "approved", "paid"} =>
       row.first \in Days /\ row.last \in Days

Lines == [item : Items, minutes : Minutes]

\* locked and seen are history: the overtime the close held locked, and the
\* periods that were there when it read the work.
Periods == [state : {"draft", "paid"}, employee : Employees, closing : Closings,
            base : BOOLEAN, lines : SUBSET Lines, locked : SUBSET Items,
            seen : SUBSET PeriodIds]

ASSUME PayrollAssumption ==
  /\ Days \subseteq Int
  /\ KindOf \in [Items -> Kinds]
  /\ GroupOn \in [Employees -> [Days -> Groups \cup {None}]]
  /\ Closings \subseteq [start : Days, end : Days, cutoff : Days, group : Groups]
  /\ Requests \subseteq [employees : (SUBSET Employees) \ {{}}, closing : Closings,
                         preview : BOOLEAN]
  /\ Edited \subseteq Items
  /\ Shifts \subseteq Employees \X Days \X Days
  /\ \A r \in Requests : r.preview \/ \E e \in Employees : r.employees = {e}
  /\ Connections \in Nat
  /\ InitialTables \subseteq [Items -> Rows]
  /\ \A table \in InitialTables : \A i \in Items :
       table[i].paidBy = None /\ RowOk(table[i], KindOf[i])
  /\ None \notin Employees /\ None \notin Items /\ None \notin Admins
  /\ None \notin PeriodIds /\ None \notin Days /\ None \notin Groups
  /\ None \notin Closings /\ None \notin Periods

VARIABLES
  rows,      \* schedules, overtime_entries and leave_payout_requests
  periods,   \* pay_periods with their line items
  rowLock,   \* the close that holds a row: locked FOR UPDATE or written
  pc,        \* the statement each session runs next
  job        \* what its close has in hand

vars == <<rows, periods, rowLock, pc, job>>

-----------------------------------------------------------------------------
(* Pay periods *)

Closed == {p \in PeriodIds : periods[p] # None}

\* The period's identity: employee, group, start and end.
SamePeriod(c, d) == c.group = d.group /\ c.start = d.start /\ c.end = d.end

AlreadyExists(e, c) ==
  \E p \in Closed : periods[p].employee = e /\ SamePeriod(periods[p].closing, c)

ItemsOf(p) == {l.item : l \in periods[p].lines}

OnSomeLine(i) == \E p \in Closed : i \in ItemsOf(p)

-----------------------------------------------------------------------------
(* Work *)

Approved(r) == r.state = "approved"

\* LockPayrollOvertimeEntries: whatever contract the entry was worked under.
DueOvertime(e, c) ==
  {i \in Items : /\ KindOf[i] = "overtime"
                 /\ rows[i].employee = e
                 /\ Approved(rows[i])
                 /\ rows[i].paidBy = None
                 /\ rows[i].first >= c.start /\ rows[i].first <= c.cutoff}

\* Mutant: a shift that is paid already counts again.
DueSchedulesPaidOrNot(e, c) ==
  {i \in Items : /\ KindOf[i] = "schedule"
                 /\ rows[i].employee = e
                 /\ rows[i].state = "live"
                 /\ rows[i].first >= c.start /\ rows[i].last <= c.cutoff}

\* A shift counts when it begins in the period and has ended by the cutoff.
DueSchedules(e, c) ==
  {i \in Items : /\ KindOf[i] = "schedule"
                 /\ rows[i].employee = e
                 /\ rows[i].state = "live"
                 /\ rows[i].paidBy = None
                 /\ rows[i].first >= c.start /\ rows[i].last <= c.cutoff}

\* A leave payout counts when it was promised for exactly this period's start.
DuePayouts(e, c) ==
  {i \in Items : /\ KindOf[i] = "payout"
                 /\ rows[i].employee = e
                 /\ Approved(rows[i])
                 /\ rows[i].paidBy = None
                 /\ rows[i].first = c.start}

\* LockPayrollPreviewWorkItems, which locks nothing, and the filter by group:
\* work on a day without a contract is in no group.
DueItems(e, c) ==
  {i \in DueOvertime(e, c) \cup DueSchedules(e, c) \cup DuePayouts(e, c) :
     GroupOn[e][rows[i].first] = c.group}

\* Fixed salary: a permanent or temporary contract in the period.
FixedBase(e, c) ==
  /\ c.group = "fixed"
  /\ \E d \in c.start..c.end : GroupOn[e][d] = "fixed"

\* ListPayrollMonthApprovedWorkItems also lists work that is already paid, and
\* shifts that end after the cutoff.
PreviewedItems(e, c) ==
  {i \in Items : /\ rows[i].employee = e
                 /\ \/ KindOf[i] = "schedule" /\ rows[i].state = "live"
                    \/ KindOf[i] = "overtime" /\ Approved(rows[i])
                    \/ KindOf[i] = "payout" /\ Approved(rows[i]) /\ rows[i].paidBy = None
                 /\ rows[i].first >= c.start /\ rows[i].first <= c.cutoff
                 /\ GroupOn[e][rows[i].first] = c.group}

-----------------------------------------------------------------------------
(* Sessions *)

Transactional == {"selecting", "locking", "reading", "creating", "writing"}
PCs == {"idle", "previewing", "closing"} \cup Transactional

\* due: the rows LockPayrollOvertimeEntries has found and not locked yet.
Jobs == [closing : Closings \cup {None}, todo : SUBSET Employees,
         ready : SUBSET Employees, employee : Employees \cup {None},
         due : SUBSET Items, locked : SUBSET Items, lines : SUBSET Lines,
         seen : SUBSET PeriodIds]

NoJob == [closing |-> None, todo |-> {}, ready |-> {}, employee |-> None,
          due |-> {}, locked |-> {}, lines |-> {}, seen |-> {}]

Init ==
  /\ rows \in InitialTables
  /\ periods = [p \in PeriodIds |-> None]
  /\ rowLock = [i \in Items |-> None]
  /\ pc = [a \in Admins |-> "idle"]
  /\ job = [a \in Admins |-> NoJob]

Step(a, from, to) ==
  /\ pc[a] = from
  /\ pc' = [pc EXCEPT ![a] = to]

\* A transaction keeps its connection until it ends.
InTransaction == {a \in Admins : pc[a] \in Transactional}

FreeConnection == Cardinality(InTransaction) < Connections

\* Mutant: the transaction is left open.
EndCloseKeepingLocks(a) ==
  LET left == job[a].ready \ {job[a].employee} IN
  /\ pc' = [pc EXCEPT ![a] = IF left = {} THEN "idle" ELSE "closing"]
  /\ job' = [job EXCEPT ![a] = IF left = {} THEN NoJob
                               ELSE [NoJob EXCEPT !.closing = job[a].closing,
                                                  !.ready = left]]
  /\ UNCHANGED rowLock

\* The transaction of a close ends, either way, and the next employee's begins.
EndClose(a) ==
  LET left == job[a].ready \ {job[a].employee} IN
  /\ rowLock' = [i \in Items |-> IF rowLock[i] = a THEN None ELSE rowLock[i]]
  /\ pc' = [pc EXCEPT ![a] = IF left = {} THEN "idle" ELSE "closing"]
  /\ job' = [job EXCEPT ![a] = IF left = {} THEN NoJob
                               ELSE [NoJob EXCEPT !.closing = job[a].closing,
                                                  !.ready = left]]

-----------------------------------------------------------------------------
(* ClosePayPeriod, and the closing of a month or a four-week period *)

\* One employee, any period.
ClosePayPeriod(a, r) ==
  /\ ~r.preview
  /\ Step(a, "idle", "closing")
  /\ job' = [job EXCEPT ![a] = [NoJob EXCEPT !.closing = r.closing,
                                             !.ready = r.employees]]
  /\ UNCHANGED <<rows, periods, rowLock>>

\* ClosePayrollMonthByAdmin and ClosePayrollPeriodByAdmin preview everybody
\* first ...
ClosePayrollMonthByAdmin(a, r) ==
  /\ r.preview
  /\ Step(a, "idle", "previewing")
  /\ job' = [job EXCEPT ![a] = [NoJob EXCEPT !.closing = r.closing,
                                             !.todo = r.employees]]
  /\ UNCHANGED <<rows, periods, rowLock>>

\* ... and keep those with something to pay.
PreviewEmployee(a, e) ==
  LET c == job[a].closing
      ready == job[a].ready \cup
                 {f \in {e} : PreviewedItems(f, c) # {} \/ FixedBase(f, c)}
      todo == job[a].todo \ {e} IN
  /\ pc[a] = "previewing"
  /\ e \in job[a].todo
  /\ pc' = [pc EXCEPT ![a] = IF todo # {} THEN "previewing"
                             ELSE IF ready = {} THEN "idle" ELSE "closing"]
  /\ job' = [job EXCEPT ![a] = IF todo = {} /\ ready = {} THEN NoJob
                               ELSE [@ EXCEPT !.todo = todo, !.ready = ready]]
  /\ UNCHANGED <<rows, periods, rowLock>>

\* BEGIN, and a look for a period with the same dates.  The order of the
\* employees is that of their names.
BeginClose(a, e) ==
  /\ pc[a] = "closing"
  /\ e \in job[a].ready
  /\ FreeConnection
  /\ IF AlreadyExists(e, job[a].closing)
     THEN LET left == job[a].ready \ {e} IN
          /\ pc' = [pc EXCEPT ![a] = IF left = {} THEN "idle" ELSE "closing"]
          /\ job' = [job EXCEPT ![a] = IF left = {} THEN NoJob
                                       ELSE [@ EXCEPT !.ready = left]]
     ELSE /\ pc' = [pc EXCEPT ![a] = "selecting"]
          /\ job' = [job EXCEPT ![a].employee = e]
  /\ UNCHANGED <<rows, periods, rowLock>>

\* SELECT ... FOR UPDATE without ORDER BY finds the rows ...
LockPayrollOvertimeEntries(a) ==
  LET due == DueOvertime(job[a].employee, job[a].closing) IN
  /\ Step(a, "selecting", IF due = {} THEN "reading" ELSE "locking")
  /\ job' = [job EXCEPT ![a].due = due]
  /\ UNCHANGED <<rows, periods, rowLock>>

\* ... and locks them one after the other, in any order.  It waits for one that
\* another close holds, and leaves one out that is not due any more.
LockOvertimeEntry(a, i) ==
  LET locked == DueOvertime(job[a].employee, job[a].closing) \cap {i} IN
  /\ i \in job[a].due
  /\ rowLock[i] = None
  /\ Step(a, "locking", IF job[a].due = {i} THEN "reading" ELSE "locking")
  /\ rowLock' = [k \in Items |-> IF k \in locked THEN a ELSE rowLock[k]]
  /\ job' = [job EXCEPT ![a].due = @ \ {i}, ![a].locked = @ \cup locked]
  /\ UNCHANGED <<rows, periods>>

\* LockPayrollPreviewWorkItems, and the lines made of what it finds.  The
\* contracts and the holidays are read on a second connection.
ReadWorkItems(a) ==
  LET e == job[a].employee
      c == job[a].closing
      due == DueItems(e, c) IN
  /\ pc[a] = "reading"
  /\ FreeConnection
  /\ IF due = {} /\ ~FixedBase(e, c)
     THEN EndClose(a)
     ELSE /\ pc' = [pc EXCEPT ![a] = "creating"]
          /\ job' = [job EXCEPT ![a].lines = {[item |-> i, minutes |-> rows[i].minutes] : i \in due},
                                ![a].seen = Closed]
          /\ UNCHANGED rowLock
  /\ UNCHANGED <<rows, periods>>

\* Another close has inserted the same period and not ended yet.
SameInserted(a) ==
  {b \in Admins \ {a} : /\ pc[b] = "writing"
                        /\ job[b].employee = job[a].employee
                        /\ SamePeriod(job[b].closing, job[a].closing)}

\* The insert waits for the same period in the unique index, and fails if it is
\* there in the end.
CreatePayPeriod(a) ==
  /\ pc[a] = "creating"
  /\ SameInserted(a) = {}
  /\ IF AlreadyExists(job[a].employee, job[a].closing)
     THEN EndClose(a)
     ELSE pc' = [pc EXCEPT ![a] = "writing"] /\ UNCHANGED <<rowLock, job>>
  /\ UNCHANGED <<rows, periods>>

PaidItems(a) == {l.item : l \in job[a].lines}

\* A line, and the update of the row it pays: both wait for a row that another
\* close holds, which may be overtime approved since LockPayrollOvertimeEntries
\* looked.  The line's foreign key fails when the row is gone.
WriteItem(a, i) ==
  /\ pc[a] = "writing"
  /\ i \in PaidItems(a)
  /\ rowLock[i] = None
  /\ IF rows[i].state = "deleted"
     THEN EndClose(a)
     ELSE rowLock' = [rowLock EXCEPT ![i] = a] /\ UNCHANGED <<pc, job>>
  /\ UNCHANGED <<rows, periods>>

\* The close refuses when it has locked overtime and pays none.
PaysNoOvertime(a) ==
  /\ job[a].locked # {}
  /\ \A l \in job[a].lines : KindOf[l.item] # "overtime"

NewPeriod(a) ==
  [state |-> "draft", employee |-> job[a].employee, closing |-> job[a].closing,
   base |-> FixedBase(job[a].employee, job[a].closing), lines |-> job[a].lines,
   locked |-> job[a].locked, seen |-> job[a].seen]

\* The period, its lines, and paid_period_id of every row on them, whatever it is
\* by now.
CommitClose(a) ==
  /\ pc[a] = "writing"
  /\ \A i \in PaidItems(a) : rowLock[i] = a
  /\ IF PaysNoOvertime(a)
     THEN UNCHANGED <<rows, periods>>
     ELSE LET p == CHOOSE p \in PeriodIds : p \notin Closed IN
          /\ Closed # PeriodIds
          /\ periods' = [periods EXCEPT ![p] = NewPeriod(a)]
          /\ rows' = [i \in Items |-> IF i \in PaidItems(a)
                                      THEN [rows[i] EXCEPT !.paidBy = p]
                                      ELSE rows[i]]
  /\ EndClose(a)

\* The rows a close has yet to lock.
Wanted(a) ==
  CASE pc[a] = "locking" -> job[a].due
    [] pc[a] = "writing" -> {i \in PaidItems(a) : rowLock[i] # a}
    [] OTHER -> {}

WaitsFor(a) ==
  {b \in Admins \ {a} : \E i \in Wanted(a) : rowLock[i] = b}
    \cup (IF pc[a] = "creating" THEN SameInserted(a) ELSE {})

\* In a set in which each waits for a member and is waited for by one, each is in
\* a circle or between two.
InCircle(a) ==
  \E C \in SUBSET Admins :
    /\ a \in C
    /\ \A b \in C : /\ WaitsFor(b) \cap C # {}
                    /\ \E c \in C : b \in WaitsFor(c)

\* PostgreSQL aborts a transaction that waits in a circle.
DeadlockVictim(a) ==
  /\ InCircle(a)
  /\ EndClose(a)
  /\ UNCHANGED <<rows, periods>>

-----------------------------------------------------------------------------
(* MarkPayPeriodPaidByAdmin *)

\* Mutant: the leave payouts of the period are forgotten.
MarkPayPeriodOnly(p) ==
  /\ p \in Closed
  /\ periods[p].state = "draft"
  /\ periods' = [periods EXCEPT ![p].state = "paid"]
  /\ UNCHANGED <<rows, rowLock, pc, job>>

OpenPayouts(p) ==
  {i \in Items : KindOf[i] = "payout" /\ rows[i].paidBy = p /\ Approved(rows[i])}

\* The leave payouts of the period become paid with it, once no close holds them.
MarkPayPeriodPaid(p) ==
  /\ p \in Closed
  /\ periods[p].state = "draft"
  /\ \A i \in OpenPayouts(p) : rowLock[i] = None
  /\ periods' = [periods EXCEPT ![p].state = "paid"]
  /\ rows' = [i \in Items |-> IF i \in OpenPayouts(p) THEN [rows[i] EXCEPT !.state = "paid"]
                                                     ELSE rows[i]]
  /\ UNCHANGED <<rowLock, pc, job>>

-----------------------------------------------------------------------------
(* Meanwhile: each handler reads its row FOR UPDATE, checks and writes *)

Edit(i, row) ==
  /\ i \in Edited
  /\ rowLock[i] = None
  /\ rows' = [rows EXCEPT ![i] = row]
  /\ UNCHANGED <<periods, rowLock, pc, job>>

\* An employee's own entry or an administrator's: submitted either way.
CreateOvertimeEntry(i, d, m) ==
  /\ KindOf[i] = "overtime" /\ rows[i].state = "unused"
  /\ Edit(i, [rows[i] EXCEPT !.state = "submitted", !.first = d, !.last = d,
                             !.minutes = m])

\* Mutant: the decision is stored as it comes.
DecideOvertimeAnyhow(i, decision) ==
  /\ KindOf[i] = "overtime" /\ rows[i].state = "submitted"
  /\ Edit(i, [rows[i] EXCEPT !.state = decision])

DecideOvertimeEntryByAdmin(i, decision) ==
  /\ KindOf[i] = "overtime" /\ rows[i].state = "submitted"
  /\ decision \in {"approved", "rejected"}
  /\ Edit(i, [rows[i] EXCEPT !.state = decision])

\* Mutant: overtime that is paid can still be changed.
UpdateOvertimePaidOrNot(i, d, m) ==
  /\ KindOf[i] = "overtime"
  /\ rows[i].state \in {"submitted", "approved", "rejected"}
  /\ Edit(i, [rows[i] EXCEPT !.first = d, !.last = d, !.minutes = m])

\* An entry on a period is closed to everybody; an administrator may change
\* any other, its approval stands.
UpdateOvertimeEntryByAdmin(i, d, m) ==
  /\ KindOf[i] = "overtime"
  /\ rows[i].state \in {"submitted", "approved", "rejected"}
  /\ rows[i].paidBy = None
  /\ Edit(i, [rows[i] EXCEPT !.first = d, !.last = d, !.minutes = m])

UpdateMyOvertimeEntry(i, d, m) ==
  /\ KindOf[i] = "overtime" /\ rows[i].state = "submitted"
  /\ rows[i].paidBy = None
  /\ Edit(i, [rows[i] EXCEPT !.first = d, !.last = d, !.minutes = m])

DeleteOvertimeEntryByAdmin(i) ==
  /\ KindOf[i] = "overtime"
  /\ rows[i].state \in {"submitted", "approved", "rejected"}
  /\ rows[i].paidBy = None
  /\ Edit(i, [rows[i] EXCEPT !.state = "deleted"])

DeleteMyOvertimeEntry(i) ==
  /\ KindOf[i] = "overtime" /\ rows[i].state = "submitted"
  /\ rows[i].paidBy = None
  /\ Edit(i, [rows[i] EXCEPT !.state = "deleted"])

\* The administrator names the start of the period that is to pay it.
DecidePayoutRequestByAdmin(i, decision, d) ==
  /\ KindOf[i] = "payout" /\ rows[i].state = "pending"
  /\ decision \in {"approved", "rejected"}
  /\ Edit(i, [rows[i] EXCEPT !.state = decision,
                             !.first = IF decision = "approved" THEN d ELSE @,
                             !.last = IF decision = "approved" THEN d ELSE @])

\* By hand, without a look at the period the request may already be on.
MarkPayoutRequestPaid(i) ==
  /\ KindOf[i] = "payout" /\ Approved(rows[i])
  /\ Edit(i, [rows[i] EXCEPT !.state = "paid"])

\* Any schedule may be moved or given to somebody else, paid or not (a change
\* of hours within the same days makes no difference here).
UpdateSchedule(i, e, first, last) ==
  /\ KindOf[i] = "schedule" /\ rows[i].state = "live"
  /\ first <= last
  /\ Edit(i, [rows[i] EXCEPT !.employee = e, !.first = first, !.last = last])

\* Mutant: a schedule goes whether or not it is paid.
DeleteAnySchedule(i) ==
  /\ KindOf[i] = "schedule" /\ rows[i].state = "live"
  /\ Edit(i, [rows[i] EXCEPT !.state = "deleted"])

\* The line items of a schedule must keep their source
\* (pay_period_line_items_one_source): one that is on a line stays.
DeleteSchedule(i) ==
  /\ KindOf[i] = "schedule" /\ rows[i].state = "live"
  /\ ~OnSomeLine(i)
  /\ Edit(i, [rows[i] EXCEPT !.state = "deleted"])

-----------------------------------------------------------------------------

CloseStep(a) ==
  \/ \E e \in Employees : PreviewEmployee(a, e)
  \/ \E e \in Employees : BeginClose(a, e)
  \/ LockPayrollOvertimeEntries(a)
  \/ \E i \in Items : LockOvertimeEntry(a, i) \/ WriteItem(a, i)
  \/ ReadWorkItems(a)
  \/ CreatePayPeriod(a)
  \/ CommitClose(a)

OvertimeHandlers ==
  \E i \in Items :
    \/ \E d \in Days, m \in Minutes : \/ CreateOvertimeEntry(i, d, m)
                                      \/ UpdateOvertimeEntryByAdmin(i, d, m)
                                      \/ UpdateMyOvertimeEntry(i, d, m)
    \/ \E decision \in States : DecideOvertimeEntryByAdmin(i, decision)
    \/ DeleteOvertimeEntryByAdmin(i)
    \/ DeleteMyOvertimeEntry(i)

OtherHandlers ==
  \E i \in Items :
    \/ \E decision \in States, d \in Days : DecidePayoutRequestByAdmin(i, decision, d)
    \/ MarkPayoutRequestPaid(i)
    \/ \E s \in Shifts : UpdateSchedule(i, s[1], s[2], s[3])
    \/ DeleteSchedule(i)

Next ==
  \/ \E a \in Admins, r \in Requests : \/ ClosePayPeriod(a, r)
                                       \/ ClosePayrollMonthByAdmin(a, r)
  \/ \E a \in Admins : CloseStep(a) \/ DeadlockVictim(a)
  \/ \E p \in PeriodIds : MarkPayPeriodPaid(p)
  \/ OvertimeHandlers
  \/ OtherHandlers

\* A close that was begun goes on: its request runs to the end, and the
\* database and the connection pool serve those that wait in their turn.  The
\* deadlock detector runs.
Fairness ==
  /\ \A a \in Admins : SF_vars(CloseStep(a))
  /\ WF_vars(\E a \in Admins : DeadlockVictim(a))

Spec == Init /\ [][Next]_vars /\ Fairness

-----------------------------------------------------------------------------
(* Properties *)

\* Every variable keeps its type.
TypeOK ==
  /\ rows \in [Items -> Rows]
  /\ \A i \in Items : RowOk(rows[i], KindOf[i])
  /\ periods \in [PeriodIds -> Periods \cup {None}]
  /\ rowLock \in [Items -> Admins \cup {None}]
  /\ pc \in [Admins -> PCs]
  /\ job \in [Admins -> Jobs]

\* Work is paid twice only by closes that ran at the same time: when a close
\* could see that a period was there (committed before it read the work), it
\* pays nothing that period pays, whatever has been edited since
\* (LockPayrollPreviewWorkItems asks for paid_period_id IS NULL).
PaidAgainOnlyInARace ==
  \A p, q \in Closed : p \in periods[q].seen => ItemsOf(p) \cap ItemsOf(q) = {}

\* Overtime that a close held locked is on the period with the minutes it has,
\* and stays so: no handler changes or removes it before the close commits or
\* after.  (Overtime approved between the two queries of the close is on the
\* period too, without having been locked.)
LockedOvertimeExact ==
  \A p \in Closed : \A l \in periods[p].lines :
    l.item \in periods[p].locked =>
      /\ Approved(rows[l.item])
      /\ rows[l.item].minutes = l.minutes

\* A line never loses the work it pays, by a deletion before the close or after.
LinesKeepTheirSource ==
  \A p \in Closed : \A i \in ItemsOf(p) : rows[i].state # "deleted"

\* The leave payouts of a paid period are paid, except one that a second,
\* racing close has moved to its own period.
PayoutsSettled ==
  \A p \in Closed : periods[p].state = "paid" =>
    \A i \in ItemsOf(p) : KindOf[i] = "payout" =>
      rows[i].state = "paid" \/ rows[i].paidBy # p

\* Every close comes to an end, although closes wait for each other's rows and
\* periods, in circles too: one that fails, or is the detector's victim, lets go
\* of what it holds, and does not meet the other in a circle for ever.
ClosesEnd == \A a \in Admins : pc[a] # "idle" ~> pc[a] = "idle"
=============================================================================
