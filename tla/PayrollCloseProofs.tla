------------------------- MODULE PayrollCloseProofs -------------------------
(***************************************************************************)
(* What holds of every closing of pay periods, for any employees, work,    *)
(* contracts and closes.                                                   *)
(***************************************************************************)
EXTENDS PayrollClose, TLAPS

\* A session that closes knows what it closes, and for whom.
JobOK(j, at) ==
  /\ at # "idle" => j.closing \in Closings
  /\ at \in Transactional => j.employee \in Employees

SessionsOK == \A a \in Admins : JobOK(job[a], pc[a])

TypeInv == TypeOK /\ SessionsOK

LEMMA KindsOfWork == \A i \in Items : KindOf[i] \in Kinds
BY PayrollAssumption

LEMMA JobTypes ==
  ASSUME NEW j \in Jobs
  PROVE  /\ j.closing \in Closings \cup {None} /\ j.todo \subseteq Employees
         /\ j.ready \subseteq Employees /\ j.employee \in Employees \cup {None}
         /\ j.due \subseteq Items /\ j.locked \subseteq Items /\ j.lines \subseteq Lines
         /\ j.seen \subseteq PeriodIds
BY DEF Jobs

LEMMA NoJobTyped == NoJob \in Jobs
BY DEF Jobs, NoJob

\* What a session does to its own program counter and job alone.
LEMMA JobStep ==
  ASSUME TypeInv, NEW a \in Admins, NEW to \in PCs, NEW j \in Jobs, JobOK(j, to),
         pc' = [pc EXCEPT ![a] = to], job' = [job EXCEPT ![a] = j]
  PROVE  /\ pc' \in [Admins -> PCs]
         /\ job' \in [Admins -> Jobs]
         /\ SessionsOK'
<1> USE DEF TypeInv, TypeOK
<1>1. pc' \in [Admins -> PCs] /\ job' \in [Admins -> Jobs]
  OBVIOUS
<1>2. \A b \in Admins : JobOK(job'[b], pc'[b])
  <2> TAKE b \in Admins
  <2>1. CASE b = a
    BY <2>1
  <2>2. CASE b # a
    BY <2>2 DEF SessionsOK
  <2> QED BY <2>1, <2>2
<1> QED BY <1>1, <1>2 DEF SessionsOK, JobOK

\* A handler writes one row.
LEMMA EditTyped ==
  ASSUME TypeInv, NEW i \in Items, NEW row \in Rows, RowOk(row, KindOf[i]), Edit(i, row)
  PROVE  TypeInv'
<1> USE DEF TypeInv, TypeOK, Edit
<1>1. rows' \in [Items -> Rows] /\ \A k \in Items : RowOk(rows'[k], KindOf[k])
  OBVIOUS
<1>2. SessionsOK'
  BY DEF SessionsOK, JobOK
<1> QED BY <1>1, <1>2 DEF RowOk

LEMMA EndCloseTyped ==
  ASSUME TypeInv, NEW a \in Admins, pc[a] # "idle", EndClose(a)
  PROVE  /\ rowLock' \in [Items -> Admins \cup {None}]
         /\ pc' \in [Admins -> PCs]
         /\ job' \in [Admins -> Jobs]
         /\ SessionsOK'
<1> DEFINE left == job[a].ready \ {job[a].employee}
<1> DEFINE to == IF left = {} THEN "idle" ELSE "closing"
<1> DEFINE j == IF left = {} THEN NoJob
                ELSE [NoJob EXCEPT !.closing = job[a].closing, !.ready = left]
<1>1. rowLock' \in [Items -> Admins \cup {None}]
  BY DEF EndClose, TypeInv, TypeOK
<1>2. job[a] \in Jobs /\ job[a].closing \in Closings
  BY DEF TypeInv, TypeOK, SessionsOK, JobOK
<1>3. j \in Jobs /\ JobOK(j, to) /\ to \in PCs
  BY <1>2 DEF Jobs, NoJob, JobOK, PCs, Transactional
<1>4. pc' = [pc EXCEPT ![a] = to] /\ job' = [job EXCEPT ![a] = j]
  BY DEF EndClose
<1> HIDE DEF j, to
<1> QED BY <1>1, <1>3, <1>4, JobStep

LEMMA BeginTyped ==
  ASSUME TypeInv, NEW a \in Admins, NEW r \in Requests,
         ClosePayPeriod(a, r) \/ ClosePayrollMonthByAdmin(a, r)
  PROVE  TypeInv'
<1> DEFINE j == [NoJob EXCEPT !.closing = r.closing, !.ready = r.employees]
<1> DEFINE m == [NoJob EXCEPT !.closing = r.closing, !.todo = r.employees]
<1>1. r.closing \in Closings /\ r.employees \subseteq Employees
  BY PayrollAssumption
<1>2. j \in Jobs /\ JobOK(j, "closing")
  BY <1>1 DEF Jobs, NoJob, JobOK, Transactional
<1>3. m \in Jobs /\ JobOK(m, "previewing")
  BY <1>1 DEF Jobs, NoJob, JobOK, Transactional
<1>4. UNCHANGED <<rows, periods, rowLock>>
  BY DEF ClosePayPeriod, ClosePayrollMonthByAdmin
<1>5. \/ pc' = [pc EXCEPT ![a] = "closing"] /\ job' = [job EXCEPT ![a] = j]
      \/ pc' = [pc EXCEPT ![a] = "previewing"] /\ job' = [job EXCEPT ![a] = m]
  BY DEF ClosePayPeriod, ClosePayrollMonthByAdmin, Step
<1> HIDE DEF j, m
<1>6. pc' \in [Admins -> PCs] /\ job' \in [Admins -> Jobs] /\ SessionsOK'
  BY <1>2, <1>3, <1>5, JobStep DEF PCs
<1> QED BY <1>4, <1>6 DEF TypeInv, TypeOK, RowOk

LEMMA PreviewTyped ==
  ASSUME TypeInv, NEW a \in Admins, NEW e \in Employees, PreviewEmployee(a, e)
  PROVE  TypeInv'
<1> DEFINE c == job[a].closing
<1> DEFINE ready == job[a].ready \cup
                      {f \in {e} : PreviewedItems(f, c) # {} \/ FixedBase(f, c)}
<1> DEFINE todo == job[a].todo \ {e}
<1> DEFINE to == IF todo # {} THEN "previewing" ELSE IF ready = {} THEN "idle" ELSE "closing"
<1> DEFINE j == IF todo = {} /\ ready = {} THEN NoJob
                ELSE [job[a] EXCEPT !.todo = todo, !.ready = ready]
<1>1. job[a] \in Jobs /\ job[a].closing \in Closings
  BY DEF PreviewEmployee, TypeInv, TypeOK, SessionsOK, JobOK
<1>2. ready \subseteq Employees /\ todo \subseteq Employees
  BY <1>1, JobTypes
<1>3. pc' = [pc EXCEPT ![a] = to] /\ job' = [job EXCEPT ![a] = j]
  BY DEF PreviewEmployee, TypeInv, TypeOK
<1>4. j \in Jobs /\ to \in PCs /\ JobOK(j, to)
  <2> HIDE DEF ready, todo
  <2> QED BY <1>1, <1>2, NoJobTyped DEF Jobs, JobOK, PCs, Transactional
<1>5. pc' \in [Admins -> PCs] /\ job' \in [Admins -> Jobs] /\ SessionsOK'
  <2> HIDE DEF j, to
  <2> QED BY <1>3, <1>4, JobStep
<1> QED BY <1>5 DEF TypeInv, TypeOK, PreviewEmployee, RowOk

LEMMA BeginCloseTyped ==
  ASSUME TypeInv, NEW a \in Admins, NEW e \in Employees, BeginClose(a, e)
  PROVE  TypeInv'
<1> DEFINE left == job[a].ready \ {e}
<1> DEFINE exists == AlreadyExists(e, job[a].closing)
<1> DEFINE to == IF ~exists THEN "selecting" ELSE IF left = {} THEN "idle" ELSE "closing"
<1> DEFINE j == IF ~exists THEN [job[a] EXCEPT !.employee = e]
                ELSE IF left = {} THEN NoJob ELSE [job[a] EXCEPT !.ready = left]
<1>1. job[a] \in Jobs /\ job[a].closing \in Closings
  BY DEF BeginClose, TypeInv, TypeOK, SessionsOK, JobOK
<1>2. pc' = [pc EXCEPT ![a] = to] /\ job' = [job EXCEPT ![a] = j]
  BY DEF BeginClose, TypeInv, TypeOK
<1>3. j \in Jobs /\ to \in PCs /\ JobOK(j, to)
  <2> HIDE DEF exists
  <2> QED BY <1>1, NoJobTyped DEF Jobs, JobOK, PCs, Transactional
<1>4. pc' \in [Admins -> PCs] /\ job' \in [Admins -> Jobs] /\ SessionsOK'
  <2> HIDE DEF j, to
  <2> QED BY <1>2, <1>3, JobStep
<1> QED BY <1>4 DEF TypeInv, TypeOK, BeginClose, RowOk

LEMMA SelectTyped ==
  ASSUME TypeInv, NEW a \in Admins, LockPayrollOvertimeEntries(a)
  PROVE  TypeInv'
<1> DEFINE due == DueOvertime(job[a].employee, job[a].closing)
<1> DEFINE j == [job[a] EXCEPT !.due = due]
<1> DEFINE to == IF due = {} THEN "reading" ELSE "locking"
<1>1. due \subseteq Items
  BY DEF DueOvertime
<1>2. job[a] \in Jobs /\ job[a].closing \in Closings /\ job[a].employee \in Employees
  BY DEF LockPayrollOvertimeEntries, Step, TypeInv, TypeOK, SessionsOK, JobOK, Transactional
<1>3. pc' = [pc EXCEPT ![a] = to] /\ job' = [job EXCEPT ![a] = j]
  BY DEF LockPayrollOvertimeEntries, Step, TypeInv, TypeOK
<1> HIDE DEF due
<1>4. j \in Jobs /\ JobOK(j, to) /\ to \in PCs
  BY <1>1, <1>2 DEF Jobs, JobOK, PCs, Transactional
<1>5. pc' \in [Admins -> PCs] /\ job' \in [Admins -> Jobs] /\ SessionsOK'
  <2> HIDE DEF j, to
  <2> QED BY <1>3, <1>4, JobStep
<1> QED BY <1>5 DEF TypeInv, TypeOK, LockPayrollOvertimeEntries, RowOk

LEMMA LockTyped ==
  ASSUME TypeInv, NEW a \in Admins, NEW i \in Items, LockOvertimeEntry(a, i)
  PROVE  TypeInv'
<1> DEFINE locked == DueOvertime(job[a].employee, job[a].closing) \cap {i}
<1> DEFINE j == [job[a] EXCEPT !.due = job[a].due \ {i}, !.locked = job[a].locked \cup locked]
<1> DEFINE to == IF job[a].due = {i} THEN "reading" ELSE "locking"
<1>1. locked \subseteq Items
  OBVIOUS
<1>2. job[a] \in Jobs /\ job[a].closing \in Closings /\ job[a].employee \in Employees
  BY DEF LockOvertimeEntry, Step, TypeInv, TypeOK, SessionsOK, JobOK, Transactional
<1>3. pc' = [pc EXCEPT ![a] = to] /\ job' = [job EXCEPT ![a] = j]
  BY DEF LockOvertimeEntry, Step, TypeInv, TypeOK, Jobs
<1>4. rowLock' \in [Items -> Admins \cup {None}]
  BY DEF LockOvertimeEntry, TypeInv, TypeOK
<1> HIDE DEF locked
<1>5. j \in Jobs /\ JobOK(j, to) /\ to \in PCs
  BY <1>1, <1>2 DEF Jobs, JobOK, PCs, Transactional
<1>6. pc' \in [Admins -> PCs] /\ job' \in [Admins -> Jobs] /\ SessionsOK'
  <2> HIDE DEF j, to
  <2> QED BY <1>3, <1>5, JobStep
<1> QED BY <1>4, <1>6 DEF TypeInv, TypeOK, LockOvertimeEntry, RowOk

LEMMA ReadTyped ==
  ASSUME TypeInv, NEW a \in Admins, ReadWorkItems(a)
  PROVE  TypeInv'
<1> DEFINE due == DueItems(job[a].employee, job[a].closing)
<1> DEFINE lines == {[item |-> i, minutes |-> rows[i].minutes] : i \in due}
<1> DEFINE j == [job[a] EXCEPT !.lines = lines, !.seen = Closed]
<1>1. due \subseteq Items
  BY DEF DueItems, DueOvertime, DueSchedules, DuePayouts
<1>2. lines \subseteq Lines
  BY <1>1 DEF TypeInv, TypeOK, Rows, Lines
<1>3. job[a] \in Jobs /\ job[a].closing \in Closings /\ job[a].employee \in Employees
  BY DEF ReadWorkItems, TypeInv, TypeOK, SessionsOK, JobOK, Transactional
<1>4. /\ rowLock' \in [Items -> Admins \cup {None}]
      /\ pc' \in [Admins -> PCs] /\ job' \in [Admins -> Jobs] /\ SessionsOK'
  <2>1. CASE EndClose(a)
    BY <2>1, EndCloseTyped DEF ReadWorkItems
  <2>2. CASE ~EndClose(a)
    <3>1. pc' = [pc EXCEPT ![a] = "creating"] /\ job' = [job EXCEPT ![a] = j]
      BY <2>2 DEF ReadWorkItems, TypeInv, TypeOK
    <3>2. rowLock' = rowLock
      BY <2>2 DEF ReadWorkItems
    <3>3. j \in Jobs /\ JobOK(j, "creating")
      <4> HIDE DEF lines
      <4> QED BY <1>2, <1>3 DEF Jobs, JobOK, Closed
    <3>4. pc' \in [Admins -> PCs] /\ job' \in [Admins -> Jobs] /\ SessionsOK'
      <4> HIDE DEF j
      <4> QED BY <3>1, <3>3, JobStep DEF PCs, Transactional
    <3> QED BY <3>2, <3>4 DEF TypeInv, TypeOK
  <2> QED BY <2>1, <2>2
<1> QED BY <1>4 DEF TypeInv, TypeOK, ReadWorkItems, RowOk

\* A step that inserts, writes one row, or ends the transaction without a period.
LEMMA CreateTyped ==
  ASSUME TypeInv, NEW a \in Admins,
         \/ CreatePayPeriod(a)
         \/ \E i \in Items : WriteItem(a, i)
         \/ DeadlockVictim(a)
  PROVE  TypeInv'
<1>1. /\ rowLock' \in [Items -> Admins \cup {None}]
      /\ pc' \in [Admins -> PCs] /\ job' \in [Admins -> Jobs] /\ SessionsOK'
  <2>1. CASE EndClose(a)
    <3>1. pc[a] # "idle"
      BY DEF CreatePayPeriod, WriteItem, DeadlockVictim, InCircle, WaitsFor, Wanted
    <3> QED BY <2>1, <3>1, EndCloseTyped
  <2>2. CASE ~EndClose(a)
    <3>1. CASE CreatePayPeriod(a)
      <4>1. /\ pc[a] = "creating" /\ pc' = [pc EXCEPT ![a] = "writing"]
            /\ UNCHANGED <<rowLock, job>>
        BY <2>2, <3>1 DEF CreatePayPeriod
      <4>2. job[a] \in Jobs /\ JobOK(job[a], "writing") /\ job' = [job EXCEPT ![a] = job[a]]
        BY <4>1 DEF TypeInv, TypeOK, SessionsOK, JobOK, Transactional
      <4> QED BY <4>1, <4>2, JobStep DEF TypeInv, TypeOK, PCs, Transactional
    <3>2. CASE \E i \in Items : WriteItem(a, i)
      BY <2>2, <3>2 DEF WriteItem, TypeInv, TypeOK, SessionsOK, JobOK
    <3> QED BY <2>2, <3>1, <3>2 DEF DeadlockVictim
  <2> QED BY <2>1, <2>2
<1>2. UNCHANGED <<rows, periods>>
  BY DEF CreatePayPeriod, WriteItem, DeadlockVictim
<1> QED BY <1>1, <1>2 DEF TypeInv, TypeOK, RowOk

LEMMA NewPeriodTyped ==
  ASSUME TypeInv, NEW a \in Admins, pc[a] = "writing"
  PROVE  NewPeriod(a) \in Periods
<1>1. job[a] \in Jobs /\ job[a].closing \in Closings /\ job[a].employee \in Employees
  BY DEF TypeInv, TypeOK, SessionsOK, JobOK, Transactional
<1>2. FixedBase(job[a].employee, job[a].closing) \in BOOLEAN
  BY DEF FixedBase
<1> QED BY <1>1, <1>2, JobTypes DEF NewPeriod, Periods

LEMMA FreePeriod ==
  ASSUME Closed # PeriodIds
  PROVE  (CHOOSE p \in PeriodIds : p \notin Closed) \in PeriodIds \ Closed
BY DEF Closed

LEMMA CommitTyped ==
  ASSUME TypeInv, NEW a \in Admins, CommitClose(a)
  PROVE  TypeInv'
<1>1. /\ rowLock' \in [Items -> Admins \cup {None}]
      /\ pc' \in [Admins -> PCs] /\ job' \in [Admins -> Jobs] /\ SessionsOK'
  BY EndCloseTyped DEF CommitClose
<1>2. /\ rows' \in [Items -> Rows] /\ \A i \in Items : RowOk(rows'[i], KindOf[i])
      /\ periods' \in [PeriodIds -> Periods \cup {None}]
  <2>1. CASE PaysNoOvertime(a)
    BY <2>1 DEF CommitClose, TypeInv, TypeOK
  <2>2. CASE ~PaysNoOvertime(a)
    <3> DEFINE q == CHOOSE p \in PeriodIds : p \notin Closed
    <3> DEFINE paid == PaidItems(a)
    <3>1. /\ Closed # PeriodIds
          /\ periods' = [periods EXCEPT ![q] = NewPeriod(a)]
          /\ rows' = [i \in Items |-> IF i \in paid THEN [rows[i] EXCEPT !.paidBy = q]
                                       ELSE rows[i]]
      BY <2>2 DEF CommitClose
    <3>2. q \in PeriodIds
      BY <3>1, FreePeriod
    <3>3. periods' \in [PeriodIds -> Periods \cup {None}]
      <4> HIDE DEF q
      <4> QED BY <3>1, <3>2, NewPeriodTyped DEF CommitClose, TypeInv, TypeOK
    <3>4. \A i \in Items : rows'[i] \in Rows /\ RowOk(rows'[i], KindOf[i])
      <4> HIDE DEF q, paid
      <4> QED BY <3>1, <3>2 DEF TypeInv, TypeOK, Rows, RowOk
    <3> QED BY <3>1, <3>3, <3>4
  <2> QED BY <2>1, <2>2
<1> QED BY <1>1, <1>2 DEF TypeInv, TypeOK, RowOk

LEMMA MarkPaidTyped ==
  ASSUME TypeInv, NEW p \in PeriodIds, MarkPayPeriodPaid(p)
  PROVE  TypeInv'
<1>1. \A i \in Items : rows'[i] \in Rows /\ RowOk(rows'[i], KindOf[i])
  <2> TAKE i \in Items
  <2>1. rows[i] \in Rows /\ RowOk(rows[i], KindOf[i])
    BY DEF TypeInv, TypeOK
  <2>2. rows'[i] = rows[i] \/ (KindOf[i] = "payout" /\ Approved(rows[i])
                               /\ rows'[i] = [rows[i] EXCEPT !.state = "paid"])
    BY DEF MarkPayPeriodPaid, OpenPayouts
  <2> QED BY <2>1, <2>2 DEF Rows, RowOk, Approved, States, StatesOf, Kinds
<1>2. periods' \in [PeriodIds -> Periods \cup {None}]
  <2>1. [periods[p] EXCEPT !.state = "paid"] \in Periods
    BY DEF MarkPayPeriodPaid, Closed, TypeInv, TypeOK, Periods
  <2> QED BY <2>1 DEF MarkPayPeriodPaid, TypeInv, TypeOK
<1>3. rows' \in [Items -> Rows]
  BY <1>1 DEF MarkPayPeriodPaid
<1>4. SessionsOK'
  BY DEF MarkPayPeriodPaid, TypeInv, SessionsOK, JobOK
<1> QED BY <1>1, <1>2, <1>3, <1>4 DEF TypeInv, TypeOK, MarkPayPeriodPaid, RowOk

\* What a handler may do to a row.
LEMMA HandlerEdits ==
  ASSUME TypeInv, OvertimeHandlers \/ OtherHandlers
  PROVE  \E i \in Items, row \in Rows :
           /\ RowOk(row, KindOf[i])
           /\ Edit(i, row)
           /\ row.paidBy = rows[i].paidBy
           /\ row.state = "deleted" => rows[i].paidBy = None \/ ~OnSomeLine(i)
           /\ KindOf[i] = "overtime" => rows[i].paidBy = None \/ ~Approved(rows[i])
           /\ KindOf[i] = "payout" /\ rows[i].state \in {"approved", "paid"} =>
                row.state = "paid"
<1> DEFINE
      Allowed(i, row) ==
        /\ row \in Rows
        /\ RowOk(row, KindOf[i])
        /\ Edit(i, row)
        /\ row.paidBy = rows[i].paidBy
        /\ row.state = "deleted" => rows[i].paidBy = None \/ ~OnSomeLine(i)
        /\ KindOf[i] = "overtime" => rows[i].paidBy = None \/ ~Approved(rows[i])
        /\ KindOf[i] = "payout" /\ rows[i].state \in {"approved", "paid"} => row.state = "paid"
<1> SUFFICES \E i \in Items, row \in Rows : Allowed(i, row)
  OBVIOUS
<1>1. \A i \in Items : rows[i] \in Rows /\ RowOk(rows[i], KindOf[i])
  BY DEF TypeInv, TypeOK
<1>2. {"live", "deleted", "submitted", "approved", "rejected", "paid"} \subseteq States
  BY DEF States, StatesOf, Kinds
<1>3. ASSUME NEW i \in Items, NEW d \in Days, NEW m \in Minutes,
             CreateOvertimeEntry(i, d, m)
      PROVE  \E row : Allowed(i, row)
  <2> DEFINE row == [rows[i] EXCEPT !.state = "submitted", !.first = d, !.last = d,
                                  !.minutes = m]
  <2>1. Edit(i, row)
    BY <1>3 DEF CreateOvertimeEntry
  <2>2. rows[i] \in Rows /\ RowOk(rows[i], KindOf[i])
    BY <1>1
  <2>3. row \in Rows /\ row.state = "submitted" /\ row.paidBy = rows[i].paidBy
    BY <1>2, <2>2, <1>3 DEF Rows
  <2>4. RowOk(row, KindOf[i])
    BY <2>2, <1>3 DEF CreateOvertimeEntry, RowOk, StatesOf, Rows
  <2>5. KindOf[i] = "overtime" /\ ~Approved(rows[i])
    BY <1>3 DEF CreateOvertimeEntry, Approved
  <2> HIDE DEF row
  <2>6. Allowed(i, row)
    BY <2>1, <2>3, <2>4, <2>5
  <2> HIDE DEF row, Allowed
  <2> QED BY <2>6
<1>4. ASSUME NEW i \in Items, NEW d \in Days, NEW m \in Minutes,
             UpdateOvertimeEntryByAdmin(i, d, m) \/ UpdateMyOvertimeEntry(i, d, m)
      PROVE  \E row : Allowed(i, row)
  <2> DEFINE row == [rows[i] EXCEPT !.first = d, !.last = d, !.minutes = m]
  <2>1. Edit(i, row)
    BY <1>4 DEF UpdateOvertimeEntryByAdmin, UpdateMyOvertimeEntry
  <2>2. rows[i] \in Rows /\ RowOk(rows[i], KindOf[i])
    BY <1>1
  <2>3. Allowed(i, row)
    BY <1>2, <2>1, <2>2, <1>4 DEF UpdateOvertimeEntryByAdmin, UpdateMyOvertimeEntry, Rows, RowOk, StatesOf, Approved
  <2> HIDE DEF row, Allowed
  <2> QED BY <2>3
<1>5. ASSUME NEW i \in Items, NEW decision \in States, DecideOvertimeEntryByAdmin(i, decision)
      PROVE  \E row : Allowed(i, row)
  <2> DEFINE row == [rows[i] EXCEPT !.state = decision]
  <2>1. Edit(i, row)
    BY <1>5 DEF DecideOvertimeEntryByAdmin
  <2>2. rows[i] \in Rows /\ RowOk(rows[i], KindOf[i])
    BY <1>1
  <2>3. Allowed(i, row)
    BY <1>2, <2>1, <2>2, <1>5 DEF DecideOvertimeEntryByAdmin, Rows, RowOk, StatesOf, Approved
  <2> HIDE DEF row, Allowed
  <2> QED BY <2>3
<1>6. ASSUME NEW i \in Items,
             \/ DeleteOvertimeEntryByAdmin(i) \/ DeleteMyOvertimeEntry(i)
             \/ DeleteSchedule(i)
      PROVE  \E row : Allowed(i, row)
  <2> DEFINE row == [rows[i] EXCEPT !.state = "deleted"]
  <2>1. Edit(i, row)
    BY <1>6 DEF DeleteOvertimeEntryByAdmin, DeleteMyOvertimeEntry, DeleteSchedule
  <2>2. rows[i] \in Rows /\ RowOk(rows[i], KindOf[i])
    BY <1>1
  <2>3. Allowed(i, row)
    BY <1>2, <2>1, <2>2, <1>6 DEF DeleteOvertimeEntryByAdmin, DeleteMyOvertimeEntry, DeleteSchedule, Rows, RowOk, StatesOf, Approved
  <2> HIDE DEF row, Allowed
  <2> QED BY <2>3
<1>7. ASSUME NEW i \in Items, NEW decision \in States, NEW d \in Days,
             DecidePayoutRequestByAdmin(i, decision, d)
      PROVE  \E row : Allowed(i, row)
  <2> DEFINE row == [rows[i] EXCEPT !.state = decision,
                                  !.first = IF decision = "approved" THEN d ELSE @,
                                  !.last = IF decision = "approved" THEN d ELSE @]
  <2>1. Edit(i, row)
    BY <1>7 DEF DecidePayoutRequestByAdmin
  <2>2. rows[i] \in Rows /\ RowOk(rows[i], KindOf[i])
    BY <1>1
  <2>3. /\ KindOf[i] = "payout" /\ rows[i].state = "pending"
        /\ decision \in {"approved", "rejected"}
    BY <1>7 DEF DecidePayoutRequestByAdmin
  <2>4. CASE decision = "approved"
    <3>1. row = [rows[i] EXCEPT !.state = "approved", !.first = d, !.last = d]
      BY <2>4
    <3> HIDE DEF row
    <3>2. /\ row \in Rows /\ row.state = "approved" /\ row.paidBy = rows[i].paidBy
          /\ row.first \in Days /\ row.last \in Days
      BY <1>2, <2>2, <3>1 DEF Rows
    <3>3. RowOk(row, KindOf[i])
      BY <2>3, <3>2 DEF RowOk, StatesOf
    <3> QED BY <2>1, <2>3, <3>2, <3>3
  <2>5. CASE decision = "rejected"
    <3>1. row = [rows[i] EXCEPT !.state = "rejected"]
      BY <2>2, <2>5 DEF Rows
    <3> HIDE DEF row
    <3>2. row \in Rows /\ row.state = "rejected" /\ row.paidBy = rows[i].paidBy
      BY <1>2, <2>2, <3>1 DEF Rows
    <3>3. RowOk(row, KindOf[i])
      BY <2>3, <3>2 DEF RowOk, StatesOf
    <3> QED BY <2>1, <2>3, <3>2, <3>3
  <2> QED BY <2>3, <2>4, <2>5
<1>8. ASSUME NEW i \in Items, MarkPayoutRequestPaid(i)
      PROVE  \E row : Allowed(i, row)
  <2> DEFINE row == [rows[i] EXCEPT !.state = "paid"]
  <2>1. Edit(i, row)
    BY <1>8 DEF MarkPayoutRequestPaid
  <2>2. rows[i] \in Rows /\ RowOk(rows[i], KindOf[i])
    BY <1>1
  <2>3. Allowed(i, row)
    BY <1>2, <2>1, <2>2, <1>8 DEF MarkPayoutRequestPaid, Rows, RowOk, StatesOf, Approved
  <2> HIDE DEF row, Allowed
  <2> QED BY <2>3
<1>9. ASSUME NEW i \in Items, NEW e \in Employees, NEW first \in Days, NEW last \in Days,
             UpdateSchedule(i, e, first, last)
      PROVE  \E row : Allowed(i, row)
  <2> DEFINE row == [rows[i] EXCEPT !.employee = e, !.first = first, !.last = last]
  <2>1. Edit(i, row)
    BY <1>9 DEF UpdateSchedule
  <2>2. rows[i] \in Rows /\ RowOk(rows[i], KindOf[i])
    BY <1>1
  <2>3. Allowed(i, row)
    BY <1>2, <2>1, <2>2, <1>9 DEF UpdateSchedule, Rows, RowOk, StatesOf, Approved
  <2> HIDE DEF row, Allowed
  <2> QED BY <2>3
<1>10. \E i \in Items : \E row : Allowed(i, row)
  <2> HIDE DEF Allowed
  <2>1. CASE OvertimeHandlers
    BY <2>1, <1>3, <1>4, <1>5, <1>6 DEF OvertimeHandlers
  <2>2. CASE OtherHandlers
    BY <2>2, <1>6, <1>7, <1>8, <1>9, PayrollAssumption DEF OtherHandlers
  <2> QED BY <2>1, <2>2
<1> QED BY <1>10

LEMMA NextTyped == TypeInv /\ [Next]_vars => TypeInv'
<1> SUFFICES ASSUME TypeInv, [Next]_vars PROVE TypeInv'
  OBVIOUS
<1>1. CASE \E a \in Admins, r \in Requests :
             ClosePayPeriod(a, r) \/ ClosePayrollMonthByAdmin(a, r)
  BY <1>1, BeginTyped
<1>2. CASE \E a \in Admins : CloseStep(a) \/ DeadlockVictim(a)
  BY <1>2, PreviewTyped, BeginCloseTyped, SelectTyped, LockTyped, ReadTyped,
     CreateTyped, CommitTyped DEF CloseStep
<1>3. CASE \E p \in PeriodIds : MarkPayPeriodPaid(p)
  BY <1>3, MarkPaidTyped
<1>4. CASE OvertimeHandlers \/ OtherHandlers
  BY <1>4, HandlerEdits, EditTyped
<1>5. CASE UNCHANGED vars
  BY <1>5 DEF vars, TypeInv, TypeOK, SessionsOK, JobOK, RowOk
<1> QED BY <1>1, <1>2, <1>3, <1>4, <1>5 DEF Next

LEMMA InitTyped == Init => TypeInv
<1> SUFFICES ASSUME Init PROVE TypeInv
  OBVIOUS
<1>1. rows \in [Items -> Rows] /\ \A i \in Items : RowOk(rows[i], KindOf[i])
  BY PayrollAssumption DEF Init
<1>2. /\ periods \in [PeriodIds -> Periods \cup {None}]
      /\ rowLock \in [Items -> Admins \cup {None}]
      /\ pc \in [Admins -> PCs]
      /\ job \in [Admins -> Jobs]
  BY NoJobTyped DEF Init, PCs
<1>3. SessionsOK
  BY DEF Init, SessionsOK, JobOK, Transactional
<1> QED BY <1>1, <1>2, <1>3 DEF TypeInv, TypeOK

\* Every variable keeps its type, whoever closes and edits what
\* (ClosePayPeriod and the handlers beside it).
THEOREM TypeCorrect == Spec => []TypeOK
<1>1. TypeInv => TypeOK
  BY DEF TypeInv
<1> QED BY InitTyped, NextTyped, <1>1, PTL DEF Spec

-----------------------------------------------------------------------------
(* What is paid *)

\* A close keeps the overtime it has locked.
LockedOK(a) ==
  \A i \in job[a].locked :
    rowLock[i] = a /\ KindOf[i] = "overtime" /\ Approved(rows[i]) /\ rows[i].paidBy = None

\* The lines a close has in hand are on no period it has seen, and those it
\* can rely on are still true.
HandOK(a) ==
  /\ pc[a] \notin {"creating", "writing"} => job[a].lines = {}
  /\ job[a].seen \subseteq Closed
  /\ \A l \in job[a].lines :
       /\ l.item \in job[a].locked => rows[l.item].minutes = l.minutes
       /\ KindOf[l.item] = "payout" => rows[l.item].state \in {"approved", "paid"}
       /\ rowLock[l.item] = a => rows[l.item].state # "deleted"
       /\ \A p \in job[a].seen : l.item \notin ItemsOf(p)

\* What is on a period is marked as paid, and stays what it was.
PeriodOK(p) ==
  /\ periods[p].seen \subseteq Closed
  /\ \A l \in periods[p].lines :
       /\ rows[l.item].paidBy # None
       /\ rows[l.item].state # "deleted"
       /\ KindOf[l.item] = "payout" => rows[l.item].state \in {"approved", "paid"}
       /\ periods[p].state = "paid" /\ KindOf[l.item] = "payout" =>
            rows[l.item].state = "paid" \/ rows[l.item].paidBy # p
       /\ l.item \in periods[p].locked =>
            /\ KindOf[l.item] = "overtime"
            /\ Approved(rows[l.item])
            /\ rows[l.item].minutes = l.minutes
       /\ \A o \in periods[p].seen : l.item \notin ItemsOf(o)

Sound ==
  /\ \A a \in Admins : LockedOK(a) /\ HandOK(a)
  /\ \A p \in Closed : PeriodOK(p)

IInv == TypeInv /\ Sound

LEMMA PeriodTypes ==
  ASSUME TypeInv, NEW p \in Closed
  PROVE  /\ p \in PeriodIds
         /\ periods[p] \in Periods
         /\ periods[p].lines \subseteq Lines
         /\ \A l \in periods[p].lines : l.item \in Items
BY DEF TypeInv, TypeOK, Closed, Periods, Lines

LEMMA HandTypes ==
  ASSUME TypeInv, NEW a \in Admins
  PROVE  /\ job[a].locked \subseteq Items
         /\ job[a].seen \subseteq PeriodIds
         /\ \A l \in job[a].lines : l.item \in Items
BY JobTypes DEF TypeInv, TypeOK, Lines

\* A step of one close that leaves the work and the periods as they are.
LEMMA OwnStep ==
  ASSUME IInv, NEW a \in Admins,
         UNCHANGED <<rows, periods>>,
         \A b \in Admins \ {a} : /\ job'[b] = job[b] /\ pc'[b] = pc[b]
                                 /\ \A i \in Items : rowLock'[i] = b <=> rowLock[i] = b,
         LockedOK(a)', HandOK(a)'
  PROVE  Sound'
<1>1. Closed' = Closed /\ \A p \in Closed : ItemsOf(p)' = ItemsOf(p)
  BY DEF Closed, ItemsOf
<1>2. \A p \in Closed' : PeriodOK(p)'
  BY <1>1 DEF IInv, Sound, PeriodOK, ItemsOf, Closed, Approved
<1>3. ASSUME NEW b \in Admins \ {a} PROVE LockedOK(b)' /\ HandOK(b)'
  <2>1. /\ job[b].locked \subseteq Items /\ LockedOK(b) /\ HandOK(b)
        /\ \A l \in job[b].lines : l.item \in Items
    BY HandTypes DEF IInv, Sound
  <2>2. LockedOK(b)'
    BY <2>1 DEF LockedOK, Approved
  <2>3. \A p \in job[b].seen : ItemsOf(p)' = ItemsOf(p)
    BY <1>1, <2>1 DEF HandOK
  <2>4. HandOK(b)'
    BY <1>1, <2>1, <2>3 DEF HandOK
  <2> QED BY <2>2, <2>4
<1> QED BY <1>2, <1>3 DEF Sound

\* A step of a close that has no lines in hand.
LEMMA HandKept ==
  ASSUME IInv, NEW a \in Admins, NEW j, NEW to,
         UNCHANGED <<rows, periods>>,
         pc' = [pc EXCEPT ![a] = to],
         job' = [job EXCEPT ![a] = j],
         j.lines = {},
         \/ rowLock' = rowLock
         \/ /\ j.locked = {}
            /\ rowLock' = [i \in Items |-> IF rowLock[i] = a THEN None ELSE rowLock[i]],
         \/ j.locked = job[a].locked /\ j.seen = job[a].seen
         \/ j.locked = {} /\ j.seen = {}
  PROVE  Sound'
<1>1. LockedOK(a) /\ HandOK(a) /\ job[a].locked \subseteq Items
  BY HandTypes DEF IInv, Sound
<1>2. job'[a] = j /\ pc'[a] = to
  BY DEF IInv, TypeInv, TypeOK
<1>3. LockedOK(a)'
  BY <1>1, <1>2 DEF LockedOK, Approved
<1>4. HandOK(a)'
  BY <1>1, <1>2 DEF HandOK, Closed
<1>5. \A b \in Admins \ {a} : /\ job'[b] = job[b] /\ pc'[b] = pc[b]
                              /\ \A i \in Items : rowLock'[i] = b <=> rowLock[i] = b
  BY PayrollAssumption DEF IInv, TypeInv, TypeOK
<1> QED BY <1>3, <1>4, <1>5, OwnStep

LEMMA BeginSound ==
  ASSUME IInv, NEW a \in Admins,
         \/ \E r \in Requests : ClosePayPeriod(a, r) \/ ClosePayrollMonthByAdmin(a, r)
         \/ \E e \in Employees : PreviewEmployee(a, e) \/ BeginClose(a, e)
  PROVE  Sound'
<1>1. UNCHANGED <<rows, periods, rowLock>>
  BY DEF ClosePayPeriod, ClosePayrollMonthByAdmin, PreviewEmployee, BeginClose
<1>2. job[a].lines = {}
  BY DEF IInv, Sound, HandOK, ClosePayPeriod, ClosePayrollMonthByAdmin, Step,
         PreviewEmployee, BeginClose
<1>3. PICK to : pc' = [pc EXCEPT ![a] = to]
  BY DEF ClosePayPeriod, ClosePayrollMonthByAdmin, Step, PreviewEmployee, BeginClose
<1>4. PICK j : /\ job' = [job EXCEPT ![a] = j]
               /\ j.lines = {}
               /\ \/ j.locked = job[a].locked /\ j.seen = job[a].seen
                  \/ j.locked = {} /\ j.seen = {}
  <2>1. job[a] \in Jobs /\ job \in [Admins -> Jobs]
    BY DEF IInv, TypeInv, TypeOK
  <2>2. ASSUME NEW r \in Requests, ClosePayPeriod(a, r)
        PROVE  /\ job' = [job EXCEPT ![a] = job'[a]]
               /\ job'[a].locked = {} /\ job'[a].lines = {} /\ job'[a].seen = {}
    BY <2>1, <2>2, NoJobTyped DEF ClosePayPeriod, NoJob
  <2>3. ASSUME NEW r \in Requests, ClosePayrollMonthByAdmin(a, r)
        PROVE  /\ job' = [job EXCEPT ![a] = job'[a]]
               /\ job'[a].locked = {} /\ job'[a].lines = {} /\ job'[a].seen = {}
    BY <2>1, <2>3, NoJobTyped DEF ClosePayrollMonthByAdmin, NoJob
  <2>4. ASSUME NEW e \in Employees, PreviewEmployee(a, e) \/ BeginClose(a, e)
        PROVE  /\ job' = [job EXCEPT ![a] = job'[a]]
               /\ \/ /\ job'[a].locked = job[a].locked
                     /\ job'[a].lines = job[a].lines
                     /\ job'[a].seen = job[a].seen
                  \/ job'[a].locked = {} /\ job'[a].lines = {} /\ job'[a].seen = {}
    <3>1. CASE PreviewEmployee(a, e)
      BY <2>1, <3>1 DEF PreviewEmployee, NoJob, Jobs
    <3>2. CASE BeginClose(a, e)
      BY <2>1, <3>2 DEF BeginClose, NoJob, Jobs
    <3> QED BY <2>4, <3>1, <3>2
  <2> QED BY <1>2, <2>2, <2>3, <2>4
<1> QED BY <1>1, <1>3, <1>4, HandKept

LEMMA EndCloseSound ==
  ASSUME IInv, NEW a \in Admins, UNCHANGED <<rows, periods>>, EndClose(a)
  PROVE  Sound'
<1>1. PICK j : /\ job' = [job EXCEPT ![a] = j]
               /\ j.locked = {} /\ j.lines = {} /\ j.seen = {}
  <2> DEFINE left == job[a].ready \ {job[a].employee}
  <2> DEFINE k == [NoJob EXCEPT !.closing = job[a].closing, !.ready = left]
  <2>1. /\ k.locked = {} /\ k.lines = {} /\ k.seen = {}
        /\ NoJob.locked = {} /\ NoJob.lines = {} /\ NoJob.seen = {}
    BY DEF NoJob
  <2>2. job' = [job EXCEPT ![a] = NoJob] \/ job' = [job EXCEPT ![a] = k]
    BY DEF EndClose
  <2> HIDE DEF k
  <2> QED BY <2>1, <2>2
<1>2. rowLock' = [i \in Items |-> IF rowLock[i] = a THEN None ELSE rowLock[i]]
  BY DEF EndClose
<1>3. PICK to : pc' = [pc EXCEPT ![a] = to]
  BY DEF EndClose
<1> QED BY <1>1, <1>2, <1>3, HandKept

LEMMA SelectSound ==
  ASSUME IInv, NEW a \in Admins, LockPayrollOvertimeEntries(a)
  PROVE  Sound'
<1> DEFINE due == DueOvertime(job[a].employee, job[a].closing)
<1> DEFINE j == [job[a] EXCEPT !.due = due]
<1> DEFINE to == IF due = {} THEN "reading" ELSE "locking"
<1>1. /\ UNCHANGED <<rows, periods, rowLock>>
      /\ pc' = [pc EXCEPT ![a] = to] /\ job' = [job EXCEPT ![a] = j]
  BY DEF LockPayrollOvertimeEntries, Step, IInv, TypeInv, TypeOK
<1>2. job[a].lines = {} /\ job[a] \in Jobs
  BY DEF LockPayrollOvertimeEntries, Step, IInv, Sound, HandOK, TypeInv, TypeOK
<1>3. j.lines = {} /\ j.locked = job[a].locked /\ j.seen = job[a].seen
  BY <1>2 DEF Jobs
<1> HIDE DEF due, j, to
<1> QED BY <1>1, <1>3, HandKept

LEMMA LockSound ==
  ASSUME IInv, NEW a \in Admins, NEW i \in Items, LockOvertimeEntry(a, i)
  PROVE  Sound'
<1> DEFINE locked == DueOvertime(job[a].employee, job[a].closing) \cap {i}
<1>1. /\ UNCHANGED <<rows, periods>>
      /\ rowLock[i] = None
      /\ rowLock' = [k \in Items |-> IF k \in locked THEN a ELSE rowLock[k]]
      /\ job' = [job EXCEPT ![a].due = @ \ {i}, ![a].locked = @ \cup locked]
      /\ pc[a] = "locking"
      /\ pc' = [pc EXCEPT ![a] = IF job[a].due = {i} THEN "reading" ELSE "locking"]
  BY DEF LockOvertimeEntry, Step
<1>2. /\ locked \subseteq {i}
      /\ \A k \in locked : KindOf[k] = "overtime" /\ Approved(rows[k]) /\ rows[k].paidBy = None
  BY DEF DueOvertime
<1> HIDE DEF locked
<1>3. /\ LockedOK(a) /\ HandOK(a) /\ job[a].locked \subseteq Items /\ job[a].lines = {}
  BY <1>1, HandTypes DEF IInv, Sound, HandOK
<1>4. /\ job'[a].locked = job[a].locked \cup locked
      /\ job'[a].lines = {} /\ job'[a].seen = job[a].seen
  BY <1>1, <1>3 DEF IInv, TypeInv, TypeOK, Jobs
<1>5. LockedOK(a)'
  BY <1>1, <1>2, <1>3, <1>4 DEF LockedOK, Approved
<1>6. HandOK(a)'
  BY <1>1, <1>3, <1>4 DEF HandOK, Closed
<1>7. \A b \in Admins \ {a} : /\ job'[b] = job[b] /\ pc'[b] = pc[b]
                              /\ \A k \in Items : rowLock'[k] = b <=> rowLock[k] = b
  BY <1>1, <1>2, PayrollAssumption DEF IInv, TypeInv, TypeOK
<1> QED BY <1>1, <1>5, <1>6, <1>7, OwnStep

LEMMA ReadSound ==
  ASSUME IInv, NEW a \in Admins, ReadWorkItems(a)
  PROVE  Sound'
<1> DEFINE due == DueItems(job[a].employee, job[a].closing)
<1> DEFINE lines == {[item |-> i, minutes |-> rows[i].minutes] : i \in due}
<1>1. UNCHANGED <<rows, periods>>
  BY DEF ReadWorkItems
<1>2. CASE EndClose(a)
  BY <1>1, <1>2, EndCloseSound
<1>3. CASE ~EndClose(a)
  <2>1. /\ pc[a] = "reading" /\ pc' = [pc EXCEPT ![a] = "creating"]
        /\ job' = [job EXCEPT ![a].lines = lines, ![a].seen = Closed]
        /\ rowLock' = rowLock
    BY <1>3 DEF ReadWorkItems
  <2>2. \A i \in due : /\ i \in Items /\ rows[i].paidBy = None
                       /\ rows[i].state # "deleted"
                       /\ KindOf[i] = "payout" => rows[i].state = "approved"
    BY DEF DueItems, DueOvertime, DueSchedules, DuePayouts, Approved
  <2> HIDE DEF due
  <2>3. \A l \in lines : /\ l.item \in due
                         /\ rows[l.item].minutes = l.minutes
    OBVIOUS
  <2> HIDE DEF lines
  <2>4. \A p \in Closed : \A l \in lines : l.item \notin ItemsOf(p)
    BY <2>2, <2>3 DEF IInv, Sound, PeriodOK, ItemsOf
  <2>5. LockedOK(a)
    BY DEF IInv, Sound
  <2>6. /\ job'[a].locked = job[a].locked
        /\ job'[a].lines = lines
        /\ job'[a].seen = Closed
        /\ pc'[a] = "creating"
    BY <2>1 DEF IInv, TypeInv, TypeOK, Jobs
  <2>7. LockedOK(a)'
    BY <1>1, <2>1, <2>5, <2>6 DEF LockedOK, Approved
  <2>8. HandOK(a)'
    BY <1>1, <2>1, <2>2, <2>3, <2>4, <2>6 DEF HandOK, ItemsOf, Closed
  <2>9. \A b \in Admins \ {a} : job'[b] = job[b] /\ pc'[b] = pc[b]
    BY <2>1 DEF IInv, TypeInv, TypeOK
  <2> QED BY <1>1, <2>1, <2>7, <2>8, <2>9, OwnStep
<1> QED BY <1>2, <1>3

LEMMA CreateSound ==
  ASSUME IInv, NEW a \in Admins,
         \/ CreatePayPeriod(a)
         \/ \E i \in Items : WriteItem(a, i)
         \/ DeadlockVictim(a)
  PROVE  Sound'
<1>1. UNCHANGED <<rows, periods>>
  BY DEF CreatePayPeriod, WriteItem, DeadlockVictim
<1>2. CASE EndClose(a)
  BY <1>1, <1>2, EndCloseSound
<1>3. CASE ~EndClose(a)
  <2>1. /\ LockedOK(a) /\ HandOK(a) /\ job[a].locked \subseteq Items
        /\ \A l \in job[a].lines : l.item \in Items
    BY HandTypes DEF IInv, Sound
  <2>2. /\ job' = job
        /\ pc'[a] = "writing" /\ \A b \in Admins \ {a} : pc'[b] = pc[b]
        /\ \A i \in Items : \/ rowLock'[i] = rowLock[i]
                            \/ /\ rowLock[i] = None /\ rowLock'[i] = a
                               /\ rows[i].state # "deleted"
    BY <1>3 DEF CreatePayPeriod, WriteItem, DeadlockVictim, IInv, TypeInv, TypeOK
  <2>3. LockedOK(a)'
    BY <1>1, <2>1, <2>2 DEF LockedOK, Approved
  <2>4. HandOK(a)'
    BY <1>1, <2>1, <2>2 DEF HandOK, ItemsOf, Closed
  <2>5. \A b \in Admins \ {a} : \A i \in Items : rowLock'[i] = b <=> rowLock[i] = b
    BY <2>2, PayrollAssumption
  <2> QED BY <1>1, <2>2, <2>3, <2>4, <2>5, OwnStep
<1> QED BY <1>2, <1>3

LEMMA CommitSound ==
  ASSUME IInv, NEW a \in Admins, CommitClose(a)
  PROVE  Sound'
<1> DEFINE paid == PaidItems(a)
<1>1. CASE PaysNoOvertime(a)
  BY <1>1, EndCloseSound DEF CommitClose
<1>2. CASE ~PaysNoOvertime(a)
  <2>1. /\ \A i \in paid : rowLock[i] = a
        /\ EndClose(a)
        /\ \A l \in job[a].lines : rows[l.item].state # "deleted"
    BY <1>2 DEF CommitClose, PaidItems, IInv, Sound, HandOK
  <2>2. PICK q \in PeriodIds \ Closed :
          /\ periods' = [periods EXCEPT ![q] = NewPeriod(a)]
          /\ rows' = [i \in Items |-> IF i \in paid THEN [rows[i] EXCEPT !.paidBy = q]
                                      ELSE rows[i]]
    BY <1>2, FreePeriod DEF CommitClose
  <2>3. NewPeriod(a) \in Periods /\ NewPeriod(a) # None
    BY NewPeriodTyped, PayrollAssumption DEF IInv, CommitClose
  <2>4. Closed' = Closed \cup {q}
    BY <2>2, <2>3 DEF Closed, IInv, TypeInv, TypeOK
  <2>5. /\ \A p \in Closed : periods'[p] = periods[p] /\ ItemsOf(p)' = ItemsOf(p)
        /\ periods'[q] = NewPeriod(a)
    BY <2>2 DEF Closed, ItemsOf, IInv, TypeInv, TypeOK
  <2>6. \A i \in Items : /\ rows'[i].state = rows[i].state
                         /\ rows'[i].minutes = rows[i].minutes
                         /\ rows'[i].paidBy = IF i \in paid THEN q ELSE rows[i].paidBy
    BY <2>2 DEF IInv, TypeInv, TypeOK, Rows
  <2>7. q # None
    BY <2>2, PayrollAssumption
  <2>8. ASSUME NEW p \in Closed PROVE PeriodOK(p)'
    <3>1. PeriodOK(p) /\ \A l \in periods[p].lines : l.item \in Items
      BY PeriodTypes DEF IInv, Sound
    <3>2. periods[p].seen \subseteq Closed /\ p # q
      BY <2>2, <3>1 DEF PeriodOK
    <3> HIDE DEF paid
    <3> QED BY <2>4, <2>5, <2>6, <2>7, <3>1, <3>2 DEF PeriodOK, Approved
  <2>9. PeriodOK(q)'
    <3>1. /\ HandOK(a) /\ LockedOK(a) /\ \A l \in job[a].lines : l.item \in Items
      BY HandTypes DEF IInv, Sound
    <3>2. /\ periods'[q].lines = job[a].lines /\ periods'[q].seen = job[a].seen
          /\ periods'[q].locked = job[a].locked /\ periods'[q].state = "draft"
      BY <2>5 DEF NewPeriod
    <3>3. \A l \in job[a].lines : l.item \in paid
      BY DEF PaidItems
    <3> HIDE DEF paid
    <3>4. \A o \in job[a].seen : o \in Closed /\ ItemsOf(o)' = ItemsOf(o)
      BY <2>5, <3>1 DEF HandOK
    <3>5. periods'[q].seen \subseteq Closed'
      BY <2>4, <3>1, <3>2 DEF HandOK
    <3>6. ASSUME NEW l \in job[a].lines
          PROVE  /\ rows'[l.item].paidBy = q /\ rows'[l.item].state = rows[l.item].state
                 /\ rows'[l.item].minutes = rows[l.item].minutes
      BY <2>6, <3>1, <3>3
    <3>7. ASSUME NEW l \in job[a].lines
          PROVE  /\ rows'[l.item].state # "deleted"
                 /\ KindOf[l.item] = "payout" => rows'[l.item].state \in {"approved", "paid"}
                 /\ l.item \in job[a].locked =>
                      /\ KindOf[l.item] = "overtime"
                      /\ rows'[l.item].state = "approved"
                      /\ rows'[l.item].minutes = l.minutes
                 /\ \A o \in job[a].seen : l.item \notin ItemsOf(o)'
      BY <2>1, <3>1, <3>4, <3>6 DEF HandOK, LockedOK, Approved
    <3> QED BY <2>7, <3>2, <3>5, <3>6, <3>7 DEF PeriodOK, Approved
  <2>10. ASSUME NEW b \in Admins PROVE LockedOK(b)' /\ HandOK(b)'
    <3>1. /\ HandOK(b) /\ LockedOK(b) /\ job[b].locked \subseteq Items
          /\ \A l \in job[b].lines : l.item \in Items
      BY HandTypes DEF IInv, Sound
    <3>2. CASE b = a
      <4>1. job'[a].locked = {} /\ job'[a].lines = {} /\ job'[a].seen = {}
        BY <2>1, NoJobTyped DEF EndClose, NoJob, Jobs, IInv, TypeInv, TypeOK
      <4> QED BY <3>2, <4>1 DEF LockedOK, HandOK
    <3>3. CASE b # a
      <4>1. /\ job'[b] = job[b] /\ pc'[b] = pc[b]
            /\ \A i \in Items : rowLock[i] = b <=> rowLock'[i] = b
        BY <2>1, <3>3, PayrollAssumption DEF EndClose, IInv, TypeInv, TypeOK
      <4>2. \A i \in job[b].locked : i \notin paid
        BY <2>1, <3>1, <3>3, PayrollAssumption DEF LockedOK
      <4> HIDE DEF paid
      <4>3. LockedOK(b)'
        BY <2>6, <3>1, <4>1, <4>2 DEF LockedOK, Approved
      <4>4. HandOK(b)'
        BY <2>4, <2>5, <2>6, <3>1, <4>1 DEF HandOK
      <4> QED BY <4>3, <4>4
    <3> QED BY <3>2, <3>3
  <2>11. \A p \in Closed' : PeriodOK(p)'
    BY <2>4, <2>8, <2>9
  <2> QED BY <2>10, <2>11 DEF Sound
<1> QED BY <1>1, <1>2

LEMMA MarkPaidSound ==
  ASSUME IInv, NEW p \in PeriodIds, MarkPayPeriodPaid(p)
  PROVE  Sound'
<1>1. /\ p \in Closed /\ periods' = [periods EXCEPT ![p].state = "paid"]
      /\ UNCHANGED <<rowLock, pc, job>>
  BY DEF MarkPayPeriodPaid
<1>2. ASSUME NEW o \in Closed
      PROVE  /\ periods'[o].lines = periods[o].lines
             /\ periods'[o].seen = periods[o].seen
             /\ periods'[o].locked = periods[o].locked
             /\ o # p => periods'[o].state = periods[o].state
             /\ periods'[o] # None
  <2>1. o \in PeriodIds /\ periods[o] \in Periods /\ p \in PeriodIds
    BY <1>1 DEF Closed, IInv, TypeInv, TypeOK
  <2>2. [periods[p] EXCEPT !.state = "paid"] \in Periods
    BY <1>1 DEF Closed, IInv, TypeInv, TypeOK, Periods
  <2> QED BY <1>1, <2>1, <2>2, PayrollAssumption DEF Periods, IInv, TypeInv, TypeOK
<1>3. Closed' = Closed
  <2>1. \A o \in PeriodIds \ {p} : periods'[o] = periods[o]
    BY <1>1 DEF IInv, TypeInv, TypeOK
  <2> QED BY <1>1, <1>2, <2>1 DEF Closed
<1>4. \A o \in Closed : ItemsOf(o)' = ItemsOf(o)
  BY <1>2 DEF ItemsOf
<1>5. ASSUME NEW i \in Items
      PROVE  /\ rows'[i].paidBy = rows[i].paidBy /\ rows'[i].minutes = rows[i].minutes
             /\ \/ rows'[i].state = rows[i].state
                \/ KindOf[i] = "payout" /\ rows[i].state = "approved" /\ rows'[i].state = "paid"
             /\ KindOf[i] = "payout" /\ rows[i].paidBy = p /\ rows[i].state = "approved" =>
                  rows'[i].state = "paid"
  BY DEF MarkPayPeriodPaid, OpenPayouts, Approved, IInv, TypeInv, TypeOK, Rows
<1>6. ASSUME NEW o \in Closed PROVE PeriodOK(o)'
  <2>1. PeriodOK(o) /\ \A l \in periods[o].lines : l.item \in Items
    BY PeriodTypes DEF IInv, Sound
  <2>2. \A x \in periods[o].seen : x \in Closed
    BY <2>1 DEF PeriodOK
  <2>3. periods'[o].seen \subseteq Closed'
    BY <1>2, <1>3, <2>2
  <2>4. ASSUME NEW l \in periods[o].lines
        PROVE  /\ rows'[l.item].paidBy # None
               /\ rows'[l.item].state # "deleted"
               /\ KindOf[l.item] = "payout" => rows'[l.item].state \in {"approved", "paid"}
               /\ periods'[o].state = "paid" /\ KindOf[l.item] = "payout" =>
                    rows'[l.item].state = "paid" \/ rows'[l.item].paidBy # o
               /\ l.item \in periods[o].locked =>
                    /\ KindOf[l.item] = "overtime"
                    /\ rows'[l.item].state = "approved"
                    /\ rows'[l.item].minutes = l.minutes
               /\ \A x \in periods[o].seen : l.item \notin ItemsOf(x)'
    <3>1. l.item \in Items
      BY <2>1
    <3>2. \A x \in periods[o].seen : l.item \notin ItemsOf(x)'
      BY <1>4, <2>1, <2>2 DEF PeriodOK
    <3> QED BY <1>2, <1>5, <2>1, <3>1, <3>2 DEF PeriodOK, Approved
  <2> QED BY <1>2, <2>3, <2>4 DEF PeriodOK, Approved
<1>7. ASSUME NEW a \in Admins PROVE LockedOK(a)' /\ HandOK(a)'
  <2>1. /\ HandOK(a) /\ LockedOK(a) /\ job[a].locked \subseteq Items
        /\ \A l \in job[a].lines : l.item \in Items
    BY HandTypes DEF IInv, Sound
  <2>2. LockedOK(a)'
    BY <1>1, <1>5, <2>1 DEF LockedOK, Approved
  <2>3. \A x \in job[a].seen : ItemsOf(x)' = ItemsOf(x)
    BY <1>4, <2>1 DEF HandOK
  <2>4. HandOK(a)'
    BY <1>1, <1>3, <1>5, <2>1, <2>3 DEF HandOK
  <2> QED BY <2>2, <2>4
<1> QED BY <1>3, <1>6, <1>7 DEF Sound

LEMMA HandlersSound ==
  ASSUME IInv, OvertimeHandlers \/ OtherHandlers
  PROVE  Sound'
<1>1. PICK i \in Items, row \in Rows :
        /\ Edit(i, row)
        /\ row.paidBy = rows[i].paidBy
        /\ row.state = "deleted" => rows[i].paidBy = None \/ ~OnSomeLine(i)
        /\ KindOf[i] = "overtime" => rows[i].paidBy = None \/ ~Approved(rows[i])
        /\ KindOf[i] = "payout" /\ rows[i].state \in {"approved", "paid"} =>
             row.state = "paid"
  BY HandlerEdits DEF IInv
<1>2. /\ rowLock[i] = None /\ UNCHANGED <<periods, rowLock, pc, job>>
      /\ \A k \in Items : rows'[k] = IF k = i THEN row ELSE rows[k]
  BY <1>1 DEF Edit, IInv, TypeInv, TypeOK
<1>3. Closed' = Closed /\ \A p \in Closed : ItemsOf(p)' = ItemsOf(p)
  BY <1>2 DEF Closed, ItemsOf
<1>4. ASSUME NEW p \in Closed PROVE PeriodOK(p)'
  <2>1. PeriodOK(p) /\ \A l \in periods[p].lines : l.item \in Items
    BY PeriodTypes DEF IInv, Sound
  <2>2. \A l \in periods[p].lines : OnSomeLine(l.item)
    BY DEF OnSomeLine, ItemsOf
  <2>3. \A x \in periods[p].seen : ItemsOf(x)' = ItemsOf(x)
    BY <1>3, <2>1 DEF PeriodOK
  <2> QED BY <1>1, <1>2, <1>3, <2>1, <2>2, <2>3 DEF PeriodOK, Approved
<1>5. ASSUME NEW a \in Admins PROVE LockedOK(a)' /\ HandOK(a)'
  <2>1. /\ HandOK(a) /\ LockedOK(a) /\ job[a].locked \subseteq Items
        /\ \A l \in job[a].lines : l.item \in Items
    BY HandTypes DEF IInv, Sound
  <2>2. i \notin job[a].locked
    BY <1>2, <2>1, PayrollAssumption DEF LockedOK
  <2>3. LockedOK(a)'
    BY <1>2, <2>1, <2>2 DEF LockedOK, Approved
  <2>4. \A x \in job[a].seen : ItemsOf(x)' = ItemsOf(x)
    BY <1>3, <2>1 DEF HandOK
  <2>5. HandOK(a)'
    <3>1. a # None
      BY PayrollAssumption
    <3>2. ASSUME NEW l \in job[a].lines
          PROVE  /\ l.item \in job[a].locked => rows'[l.item].minutes = l.minutes
                 /\ KindOf[l.item] = "payout" => rows'[l.item].state \in {"approved", "paid"}
                 /\ rowLock[l.item] = a => rows'[l.item].state # "deleted"
      BY <1>1, <1>2, <2>1, <2>2, <3>1 DEF HandOK
    <3> QED BY <1>2, <1>3, <2>1, <2>4, <3>2 DEF HandOK
  <2> QED BY <2>3, <2>5
<1> QED BY <1>3, <1>4, <1>5 DEF Sound

LEMMA StutterSound == IInv /\ UNCHANGED vars => Sound'
BY DEF IInv, Sound, LockedOK, HandOK, PeriodOK, Closed, ItemsOf, Approved, vars

LEMMA InitSound == Init => Sound
BY NoJobTyped DEF Init, Sound, LockedOK, HandOK, Closed, NoJob

LEMMA NextSound == IInv /\ [Next]_vars => IInv'
<1> SUFFICES ASSUME IInv, [Next]_vars PROVE Sound'
  BY NextTyped DEF IInv
<1>1. CASE \E a \in Admins, r \in Requests :
             ClosePayPeriod(a, r) \/ ClosePayrollMonthByAdmin(a, r)
  BY <1>1, BeginSound
<1>2. CASE \E a \in Admins : CloseStep(a) \/ DeadlockVictim(a)
  BY <1>2, BeginSound, SelectSound, LockSound, ReadSound, CreateSound, CommitSound
     DEF CloseStep
<1>3. CASE \E p \in PeriodIds : MarkPayPeriodPaid(p)
  BY <1>3, MarkPaidSound
<1>4. CASE OvertimeHandlers \/ OtherHandlers
  BY <1>4, HandlersSound
<1>5. CASE UNCHANGED vars
  BY <1>5, StutterSound
<1> QED BY <1>1, <1>2, <1>3, <1>4, <1>5 DEF Next

LEMMA AlwaysSound == Spec => []IInv
<1>1. Init => IInv
  BY InitTyped, InitSound DEF IInv
<1> QED BY <1>1, NextSound, PTL DEF Spec

\* Work is on two periods only when neither close could see the other
\* (LockPayrollPreviewWorkItems and paid_period_id).
THEOREM PaidOnceUnlessRaced == Spec => []PaidAgainOnlyInARace
<1>1. IInv => PaidAgainOnlyInARace
  BY DEF IInv, Sound, PeriodOK, PaidAgainOnlyInARace, ItemsOf
<1> QED BY <1>1, AlwaysSound, PTL

\* The overtime a close locked is paid as it was, and stays so
\* (LockPayrollOvertimeEntries, and the edits of overtime_service.go).
THEOREM OvertimePaidAsLocked == Spec => []LockedOvertimeExact
<1>1. IInv => LockedOvertimeExact
  BY DEF IInv, Sound, PeriodOK, LockedOvertimeExact
<1> QED BY <1>1, AlwaysSound, PTL

\* No line loses the work it pays (pay_period_line_items_one_source).
THEOREM SourcesStay == Spec => []LinesKeepTheirSource
<1>1. IInv => LinesKeepTheirSource
  BY DEF IInv, Sound, PeriodOK, LinesKeepTheirSource, ItemsOf
<1> QED BY <1>1, AlwaysSound, PTL

\* A paid period's payouts are paid or moved to another period
\* (MarkPayPeriodPaidByAdmin).
THEOREM PaidPeriodsSettled == Spec => []PayoutsSettled
<1>1. IInv => PayoutsSettled
  BY DEF IInv, Sound, PeriodOK, PayoutsSettled, ItemsOf
<1> QED BY <1>1, AlwaysSound, PTL
=============================================================================
