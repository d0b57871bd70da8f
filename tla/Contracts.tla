------------------------------ MODULE Contracts ------------------------------
(***************************************************************************)
(* The contracts of one employee and the salaries assigned to it           *)
(* (internal/service/employee_service.go:645).  A change of contract ends  *)
(* the current one and inserts its successor in one transaction, at READ   *)
(* COMMITTED: an amendment names the contract it changes, read on the pool *)
(* before; a new contract looks up the one in force on its first day.      *)
(*                                                                         *)
(* contract_end_date is agreed and shown as end, effective_end_date is     *)
(* where a successor cut the contract off, shown as cut.  What a contract  *)
(* says but for its dates, and the height of a salary, are left out.       *)
(***************************************************************************)
EXTENDS Integers

CONSTANTS
  Sessions,
  LastDay,        \* bound: the calendar
  Starts,         \* bound: the days a contract or a salary begins on
  Ends,           \* bound: the days one of them is agreed to end on
  MaxContracts,   \* bound: contracts ever made
  MaxSalaries,    \* bound: salaries ever assigned
  MaxEdits,       \* bound: edits of dates, and raises
  None            \* no value

Days == 1..LastDay
ContractIds == 1..MaxContracts
SalaryIds == 1..MaxSalaries
Dates == Days \cup {None}
EndDates == Ends \cup {None}

VARIABLES
  contracts,   \* rows of employee_contracts
  salaries,    \* rows of employee_salary_assignments
  pc,          \* the statement each session runs next
  change,      \* what it carries out
  edits,       \* edits of a contract's dates and raises so far
  firstCut,    \* history: the earliest day each contract was cut off at
  unpaid       \* history: contracts that had no salary of their own from the start

vars == <<contracts, salaries, pc, change, edits, firstCut, unpaid>>

ContractRows == [start : Days, end : Dates, cut : Dates]
SalaryRows == [contract : ContractIds \cup {None}, from : Days, to : Dates]
Changes == [base : ContractIds \cup {None}, start : Days, end : Dates,
            previous : SalaryIds \cup {None}]
PCs == {"idle", "ending", "inserting", "looking", "assigning", "updating", "filling"}

ContractsAssumption ==
  /\ LastDay \in Nat /\ MaxContracts \in Nat \ {0} /\ MaxSalaries \in Nat \ {0}
  /\ MaxEdits \in Nat
  /\ Ends \subseteq Days /\ Starts \subseteq Days
  /\ None \notin Int /\ None \notin Sessions
  /\ None \notin ContractRows /\ None \notin SalaryRows

Made == {c \in ContractIds : contracts[c] # None}
Assigned == {s \in SalaryIds : salaries[s] # None}

Reaches(date, d) == IF date = None THEN TRUE ELSE date >= d

InForce(c, d) ==
  contracts[c].start <= d /\ Reaches(contracts[c].cut, d) /\ Reaches(contracts[c].end, d)

\* ORDER BY start_date DESC LIMIT 1, or none.
ContractAt(d) ==
  {c \in Made : InForce(c, d) /\ \A b \in Made : InForce(b, d) =>
                                   contracts[b].start <= contracts[c].start}

\* effective_to is the first day without the salary.
Active(s, d) ==
  salaries[s].from <= d /\ IF salaries[s].to = None THEN TRUE ELSE salaries[s].to > d

ActiveSalaries(c, d) == {s \in Assigned : salaries[s].contract \in {c, None} /\ Active(s, d)}

\* NULLs come first in descending order, so a salary without a contract does;
\* then the latest.  created_at may be the same for two.
PreviousSalary(c, d) ==
  LET active == ActiveSalaries(c, d)
      loose == {s \in active : salaries[s].contract = None}
      candidates == IF loose # {} THEN loose ELSE active
  IN {s \in candidates : \A r \in candidates : salaries[r].from <= salaries[s].from}

NoChange == [base |-> None, start |-> 1, end |-> None, previous |-> None]

After(date, day) == IF date = None THEN TRUE ELSE date > day

\* CreateEmployee: with a contract or without, with a salary or without; dates
\* of a salary may be its own.
Init ==
  /\ \E start \in Starts, end \in EndDates, from \in Starts, to \in EndDates,
        contract, salary \in {1, None} :
       /\ Reaches(end, start) /\ After(to, from)
       /\ contracts = [c \in ContractIds |->
            IF c = contract THEN [start |-> start, end |-> end, cut |-> None] ELSE None]
       /\ salaries = [s \in SalaryIds |->
            IF s = salary THEN [contract |-> contract, from |-> from, to |-> to] ELSE None]
       /\ unpaid = IF contract = None \/ (salary # None /\ from <= start /\ to = None)
                   THEN {} ELSE {contract}
  /\ pc = [s \in Sessions |-> "idle"]
  /\ change = [s \in Sessions |-> NoChange]
  /\ edits = 0
  /\ firstCut = [c \in ContractIds |-> None]

-----------------------------------------------------------------------------
(* A change of contract *)

Begin(s, next, base, start, end) ==
  /\ pc[s] = "idle"
  /\ pc' = [pc EXCEPT ![s] = next]
  /\ change' = [change EXCEPT ![s] =
       [base |-> base, start |-> start, end |-> end, previous |-> None]]
  /\ UNCHANGED <<contracts, salaries, firstCut, unpaid>>

\* Of any contract: it may have a successor already.
CreateContractAmendment(s, base, start, end) ==
  /\ base \in Made
  /\ start > contracts[base].start /\ After(end, start)
  /\ Begin(s, "ending", base, start, end)
  /\ UNCHANGED edits

CreateNewContract(s, start, end) ==
  /\ After(end, start)
  /\ UNCHANGED edits
  /\ IF ContractAt(start) = {}
     THEN Begin(s, "inserting", None, start, end)
     ELSE \E c \in ContractAt(start) : Begin(s, "ending", c, start, end)

Goto(s, next) ==
  /\ pc' = [pc EXCEPT ![s] = next]
  /\ UNCHANGED <<contracts, salaries, change, edits, firstCut, unpaid>>

Holds(s, c) == pc[s] \in {"inserting", "looking", "assigning"} /\ change[s].base = c

\* UPDATE by id: it waits for the row, whose CHECK wants cut >= start.
EndEmployeeContractSegment(s) ==
  LET base == change[s].base IN
  /\ pc[s] = "ending"
  /\ \A r \in Sessions \ {s} : ~Holds(r, base)
  /\ change[s].start - 1 >= contracts[base].start
  /\ Goto(s, "inserting")

\* The unique index waits for whoever inserted the same start.
StartFree(s, start) ==
  /\ \A c \in Made : contracts[c].start # start
  /\ \A r \in Sessions \ {s} : ~(pc[r] \in {"looking", "assigning"} /\ change[r].start = start)

AddContract(s) ==
  /\ pc[s] = "inserting"
  /\ StartFree(s, change[s].start)
  /\ Goto(s, "looking")

\* createSalaryForContractSegment looks up the salary to go on from.
GetActiveSalary(s) ==
  LET base == change[s].base
      found == IF base = None THEN {} ELSE PreviousSalary(base, change[s].start)
  IN /\ pc[s] = "looking"
     /\ \E previous \in IF found = {} THEN {None} ELSE found :
          change' = [change EXCEPT ![s].previous = previous]
     /\ pc' = [pc EXCEPT ![s] = "assigning"]
     /\ UNCHANGED <<contracts, salaries, edits, firstCut, unpaid>>

\* Mutant: the contract still covers its successor's first day.
DayOf(start) == start

\* The last day of a contract that has a successor.
DayBefore(start) == start - 1

Earlier(date, day) == IF date = None THEN day ELSE IF date <= day THEN date ELSE day

NextContract(id) == contracts[id] = None /\ \A c \in 1..(id - 1) : contracts[c] # None
NextSalary(id) == salaries[id] = None /\ \A s \in 1..(id - 1) : salaries[s] # None

\* EndEmployeeSalaryAssignment, unless the salary ended meanwhile; the CHECK
\* wants from < to.  Then the new salary, and the commit.
CreateSalaryForContractSegment(s, id, salary, requested) ==
  LET base == change[s].base
      start == change[s].start
      previous == change[s].previous
      ends == previous # None /\ After(salaries[previous].to, start)
  IN /\ pc[s] = "assigning"
     /\ NextContract(id) /\ NextSalary(salary)
     /\ requested \/ previous # None
     /\ ends => salaries[previous].from < start
     /\ salaries' = [r \in SalaryIds |->
          CASE r = salary -> [contract |-> id, from |-> start, to |-> None]
            [] ends /\ r = previous -> [salaries[r] EXCEPT !.to = start]
            [] OTHER -> salaries[r]]
     /\ contracts' = [c \in ContractIds |->
          CASE c = id -> [start |-> start, end |-> change[s].end, cut |-> None]
            [] c = base -> [contracts[c] EXCEPT !.cut = DayBefore(start)]
            [] OTHER -> contracts[c]]
     /\ firstCut' = [c \in ContractIds |->
          IF c = base THEN Earlier(firstCut[c], DayBefore(start)) ELSE firstCut[c]]
     /\ pc' = [pc EXCEPT ![s] = "idle"]
     /\ change' = [change EXCEPT ![s] = NoChange]
     /\ UNCHANGED <<edits, unpaid>>

\* A CHECK, the unique index, a missing salary or any error: rolled back.
Fail(s) ==
  /\ pc[s] # "idle"
  /\ pc' = [pc EXCEPT ![s] = "idle"]
  /\ change' = [change EXCEPT ![s] = NoChange]
  /\ UNCHANGED <<contracts, salaries, edits, firstCut, unpaid>>

-----------------------------------------------------------------------------
(* Edits *)

\* One UPDATE of what is given; an end date cannot be taken away.
UpdateEmployeeContract(c, start, end) ==
  LET row == [contracts[c] EXCEPT !.start = start, !.end = end] IN
  /\ c \in Made /\ edits < MaxEdits
  /\ end # None \/ contracts[c].end = None
  /\ start # contracts[c].start \/ end # contracts[c].end
  /\ Reaches(row.end, start) /\ Reaches(row.cut, start)
  /\ \A r \in Sessions :
       /\ ~Holds(r, c)
       /\ ~(pc[r] \in {"looking", "assigning"} /\ change[r].start = start)
  /\ \A b \in Made \ {c} : contracts[b].start # start
  /\ contracts' = [contracts EXCEPT ![c] = row]
  /\ edits' = edits + 1
  /\ unpaid' = IF start < contracts[c].start THEN unpaid \cup {c} ELSE unpaid
  /\ UNCHANGED <<salaries, pc, change, firstCut>>

\* A raise with dates of its own, for the contract in force on its first day if
\* there is one.  The row of the profile is held throughout.
UpdateEmployee(s, from, to) ==
  /\ After(to, from)
  /\ edits < MaxEdits /\ edits' = edits + 1
  /\ \A r \in Sessions : pc[r] # "updating"
  /\ \E c \in IF ContractAt(from) = {} THEN {None} ELSE ContractAt(from) :
       Begin(s, "updating", c, from, to)

\* Without a salary the contract gets one; otherwise only its height changes.
UpdateEmployeeContractSalary(s, c) ==
  /\ c \in Made
  /\ \A r \in Assigned : salaries[r].contract # c
  /\ Begin(s, "filling", c, contracts[c].start, None)
  /\ UNCHANGED edits

\* The insert of either, and the commit.
CreateEmployeeSalaryAssignment(s, salary) ==
  /\ pc[s] \in {"updating", "filling"}
  /\ NextSalary(salary)
  /\ salaries' = [salaries EXCEPT ![salary] =
       [contract |-> change[s].base, from |-> change[s].start, to |-> change[s].end]]
  /\ pc' = [pc EXCEPT ![s] = "idle"]
  /\ change' = [change EXCEPT ![s] = NoChange]
  /\ UNCHANGED <<contracts, edits, firstCut, unpaid>>

Next ==
  \/ \E s \in Sessions :
       \/ \E start \in Starts, end \in EndDates :
            \/ CreateNewContract(s, start, end)
            \/ \E base \in ContractIds : CreateContractAmendment(s, base, start, end)
            \/ UpdateEmployee(s, start, end)
       \/ EndEmployeeContractSegment(s) \/ AddContract(s) \/ GetActiveSalary(s) \/ Fail(s)
       \/ \E id \in ContractIds, salary \in SalaryIds, requested \in BOOLEAN :
            CreateSalaryForContractSegment(s, id, salary, requested)
       \/ \E c \in ContractIds : UpdateEmployeeContractSalary(s, c)
       \/ \E salary \in SalaryIds : CreateEmployeeSalaryAssignment(s, salary)
  \/ \E c \in ContractIds, start \in Starts, end \in EndDates :
       UpdateEmployeeContract(c, start, end)

Spec == Init /\ [][Next]_vars

-----------------------------------------------------------------------------
(* Properties *)

TypeOK ==
  /\ contracts \in [ContractIds -> ContractRows \cup {None}]
  /\ salaries \in [SalaryIds -> SalaryRows \cup {None}]
  /\ pc \in [Sessions -> PCs]
  /\ change \in [Sessions -> Changes]
  /\ edits \in 0..MaxEdits
  /\ firstCut \in [ContractIds -> Dates]
  /\ unpaid \subseteq ContractIds

\* A contract that had a salary of its own from the start has one on every day
\* it is in force, whatever changes, raises and edits run at once: payroll drops
\* work on a day without (pay_period.sql:62).  A change that cuts it off later
\* than an earlier one did gives days back, but not their salary
\* (employee_service.go:739, 815).
ContractsPaid ==
  \A c \in Made \ unpaid : \A d \in Days :
    InForce(c, d) /\ Reaches(firstCut[c], d) =>
      \E s \in Assigned : salaries[s].contract = c /\ Active(s, d)
=============================================================================
