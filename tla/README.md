# Formal models of hrbackend

TLA+ models of the parts of this HR backend where several calls, transactions
or goroutines meet, model-checked with TLC; their safety and their refinements
are proved with TLAPS. Paths below are relative to the repository.

## The system

gin handlers (`internal/handler`) decode a request and call one method of a
service (`internal/service`), which reads and writes PostgreSQL through a
repository (`internal/repository`) and queries generated by sqlc from
`internal/repository/db/query/*.sql`. A transaction is
`Store.ExecTx` (`internal/repository/db/store.go`), at PostgreSQL's default
READ COMMITTED: every statement sees what has committed when it starts. There
is no statement or request timeout. After its response a service may start a
notification worker, which stores notifications and pushes them to browsers
through the WebSocket hub (`internal/ws`). Redis holds WebSocket tickets and a
cached location list.

| Component | State | Operations | Hard because | Correct when |
|---|---|---|---|---|
| Leave and payout ledger | `leave_requests`, `leave_payout_requests`; the balance is computed, never stored | create, edit, decide, grant, pay | checks in several statements, row locks of requests and employees, lock cycles over foreign keys, time passing | no overdraft, final decisions, one charge per request, every transaction ends |
| Document signing | `sign_documents`, recipients, fields, signatures | create, set fields, send, view, sign, cancel | checks outside the transaction, two recipients at once, a pool connection inside a transaction | signing order, completion exactly when all have signed, a complete file, calls that return |
| WebSocket hub | registry, channel of each client, two goroutines per connection | connect, register, deliver, disconnect, cut off, shut down | close against send on channels, full buffers, busy hub | no double close, no gaps, no dead clients, shutdown ends |
| Shift swaps, schedules | `shift_swap_requests`, `schedules` | request, respond, decide, edit, expire | trigger misses concurrent inserts, overlap counts, lazy expiry, lost updates, rows locked in pairs | one request per shift can be approved, a swap is the exchange agreed on, no deadlock |
| Payroll close | `pay_periods` with line items, `paid_period_id` of shifts, overtime, payouts | preview, close period or month, mark paid | overlapping periods, work edited while a period closes, rows locked one by one in any order, a second connection inside a transaction | work is paid twice only by closes that raced, lines keep their source, closes end |
| Onboarding handbooks | templates, assignments, step progress | publish, assign, start, complete, waive | updates without a status condition, last steps at once | completed means done, waived stays waived |
| Authentication | sessions, attempt counters, second factors | login, second factor, logout | check-then-record limiter, token reuse | attempts are bounded |
| Tickets, notifications | Redis keys, `notifications`, connections | issue, consume, notify, push, read | single use, expiry, detached workers, crashes | one connection per ticket, which is shown its user's stored notifications |
| Overtime | `overtime_entries` | submit, edit, decide, delete | edits racing a payroll close | what a period paid stays as it was |
| Expenses | one status column each | submit, edit, decide, reimburse, cancel | nothing: one locked row | not modelled |
| Performance, training, late arrivals | assessments, assignments | create, decide, cancel | duplicates, excluded by indexes | not modelled |
| Employees and contracts | contract segments, salaries | amend, add, edit | changes at once, successors, agreed ends, salaries of no contract | a contract keeps its salary while it is in force |
| Organizations, locations | rows and a cached list | create, edit, delete, list | stale cache | the list is right in the end |
| Schedule generation | none | solve | external solver | not modelled |
| Roles, departments, settings, dashboards, attachments, HTTP, generated code, libraries, seeds | rows, files | single statements | nothing interacts | not modelled |

`PROJECT.json` lists the same components with their files, and every hazard
with its line.

## Modules

| Module | What it is |
|---|---|
| `LedgerSums` | SUM over the rows of a table, as a cardinality |
| `LeaveLedger` | the leave and payout services, statement by statement |
| `LeaveAccounts` | what the ledger promises: accounts charged at once and within a cap |
| `SignDocument` | the signing service, statement by statement |
| `SigningCeremony` | what signing promises |
| `ShiftSwap` | shift swaps and the edits of the rota beside them |
| `ShiftExchange` | what a swap promises |
| `WsHub` | the hub, its clients' pumps and their channels |
| `PayrollClose` | closing pay periods, and everything that changes the work they pay |
| `PayrollLines` | how a shift becomes lines of pay |
| `PayrollCalendar` | how a year becomes pay periods |
| `Handbook` | templates, steps and handbooks |
| `Auth` | login, second factor and the attempt counters |
| `Locations` | locations, their shifts and the cached list |
| `Notifications` | tickets, connections and the workers that push notifications |
| `Contracts` | contracts and salaries of an employee |
| `MCLeaveLedger`, `MCSignDocument`, `MCShiftSwap`, `MCWsHub`, `MCPayrollClose`, each with its `.cfg` files | instances for TLC |
| `Services` | `PayrollLines`, `PayrollCalendar`, `Handbook`, `Auth`, `Locations`, `Notifications` and `Contracts` side by side, and the properties of each |
| `MCServices`, `Services.cfg` | an instance of `Services` for TLC |
| `LeaveLedgerProofs`, `SignDocumentProofs`, `ShiftSwapProofs`, `WsHubProofs`, `PayrollCloseProofs`, `PayrollLinesProofs`, `PayrollCalendarProofs`, `ServicesProofs` | theorems and proofs |

The components meet in the database and in the hub. A leave payout is approved
in `LeaveLedger` and paid in `PayrollClose`; a shift is swapped in `ShiftSwap`
and paid in `PayrollClose`; a contract's entitlement is a version number in
`LeaveLedger` and a segment in `Contracts`; the hub is one step in
`Notifications` and a module of its own in `WsHub`. In each of them the other
side is an action that may happen at any time.

Operators commented "Mutant" are never used by a specification: each is a
plausible bug, and putting it in the place of the definition after it must
break the property it is listed with in `PROJECT.json`.

### LeaveLedger

`leaves` and `payouts` are the two tables, reduced to status, owner, amount and
year; `contract` is whatever entitles an employee at the moment, `clock` is
today, `tx` the open transaction of each database session. `waived` is a
history variable: the accounts (employee and year) that were charged more, or
entitled to less, by a call that has no balance check, which are
`UpdatePayoutRequestByAdmin` on approved or paid requests and contract edits, or
whose check overflowed.

Integers have the code's width, with `MaxInt` for 2^31 - 1. No layer bounds the
hours of a payout, and Go multiplies them by 60 and subtracts the sums in int32
(`Wrap`): from 35 791 395 hours on the product can be negative and passes the
check. SQL does not wrap, a sum out of range is an error (`RefuseOutOfRange`).
So an overflowing request that is asked for and decided later is refused, by the
sum of the pending payouts; an admin's grant of one
(`CreateApprovedPayoutRequestByAdmin`) is stored (`NoteOverflow`), and from then
on every balance call of the account fails. `NoOverdraft` and the abstract
accounts (`Overflow`) say that this grant is the only way.

The three calls that check the balance (approving leave, creating or granting a
payout, approving a payout) are the steps `Begin...`, `LockEmployee`,
`ComputeTotal`, `ComputeUsed`, `ComputeReserved`, `Commit...` or
`RefuseInsufficient`, and `Rollback` for any error at any point. All other
calls run one short transaction on one row and are one step, enabled while no
other transaction holds a lock they need. Row locks are not stored: a session
holds its request's row from `Begin`, the employee's row from `LockEmployee`,
both to its end. A write that sets a foreign key to an employee (creating a
request, deciding it) needs a key-share lock that conflicts with the other
sessions' `FOR UPDATE` (`KeyShare`); `DeadlockVictim` is PostgreSQL's deadlock
detector.

Abstracted: how requested minutes follow from contract, holidays and times (any
positive int32 here), hourly rates and amounts (they do not enter the
balance), notes, notifications.

### SignDocument

One document. `doc`, `recipients`, `fields` and `signatures` are committed
state; `call` is what each session is executing. A call's checks run on the
pool one statement at a time (`Query`), its transaction is a sequence of
`Statement`s whose effects appear at `CommitSign`; which rows it has locked
follows from its program counter. Every statement outside a transaction, and
the reads of `createSignedPDF` inside one, need a free connection of the pool.
The signed file is represented by its signature fields: the recipients they
name, and those of them whose signature the call found. `createSignedPDF` reads
the fields (`PlaceFields`), then the signatures (`CreateSignedPDF`), and stamps
field by field; a recipient without a signature field is not in the file at all,
and one whose signature is not seen is named with the date 0001-01-01. Fields of
the other types show values, which are left out.

`SetFields` and `SendDocument` are followed statement by statement as well,
`CreateDocument`, `CancelDocument` and `MarkViewed` have one statement or one
transaction that matters. Events and notifications are left out, object storage
is part of `Abort`.

### ShiftSwap

`schedules` and `swaps` are the rows of the two tables, `scheduleLock` and
`swapLock` the `FOR UPDATE` locks, `pc` and `work` the statement each session
runs next and what its handler holds. A schedule is its state, its employee and
its slot (start and end); a request its parties and shifts, its status and its
expiry (`Never` for none). `clock` only matters for expiry and for shifts that
have begun.

An employee's request reads both schedules on the pool
(`CreateShiftSwapRequest`, `ReadRecipientSchedule`), expires old requests
(`ExpirePending`) and inserts. The INSERT is three steps because others get in
between: the trigger's query (`CheckActiveSwaps`), the unique indexes
(`InsertShiftSwap`) and the foreign keys with the commit (`CommitShiftSwap`).
An approval locks the request, an imposed swap nothing yet; both then lock the
schedules one by one in the order of their ids, check (`ValidateSwap`) and
write and commit (`CommitSwap`). Answers are one guarded UPDATE each.
`UpdateSchedule` reads and `WriteSchedule` writes all columns back;
`DeleteSchedule` locks, `CascadeDelete` removes the requests and commits.
`Fail` is any error, the deadlock detector's included.

Abstracted: `schedule_history`, an audit log no handler reads; notifications;
locations and shift templates (they decide the slot); recurrence (each row of a
batch is a `CreateSchedule`). The two foreign keys of an INSERT are locked at
once here, one after the other by the database, which only adds deadlocks that
`Fail` covers. `Handlers` bounds which calls a run makes, `ScheduleIds` and
`SwapIds` the rows ever inserted.

### WsHub

`hub` is where `Run` is: at its `select`, in the loop over a user's clients, in
the loop that closes them, done, or gone with the process. The channels `register`, `unregister` and
`sendToUser` are unbuffered: a send is one step with the hub's receive. Senders
with a `default` case give up when the hub is not at its `select`; readPump has
none and waits. A client has `send`, its buffered channel, `closes`, how often
it was closed, and the program counters of readPump and writePump. A message is
its number among those the hub took for the user.

Writing a frame has a beginning and an end: writePump is inside a write from
`TakeMessage` (or `BeginPing`, `WriterFinishes`) to `WriteMessage` (`EndPing`,
`WriterCloses`) or `WriteFails`. At shutdown the hub closes a client's channel
(`CloseSend`), which may wake its writePump, then writes a close frame itself and
closes the connection (`CloseClient`). gorilla/websocket allows one writer at a
time and panics when it notices two, which it does not always:
`ConcurrentWrite` is that panic, in the hub or in writePump, and it ends the
process with every connection of every user.

### PayrollClose

`rows` are the shifts, overtime entries and leave payouts, reduced to state,
owner, days, minutes and the period that paid them; `periods` the pay periods
with their lines; `rowLock` the rows a close holds, locked `FOR UPDATE` or
written; `pc` and `job` the statement and the data of each administrator's close.
A close is `BeginClose` (a look for a period with the same dates),
`LockPayrollOvertimeEntries` (the rows the statement finds) and
`LockOvertimeEntry` for each of them, `ReadWorkItems` (which locks nothing and
needs a second connection for contracts and holidays), `CreatePayPeriod`,
`WriteItem` for each row that is paid, and `CommitClose`. The statement that
locks has no `ORDER BY`, and the updates name their rows in a list, so rows are
taken one at a time in any order: closes wait in circles, for rows and for one
another's period in the unique index, and `DeadlockVictim` is the database's
detector. A month or a four-week period first previews
every employee on the pool and then closes those with something to pay, one
transaction each. The handlers of overtime, payouts and schedules that change
such rows are one step each, on a row nobody holds. A line's foreign key and the
update of its row are one `WriteItem`, which the database does in this order for
each table; that only makes closes wait sooner. `locked` and `seen` of a
period are history: what its close held locked, and which periods it could see.

Abstracted: amounts, the rate of a line (`PayrollLines`), the dates of a period
(`PayrollCalendar`), previews that write nothing.

### PayrollLines and PayrollCalendar

Both follow a loop of the code one round at a time. `PayrollLines` is
`buildPayrollPreviewLineItems`: `Begin`, one `Minute` after another, `Return`,
with the rates of the code as `AppliedRate`. A time is a minute and the second
in it, which decides whether the loop ever meets the end of the shift. An
hour has `HourMinutes` minutes, 60 in the code. `PayrollCalendar` is the loop
over the weeks of an ISO year, and looking up the period of a day.

### Handbook, Auth, Locations

`Handbook` has a step for each read on the pool and one for each transaction:
what a call decided may be stale when it writes. `raced` marks a handbook that
two calls held at once, `edited` a template that was edited after it ceased to
be a draft; both are history.

`Auth` takes the time once per request, as the code does; the check of a
counter and the count of a failure are two steps with the database between
them. The code checks the counter of the email and then that of the address,
here one step: no bound on one counter rests on when the other is read.
Passwords and codes are right or wrong by choice, a token is the session
it names. Of `Users` and `Ips` together each has a counter for logins and one
for codes.

`Locations` is a write that commits and then deletes the cached page, against a
listing that reads locations and shifts in two statements and stores the page
with a time to live. Deleting an organisation deletes no page.

### Notifications

A worker looks up recipients by employee, role and permission (`Notify`,
`ResolveRecipients`), stores a row for each (`CreateNotifications`) and pushes
each (`Deliver`, or `DropMessage` when the hub is busy). A ticket is issued for
an access token and lives no longer than that token; `ConsumeTicket` takes it
out of Redis and accepts a connection, `Connect` opens it. `Crash` ends workers
and connections and leaves rows and tickets.

### Contracts

One employee. A change of contract is a transaction of statements: the end of
the current contract, which it found without a lock or was told
(`EndEmployeeContractSegment` waits for its row), the insert, which waits in the
unique index on the start (`AddContract`), the lookup of the salary to go on
from (`GetActiveSalary`), and the end of that salary, the new one and the commit
(`CreateSalaryForContractSegment`). A contract is its start, its agreed end and
where a successor cut it off; a salary is its contract, if any, its first day
and the first day without it.

Salaries have other writers, each a transaction of two steps. `UpdateEmployee`
files a raise with dates of its own for the contract in force on its first day,
or for none, holding the profile's row; `UpdateEmployeeContractSalary` gives a
contract without a salary one; `CreateEmployeeSalaryAssignment` is the insert of
either. `CreateEmployee`, in `Init`, can leave a contract without a salary, or a
salary without a contract. `PreviousSalary` prefers a salary without a contract:
`ORDER BY (contract_id = X) DESC` puts NULLs first. So does payroll's lookup
(`pay_period.sql:62`), which keeps paying by such a salary for as long as it runs,
whatever the contract's own says.

`unpaid` and `firstCut` are history: the contracts that began without a salary of
their own for all their days, or whose start was edited to an earlier one, and the
day each contract was first cut off at.

## Runs

| Run | Question | Instance | Result |
|---|---|---|---|
| `ledger_balance` | can any interleaving overdraw an account behind the checks, break the locks, make a read stale, change a decision; are the tables the abstract accounts | one employee who is an admin, one leave, two payouts, two years, two contract versions, two sessions | holds; 408 802 states |
| `ledger_admins` | does every transaction end when admins decide each other's requests | two employees, both admins, two leaves, two sessions | holds; 75 794 states |
| `ledger_race` | is every approval within the balance | one contract version | violated |
| `sign_order` | order, completion, file and the refinement | one or two recipients, any order, two fields, two sessions | holds; 1 233 190 states |
| `sign_calls` | does every call return | two recipients in parallel, a spare connection | holds; 31 964 states |
| `sign_stuck` | is a document that everybody signed completed | two recipients in parallel | violated |
| `hub_traffic` | can a channel be closed twice, a message be missed; does shutdown end the hub, but for a concurrent write | two connections of one user, three messages, buffer of one | holds; 726 381 states |
| `hub_connections` | do dead and cut-off clients disappear | one connection, five messages, buffer of two | holds; 13 331 states |
| `swap_exchange` | is every swap the agreed exchange, can a shift have two approvable requests, do swaps deadlock | two shifts and one to add, swaps in both directions, edits and expiry, two requests, two sessions | holds; 1 352 108 states |
| `swap_overlap` | do swaps avoid overlapping shifts | four shifts | violated |
| `payroll_closes` | what can be paid twice, change or lose its source after it was paid, or stay unpaid; does every close end | two administrators, two employees, two overlapping periods, a shift, a payout or two overtime entries, three connections | holds; 316 580 states |
| `services` | the properties of the seven smaller modules | see below | holds; 1 450 033 states |

The bounds are enough for the interesting cases: two sessions conflict on a
request, on an employee and in a lock cycle; two payouts and a leave can
together exceed what each fits into; two years show a payout that moves
between accounts and a leave that crosses New Year; day 1 of a year and its
last day are on both sides of `payoutBalanceAsOf`. An hour has two minutes
there so that a forgotten conversion is seen, and an integer has four bits, so
that a payout of four hours is one minute too long for it. `FieldIds` bounds the field rows
ever inserted, `MaxMessages` the messages, `LastDay` the clock. A buffer of
one or two fills as one of 256 does. The shifts of
`swap_exchange` have begun at time 1, when a request with an expiry has lapsed;
`Expiries` bounds the expiries asked for. Requests in both directions meet in
opposite roles, which the unique indexes do not see.

In `payroll_closes` the periods are day 1 (closed for everybody on call) and
days 1 and 2 (closed for one employee, who goes from an on-call to a permanent
contract on day 2), so that closes with different dates and groups meet on the
same work; `PeriodIds` lets three periods be closed. One shift or one payout at a time
suffices because what is paid is a matter of one item; of overtime there are two
entries, due in both periods, so that two closes can each hold one and want the
other, when both lock and when one of them already writes. `Edited` and `Shifts`
bound the rows that are edited meanwhile and what a shift is changed to.

`Services` takes a step of one of its seven components at a time. They share
neither state nor rows, so the run `services` exercises one at a time, chosen in
the initial state by `component`; the others stay as they are, and their states
add up instead of multiplying. The theorems are about `Services` itself, where
all seven run at once. Two sessions each: handbooks with two template versions, two steps
and two handbooks of one employee; the limiter with one failure allowed, a
window and a session of one tick; one location with two slots for shifts;
shifts around a weekend, a holiday and midnight, on and off the grid of
minutes, with an hour of one minute; the years 1999 to 2040, 53-week years and
a leap century among them; one worker, two users, two notifications, one ticket
and two connections; three contracts and three salaries within four days, which
may begin on days 1, 2 and 4 and be agreed to end on day 2, with one edit or
raise (`MaxEdits`), so that a successor may begin on the day after the first
day, or later, before an earlier successor or after it. The first contract and
the first salary begin on day 1 without an end; each may be missing.

### What the violated runs show

* `ledger_race`: an admin's edit of an approved payout takes no employee lock,
  so it can land between another approval's sums and its commit.
* `sign_stuck`: two recipients who sign at the same time count each other as
  unsigned and the document stays `partially_signed` for good.
* `swap_overlap`: two swaps that give an employee overlapping shifts count
  overlaps before either commits.

Other places where the code is exposed are stated as the exact boundary of
what holds. An account is overdrawn behind the balance check only by edits that
have none, or by a grant whose minutes wrap around (`NoOverdraft`). The signed
file is rendered from committed rows, so of those it names in a signature field
it lacks the signature being committed and never another
(`FileMissesAtMostOne`); it has no trace of recipients without one. Shutdown ends
the hub unless its close frame meets one of writePump's: then it may end the
process instead (`ShutdownStops`). Two
requests that name one shift in opposite roles can both pass the trigger and
become active, but the trigger runs again when a recipient accepts, so at most
one of them can be approved (`OneApprovable`). Work is paid twice only by
closes of which neither could see the other (`PaidAgainOnlyInARace`); a paid
period's payout is open only if a racing close took it (`PayoutsSettled`). A
handbook with every step done is open, and a finished one changes, only if two
calls held it at once (`AllDoneMeansFinished`, `FinishedStaysFinished`). The
limiter is passed by at most one failure per further request in flight
(`FailuresBounded`). The last line of a shift whose end is off its start's grid
of minutes is lost (`LinesCoverShift`). A contract loses its salary on days it is in force only
where a change gave days back: a second successor that starts later than the
first, at once or long after, puts the end of the contract back but finds its
salary already ended (`ContractsPaid`).

### Fairness

* Ledger: an open transaction's next statement runs (weak), a contended lock is
  granted to every waiter in turn (strong: PostgreSQL queues lock requests),
  the deadlock detector runs. No client has to call anything.
* Signing: a served call runs on, and locks and connections are queued
  (strong).
* Hub: its goroutine runs; Go's `select` picks uniformly among ready cases, so
  a case that is ready again and again is taken (strong, for `BeginClosing`
  and `Unregister`). `ShutdownStops` assumes nothing of the clients. The pumps
  run, and a read from a closed connection fails. A closed connection is
  needed for that: a silent peer is cut by the read deadline, which is
  `ReadFails` at any time.
* Payroll: a close that was begun goes on; the row locks and the connections it
  waits for are queued (strong, for `CloseStep`); the deadlock detector runs
  (weak, for the `DeadlockVictim` of any session).
* Locations: a request that was begun runs on (weak, for `Proceed`: it waits
  for nobody), and the cached page's time to live passes (weak, for `Expire`).

`CallsReturn` and `ClosesEnd` need one connection more than there are
concurrent calls. With as many connections as calls they fail: a second click
on Sign waits in the unique index for the first, which waits for a connection to
render the file; closes that hold every connection each wait for another one.

## Proofs

Every theorem is proved for all values of the constants, from the named
assumptions on them (`PopulationAssumption`, `CalendarAssumption` and
`AccrualAssumption` of the ledger, `SigningAssumption`, `HubAssumption`,
`SwapAssumption`, `PayrollAssumption`, `ServicesAssumption`, and
`LinesAssumption` and `YearsAssumption`, which are hypotheses of the theorems).
They say what kind of set each constant is, that `None` is none of the values it
stands in for, and of the ledger's contracts that they never accrue less as time
passes. Each `TypeCorrect` is `Spec => []TypeOK` (`[]ServicesTypeOK`).

| Module | Theorems | Inductive invariant |
|---|---|---|
| `LeaveLedgerProofs` | `TypeCorrect`, `LocksCorrect`, `ReadsCorrect`, `OverdraftFree`, `DecisionsStay`, `AccountsImplemented` | `TypeOK`, `LocksExclusive`, `ReadsFresh`, `ChecksUnwrapped`, `NoOverdraft` |
| `SignDocumentProofs` | `TypeCorrect`, `OrderKept`, `CompletedRight`, `FileRight`, `CeremonyImplemented` | `TypeOK`, `CallsOK`, `OneCommit`, `RowsOK`, the three properties; `SignersAlone` for the refinement |
| `WsHubProofs` | `TypeCorrect`, `HubNeverPanics`, `ReceivedWithoutGaps`, `RegisteredUpToDate` | `TypeOK`, `DropsOK`, `FreshOK`, `MessageOK`, `StreamsOK` |
| `ShiftSwapProofs` | `TypeCorrect`, `OneRequestApprovable`, `SwapsDoNotDeadlock`, `ExchangeImplemented` | `TypeOK`, `SessionsOK`, `LocksOK`, `NamedOK`, `OneApprovable` |
| `PayrollCloseProofs` | `TypeCorrect`, `PaidOnceUnlessRaced`, `OvertimePaidAsLocked`, `SourcesStay`, `PaidPeriodsSettled` | `TypeOK`, `SessionsOK`, `LockedOK`, `HandOK`, `PeriodOK` |
| `PayrollLinesProofs` | `TypeCorrect`, `ShiftsCovered` | `TypeOK`, `Walk` |
| `PayrollCalendarProofs` | `TypeCorrect`, `YearsPartitioned` | `TypeOK`, `OptionsSoFar` |
| `ServicesProofs` | `TypeCorrect` and, of the handbooks, `CompletedHandbooksDone`, `DoneHandbooksFinished`, `FinishedHandbooksStay` | `HandbookInv` |
| | of the limiter, `FailuresStop` | `AuthInv` |
| | of tickets and notifications, `PushesAddressed` | `NoticeInv` |
| | of the contracts, `ContractsKeepTheirSalary` | `ContractInv` |
| | of lines and calendar, `ShiftsCovered`, `YearsPartitioned` | those of the two modules above |

**Ledger.** `NoOverdraft` is not inductive: a commit relies on sums computed
several steps earlier. `LocksExclusive` says that nobody else works on the
request or the employee; with it, `ReadsFresh` says that what a transaction has
read so far is on the safe side of the truth: its total is at most the cap (time
only raises the cap of an unchanged contract), its used minutes at least what is
used (others may only lower it, or they waive the account), and its reserved
minutes include the request it approves. `ChecksUnwrapped` adds that an account that is
not waived was not overdrawn when a payout's use was read, so that the int32
difference of the sums is exact; only the payout's own minutes can wrap. A commit
that passes `Sufficient` then cannot exceed the cap. Sums are cardinalities (`LedgerSums`), so that what the
proof needs of a sum follows from facts about finite sets, without induction
over a recursive sum. The refinement needs more of a commit than a bound: it
charges its own account by exactly its minutes and no other one
(`CommitCharges`), every other step leaves what is charged as it is
(`QuietCharges`), gives back (`DropCharges`) or only changes caps
(`EntitleCharges`).

**Signing.** `CallsOK` says what each program counter has established, above
all that those in front had signed once the order was checked, which no later
step undoes; `OneCommit` that only one transaction is past the document's row
lock; `RowsOK` that the signatures are those of the recipients marked as signed.
The refinement also needs that nobody signs twice. That is `SignersAlone`: a
transaction past its insert holds a recipient who has not signed, and no other
transaction is past its insert for the same one. A commit then is one `Sign` of
the ceremony, of a recipient whose turn it is, on an open document.

**Hub.** `DropsOK` ties the registry to the number of times a channel was
closed, `StreamsOK` what a connection has received, holds in its buffer and is
still to get to the messages the hub took, `FreshOK` and `MessageOK` cover a
client before its first message and the message being handed out.

**Swaps.** A transaction waits only for a schedule of a higher id than those it
holds (`SessionsOK`), and there are finitely many ids: in any set of waiting
sessions, whoever waits for the highest id waits for a transaction that waits
for none.
The refinement maps a request to the exchange it names; a step that is not a
swap is an assignment by the planner or a stutter.

**Payroll.** `LockedOK` says that overtime a close has locked stays approved and
unpaid; `HandOK` that the lines it has in hand are on no period it saw, and that
those of locked overtime are still exact, and that a row it has written is there
(so the foreign key holds at the commit); `PeriodOK` that everything on a period
is marked as paid, which is what keeps the handlers away from it.

**Lines and calendar.** `Walk` is the loop invariant: the lines so far follow
on one another and are uniform, the open line is uniform up to the current
minute, and a shift of whole minutes has not been overrun. `OptionsSoFar`
says how many periods there are and where each begins. That an ISO year has 52
or 53 weeks is proved from the calendar's arithmetic, for every year.
`ServicesProofs` cites both through instances of their proof modules
(`LinesBridge`, `CalendarBridge`).

**Handbooks.** `CountsHold` carries what a call counted over to its commit: that
nothing remained, which other calls cannot undo, and without a race that
something did. `HeldAlone` is what "without a race" gives: a handbook that is
not `raced` is active and held by one call at most, so nobody finished it since
that call read it. `StepsBelong` ties a handbook's steps to a template that is
not a draft any more, which is why only `edited` templates change what is
required.

**Limiter.** A counter may be checked by every request before any of them counts
its failure. `FailuresAhead` therefore counts a failure as soon as it is on its
way: the failures counted and the requests let through but not yet counted are
together less than the limit plus the number of requests. A request joins them
only while the counter is below the limit, and moves from one to the other when
it counts.

**Tickets and notifications.** `TicketsExpire` and `TicketsSpent` say that a
ticket lives no longer than its token and is gone once a connection came of it;
`PushesStored` that a worker pushes only what it stored.

**Contracts.** `AllPaid` gives each contract that had a salary of its own from
the start one that runs until it was first cut off or longer (`Pays`). A
commit ends only the salary it looked up: `ChangeSound` keeps that one with the
contract it ends or with none, and that contract among those made and before the
change's own start, for which the edit of a contract whose row is held must wait.

Only model-checked: liveness (`TransactionsEnd`, `CallsReturn`, `ClosesEnd`,
`ShutdownStops`, `ClosedClientsLeave`, `DroppedClientsDisconnect`,
`ListCatchesUp`), which is out of the prover's reach. Every other property of a
run that holds is a theorem.

## Not modelled

* Expenses, performance reviews, training and late arrivals: each call writes
  rows it has locked, or is one statement, and no other component depends on
  them. Departments, qualifications, settings, bug reports, attachments and
  signature profiles are single statements.
* Roles and permissions: a caller is assumed to hold the role its route demands.
* Schedule generation: a constraint problem handed to an external solver.
* How many minutes a leave request asks for (holidays, weekends, times of day),
  and amounts of money: the models take any positive number.
* Audit logs, notifications' texts, the read-only listings, exports and
  dashboards, the HTTP layer, generated code, storage, PDF, email.
* Anomalies within one SQL statement, a commit whose outcome the caller does
  not learn, panics other than those of the hub, and PostgreSQL's own correctness. Deleting an employee
  cascades to the requests; no route does so.

## What is left

The requested minutes of a leave request as operators over holidays, weekends
and times, checked against a reference definition. Every safety property and
refinement of the runs is proved; of the locations there is only a type
invariant to prove, since what matters there, `ListCatchesUp`, is liveness.
