------------------------------- MODULE Services -------------------------------
(***************************************************************************)
(* The small components side by side.  They share the process and its      *)
(* requests, and no state: a step of one leaves the others alone.          *)
(***************************************************************************)
EXTENDS Integers, Sequences, FiniteSets

CONSTANTS
  None,            \* no value
  Callers,         \* bound: requests served at the same time
  LastTick,        \* bound on the clocks
  \* Handbook
  Editors, Employees, Templates, Steps, HandbookIds, InitialDrafts,
  \* Locations
  LocationIds, Names, MaxSlot, DefaultSlots,
  \* Auth
  Users, Ips, SessionIds, MaxFailures, Window, Lifetime,
  \* PayrollLines and PayrollCalendar
  Items, HourMinutes, Years,
  \* Notifications
  Workers, Recipients, NoticeIds, TicketIds, Connections, Ttl,
  \* Contracts
  LastDay, Starts, Ends, MaxContracts, MaxSalaries, MaxEdits

VARIABLES
  templates, steps, handbooks, progress, sessionPc, call,
  location, shifts, cache, callerPc, hand,
  clock, attempts, sessions, factor, requestPc, req,
  item, walkPc, current, segmentStart, segmentRate, segmentDay, segments,
  year, weekOffset, options, calendarPc,
  wsClock, notices, workers, tickets, connections,
  contracts, salaries, changePc, change, edits, firstCut, unpaid

handbookVars == <<templates, steps, handbooks, progress, sessionPc, call>>
locationVars == <<location, shifts, cache, callerPc, hand>>
authVars == <<clock, attempts, sessions, factor, requestPc, req>>
lineVars == <<item, walkPc, current, segmentStart, segmentRate, segmentDay, segments>>
calendarVars == <<year, weekOffset, options, calendarPc>>
noticeVars == <<wsClock, notices, workers, tickets, connections>>
contractVars == <<contracts, salaries, changePc, change, edits, firstCut, unpaid>>
vars == <<handbookVars, locationVars, authVars, lineVars, calendarVars, noticeVars,
          contractVars>>

\* A constant or variable that is not named here is the one of the same name.
Handbooks == INSTANCE Handbook WITH Sessions <- Callers, pc <- sessionPc
Locations == INSTANCE Locations WITH pc <- callerPc
Auth == INSTANCE Auth WITH Requests <- Callers, pc <- requestPc
Lines == INSTANCE PayrollLines WITH pc <- walkPc
Calendar == INSTANCE PayrollCalendar WITH pc <- calendarPc
Notices == INSTANCE Notifications WITH Users <- Recipients, clock <- wsClock
Employments == INSTANCE Contracts WITH Sessions <- Callers, pc <- changePc

ASSUME ServicesAssumption ==
  /\ Handbooks!HandbookAssumption
  /\ Locations!LocationsAssumption
  /\ Auth!AuthAssumption
  /\ Lines!LinesAssumption
  /\ Calendar!YearsAssumption
  /\ Notices!NotificationsAssumption
  /\ Employments!ContractsAssumption

-----------------------------------------------------------------------------

Init ==
  /\ Handbooks!Init
  /\ Locations!Init
  /\ Auth!Init
  /\ Lines!Init
  /\ Calendar!Init
  /\ Notices!Init
  /\ Employments!Init

HandbookNext ==
  /\ Handbooks!Next
  /\ UNCHANGED <<locationVars, authVars, lineVars, calendarVars, noticeVars, contractVars>>

LocationNext ==
  /\ Locations!Next
  /\ UNCHANGED <<handbookVars, authVars, lineVars, calendarVars, noticeVars, contractVars>>

AuthNext ==
  /\ Auth!Next
  /\ UNCHANGED <<handbookVars, locationVars, lineVars, calendarVars, noticeVars, contractVars>>

LinesNext ==
  /\ Lines!Next
  /\ UNCHANGED <<handbookVars, locationVars, authVars, calendarVars, noticeVars, contractVars>>

CalendarNext ==
  /\ Calendar!Next
  /\ UNCHANGED <<handbookVars, locationVars, authVars, lineVars, noticeVars, contractVars>>

NotificationNext ==
  /\ Notices!Next
  /\ UNCHANGED <<handbookVars, locationVars, authVars, lineVars, calendarVars, contractVars>>

ContractNext ==
  /\ Employments!Next
  /\ UNCHANGED <<handbookVars, locationVars, authVars, lineVars, calendarVars, noticeVars>>

Next ==
  \/ HandbookNext \/ LocationNext \/ AuthNext
  \/ LinesNext \/ CalendarNext \/ NotificationNext \/ ContractNext

Spec == Init /\ [][Next]_vars /\ Locations!Fairness

-----------------------------------------------------------------------------
(* Properties, each of one component *)

\* Every component keeps its type.
ServicesTypeOK ==
  /\ Handbooks!TypeOK
  /\ Locations!TypeOK
  /\ Auth!TypeOK
  /\ Lines!TypeOK
  /\ Calendar!TypeOK
  /\ Notices!TypeOK
  /\ Employments!TypeOK

\* A completed handbook has every required step done.
CompletedMeansDone == Handbooks!CompletedMeansDone

\* A handbook whose steps are all done is finished, but for a race.
AllDoneMeansFinished == Handbooks!AllDoneMeansFinished

\* A finished handbook stays finished, but for a race.
FinishedStaysFinished == Handbooks!FinishedStaysFinished

\* The list of locations is right in the end.
ListCatchesUp == Locations!ListCatchesUp

\* Failed attempts stop at the limit, but for the requests on their way.
FailuresBounded == Auth!FailuresBounded

\* The lines of a shift cover it.
LinesCoverShift == Lines!LinesCoverShift

\* The pay periods of a year partition it.
PeriodsPartitionYear == Calendar!PeriodsPartitionYear

\* A ticket opens one connection, which is shown its user's notifications only.
PushesReachTheirUser == Notices!PushesReachTheirUser

\* A contract that had a salary keeps it for as long as it is in force.
ContractsPaid == Employments!ContractsPaid
=============================================================================
