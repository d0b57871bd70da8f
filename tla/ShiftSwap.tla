----------------------------- MODULE ShiftSwap -----------------------------
(***************************************************************************)
(* Swapping shifts: the tables schedules and shift_swap_requests, the      *)
(* handlers of internal/service/schedule_shift_swap.go, and the handlers   *)
(* of schedule_service.go that change the same schedules meanwhile.        *)
(*                                                                         *)
(* A session runs one SQL statement per step.  An employee's request is    *)
(* validated on the connection pool and inserted by a statement of its     *)
(* own; an administrator's approval, or a swap an administrator imposes,   *)
(* is one transaction that locks rows, checks, writes and commits.  The    *)
(* database runs READ COMMITTED: a transaction's writes show when it       *)
(* commits.  The audit log (schedule_history), which no handler reads, is  *)
(* left out.                                                               *)
(***************************************************************************)
EXTENDS Integers, FiniteSets, FiniteSetsExt

CONSTANTS
  Employees,
  ScheduleIds,   \* bound: schedule rows ever inserted; ids in uuid order
  SwapIds,       \* bound: swap requests ever inserted
  Sessions,      \* handlers running at the same time
  Handlers,      \* bound: the handlers that are called
  InitialRota,   \* the rows of schedules to begin with
  Slots,         \* start and end of a shift
  Proposals,     \* the parties and shifts a swap request may name
  MaxTime,       \* bound: the clock stops here
  Expiries,      \* bound: the expires_at a request may ask for; MaxTime + 1: none
  None           \* no value

Never == MaxTime + 1  \* expires_at IS NULL: later than any time
Times == 0..MaxTime

Terms == [requester : Employees, recipient : Employees,
          requesterSchedule : ScheduleIds, recipientSchedule : ScheduleIds]

LiveRows == [state : {"live"}, employee : Employees, slot : Slots]
NoRow(state) == [state |-> state, employee |-> None, slot |-> None]
Rows == LiveRows \cup {NoRow("unused"), NoRow("deleted")}

HandlerNames == {"create", "admin create", "respond", "approve", "reject",
                 "create schedule", "update schedule", "delete schedule"}

\* The handlers refuse a swap with oneself or of a schedule with itself
\* (schedule_shift_swap.go:31 and 124) before they read anything.
ASSUME SwapAssumption ==
  /\ ScheduleIds \subseteq Int
  /\ IsFiniteSet(ScheduleIds)
  /\ Handlers \subseteq HandlerNames
  /\ InitialRota \in [ScheduleIds -> Rows]
  /\ Slots \subseteq [start : Int, end : Int]
  /\ \A slot \in Slots : slot.start < slot.end
  /\ Proposals \subseteq Terms
  /\ \A p \in Proposals : /\ p.requester # p.recipient
                          /\ p.requesterSchedule # p.recipientSchedule
  /\ MaxTime \in Nat
  /\ Expiries \subseteq 0..(MaxTime + 1)
  /\ None \notin Employees /\ None \notin Sessions /\ None \notin SwapIds
  /\ None \notin Slots /\ None \notin Proposals

VARIABLES
  schedules,     \* rows of schedules
  swaps,         \* rows of shift_swap_requests
  scheduleLock,  \* the transaction that holds a row FOR UPDATE
  swapLock,
  pc,            \* the statement each session runs next
  work,          \* what its handler has in hand
  clock

vars == <<schedules, swaps, scheduleLock, swapLock, pc, work, clock>>

tables == <<schedules, swaps>>
locks == <<scheduleLock, swapLock>>

-----------------------------------------------------------------------------
(* Rows *)

SwapStatus == {"unused", "pending_recipient", "pending_admin", "confirmed",
               "recipient_rejected", "admin_rejected", "expired", "deleted"}

ActiveStatus == {"pending_recipient", "pending_admin"}

SwapRows == [status : SwapStatus, terms : Proposals \cup {None},
             expires : Times \cup {Never}]

NoSwap == [status |-> "unused", terms |-> None, expires |-> Never]

Pair(p) == {p.requesterSchedule, p.recipientSchedule}

Active(w) == swaps[w].status \in ActiveStatus
Lapsed(w) == swaps[w].expires <= clock

Overlaps(slot, other) == slot.start < other.end /\ slot.end > other.start

\* CountScheduleOverlapsForEmployee is not zero.
Overlapping(e, excluded, slot) ==
  \E sc \in ScheduleIds \ excluded :
    /\ schedules[sc].state = "live"
    /\ schedules[sc].employee = e
    /\ Overlaps(schedules[sc].slot, slot)

\* A schedule row as GetScheduleForSwapValidation finds it, held by e and not
\* begun at the given time.
Swappable(row, e, now) ==
  /\ row.state = "live"
  /\ row.employee = e
  /\ row.slot.start >= now

\* The trigger on shift_swap_requests finds another committed active request
\* for one of the schedules, in either role.
TakenElsewhere(p, self) ==
  \E w \in SwapIds \ self : Active(w) /\ Pair(swaps[w].terms) \cap Pair(p) # {}

\* The two unique indexes: one active request per requester schedule, and one
\* per recipient schedule.
SameRole(p, q) ==
  \/ p.requesterSchedule = q.requesterSchedule
  \/ p.recipientSchedule = q.recipientSchedule

UniqueViolation(p) == \E w \in SwapIds : Active(w) /\ SameRole(p, swaps[w].terms)

-----------------------------------------------------------------------------
(* Sessions *)

PCs == {"idle", "reading", "expiring", "checking", "inserting", "committing",
        "locking", "decided", "updating", "deleting"}

Work == [swap : SwapIds \cup {None}, terms : Proposals \cup {None},
         schedule : ScheduleIds \cup {None}, row : Rows \cup {None},
         time : Nat \cup {None}]

Blank == [swap |-> None, terms |-> None, schedule |-> None, row |-> None,
          time |-> None]

Init ==
  /\ schedules = InitialRota
  /\ swaps = [w \in SwapIds |-> NoSwap]
  /\ scheduleLock = [sc \in ScheduleIds |-> None]
  /\ swapLock = [w \in SwapIds |-> None]
  /\ pc = [s \in Sessions |-> "idle"]
  /\ work = [s \in Sessions |-> Blank]
  /\ clock = 0

Start(s, handler, next, job) ==
  /\ handler \in Handlers
  /\ pc[s] = "idle"
  /\ pc' = [pc EXCEPT ![s] = next]
  /\ work' = [work EXCEPT ![s] = job]

Step(s, from, to) ==
  /\ pc[s] = from
  /\ pc' = [pc EXCEPT ![s] = to]

Free(sc, s) == scheduleLock[sc] \in {None, s}

\* COMMIT, ROLLBACK, or the return of a handler: every row lock goes.
End(s) ==
  /\ pc' = [pc EXCEPT ![s] = "idle"]
  /\ work' = [work EXCEPT ![s] = Blank]
  /\ scheduleLock' = [sc \in ScheduleIds |->
                        IF scheduleLock[sc] = s THEN None ELSE scheduleLock[sc]]
  /\ swapLock' = [w \in SwapIds |->
                    IF swapLock[w] = s THEN None ELSE swapLock[w]]

-----------------------------------------------------------------------------
(* CreateShiftSwapRequest: an employee proposes a swap *)

\* Reads the requester's schedule.
CreateShiftSwapRequest(s, p, expires) ==
  /\ expires > clock
  /\ schedules[p.requesterSchedule].state = "live"
  /\ Start(s, "create", "reading",
           [Blank EXCEPT !.terms = p, !.time = expires,
                         !.row = schedules[p.requesterSchedule]])
  /\ UNCHANGED <<tables, locks, clock>>

\* Reads the recipient's schedule; both must be in the future and held by the
\* two parties.
ReadRecipientSchedule(s) ==
  LET p == work[s].terms IN
  /\ pc[s] = "reading"
  /\ IF /\ Swappable(work[s].row, p.requester, clock)
        /\ Swappable(schedules[p.recipientSchedule], p.recipient, clock)
     THEN Step(s, "reading", "expiring") /\ UNCHANGED <<work, locks>>
     ELSE End(s)
  /\ UNCHANGED <<tables, clock>>

\* ExpirePendingShiftSwapRequests, which waits for the rows it changes; an
\* error is ignored.
ExpirePending(s) ==
  LET lapsed == {w \in SwapIds : Active(w) /\ Lapsed(w)} IN
  /\ Step(s, "expiring", "checking")
  /\ \/ /\ \A w \in lapsed : swapLock[w] = None
        /\ swaps' = [w \in SwapIds |-> IF w \in lapsed
                                       THEN [swaps[w] EXCEPT !.status = "expired"]
                                       ELSE swaps[w]]
     \/ UNCHANGED swaps
  /\ UNCHANGED <<schedules, work, locks, clock>>

\* INSERT: first the trigger looks for active requests that are committed ...
CheckActiveSwaps(s) ==
  /\ pc[s] = "checking"
  /\ IF TakenElsewhere(work[s].terms, {})
     THEN End(s)
     ELSE Step(s, "checking", "inserting") /\ UNCHANGED <<work, locks>>
  /\ UNCHANGED <<tables, clock>>

\* Another transaction has put the same schedule into the same role and has
\* not committed: an imposed swap has no row of its own to lock.
IndexBusy(s) ==
  \E t \in Sessions \ {s} :
    /\ \/ pc[t] = "committing"
       \/ pc[t] = "decided" /\ work[t].swap = None
    /\ SameRole(work[t].terms, work[s].terms)

\* ... then the row goes into the unique indexes ...
InsertShiftSwap(s) ==
  /\ pc[s] = "inserting"
  /\ ~IndexBusy(s)
  /\ IF UniqueViolation(work[s].terms)
     THEN End(s)
     ELSE Step(s, "inserting", "committing") /\ UNCHANGED <<work, locks>>
  /\ UNCHANGED <<tables, clock>>

\* ... and the foreign keys lock both schedules, which must still be there.
CommitShiftSwap(s) ==
  LET p == work[s].terms IN
  /\ pc[s] = "committing"
  /\ \A sc \in Pair(p) : Free(sc, s)
  /\ IF \A sc \in Pair(p) : schedules[sc].state = "live"
     THEN \E w \in SwapIds :
            /\ swaps[w] = NoSwap
            /\ swaps' = [swaps EXCEPT ![w] =
                 [status |-> "pending_recipient", terms |-> p,
                  expires |-> work[s].time]]
     ELSE UNCHANGED swaps
  /\ End(s)
  /\ UNCHANGED <<schedules, clock>>

-----------------------------------------------------------------------------
(* RespondToShiftSwapRequest and AdminDecisionShiftSwapRequest(reject): one  *)
(* guarded UPDATE each, which waits for the row; a refused call changes      *)
(* nothing                                                                   *)

\* Mutant: the trigger runs on INSERT only.
RespondUntriggered(w, accept) ==
  /\ "respond" \in Handlers
  /\ swapLock[w] = None
  /\ swaps[w].status = "pending_recipient"
  /\ ~Lapsed(w)
  /\ swaps' = [swaps EXCEPT ![w].status =
                 IF accept THEN "pending_admin" ELSE "recipient_rejected"]
  /\ UNCHANGED <<schedules, locks, pc, work, clock>>

\* Only the recipient's own call finds the row.  The trigger runs again when
\* the request stays active.
Respond(w, accept) ==
  /\ "respond" \in Handlers
  /\ swapLock[w] = None
  /\ swaps[w].status = "pending_recipient"
  /\ ~Lapsed(w)
  /\ accept => ~TakenElsewhere(swaps[w].terms, {w})
  /\ swaps' = [swaps EXCEPT ![w].status =
                 IF accept THEN "pending_admin" ELSE "recipient_rejected"]
  /\ UNCHANGED <<schedules, locks, pc, work, clock>>

Reject(w) ==
  /\ "reject" \in Handlers
  /\ swapLock[w] = None
  /\ swaps[w].status = "pending_admin"
  /\ ~Lapsed(w)
  /\ swaps' = [swaps EXCEPT ![w].status = "admin_rejected"]
  /\ UNCHANGED <<schedules, locks, pc, work, clock>>

-----------------------------------------------------------------------------
(* The two swapping transactions: approval and imposed swap *)

\* AdminDecisionShiftSwapRequest(approve) begins by locking the request; a
\* request in another status, or lapsed, ends the transaction at once.
ApproveShiftSwap(s, w) ==
  /\ swapLock[w] = None
  /\ swaps[w].status = "pending_admin"
  /\ ~Lapsed(w)
  /\ Start(s, "approve", "locking",
           [Blank EXCEPT !.swap = w, !.terms = swaps[w].terms])
  /\ swapLock' = [swapLock EXCEPT ![w] = s]
  /\ UNCHANGED <<tables, scheduleLock, clock>>

\* CreateAdminShiftSwapRequest takes the time before its transaction.  Nobody
\* can name a schedule that has not been given its id yet.
CreateAdminShiftSwapRequest(s, p) ==
  /\ \A sc \in Pair(p) : schedules[sc].state # "unused"
  /\ Start(s, "admin create", "locking",
           [Blank EXCEPT !.terms = p, !.time = clock])
  /\ UNCHANGED <<tables, locks, clock>>

\* Mutant: without FOR UPDATE.
LockNothing(s) == {}

\* SELECT ... ORDER BY id FOR UPDATE: a row deleted meanwhile is skipped.
ToLock(s) == {sc \in Pair(work[s].terms) :
                schedules[sc].state = "live" /\ scheduleLock[sc] # s}

\* Mutant: without ORDER BY, in the order of the arguments.
NextAsGiven(s) ==
  IF work[s].terms.requesterSchedule \in ToLock(s)
  THEN work[s].terms.requesterSchedule
  ELSE work[s].terms.recipientSchedule

NextToLock(s) == Min(ToLock(s))

LockSchedulesByIDsForSwap(s) ==
  /\ pc[s] = "locking"
  /\ ToLock(s) # {}
  /\ scheduleLock[NextToLock(s)] = None
  /\ scheduleLock' = [scheduleLock EXCEPT ![NextToLock(s)] = s]
  /\ UNCHANGED <<tables, swapLock, pc, work, clock>>

\* Mutant: nobody checks who holds the schedules now.
SwapAllowedToAnybody(p, now) ==
  LET mine == schedules[p.requesterSchedule]
      theirs == schedules[p.recipientSchedule] IN
  /\ mine.state = "live" /\ theirs.state = "live"
  /\ mine.slot.start >= now /\ theirs.slot.start >= now
  /\ ~Overlapping(p.requester, Pair(p), theirs.slot)
  /\ ~Overlapping(p.recipient, Pair(p), mine.slot)

\* Two rows, held by the parties, not begun, and no overlap with their other
\* shifts.
SwapAllowed(p, now) ==
  LET mine == schedules[p.requesterSchedule]
      theirs == schedules[p.recipientSchedule] IN
  /\ Swappable(mine, p.requester, now)
  /\ Swappable(theirs, p.recipient, now)
  /\ ~Overlapping(p.requester, Pair(p), theirs.slot)
  /\ ~Overlapping(p.recipient, Pair(p), mine.slot)

\* The checks under the locks.  An imposed swap also inserts its request here,
\* past the trigger and the unique indexes.
ValidateSwap(s) ==
  LET p == work[s].terms
      imposed == work[s].swap = None
      now == IF imposed THEN work[s].time ELSE clock IN
  /\ pc[s] = "locking"
  /\ ToLock(s) = {}
  /\ imposed => ~IndexBusy(s)
  /\ IF /\ SwapAllowed(p, now)
        /\ imposed => ~TakenElsewhere(p, {}) /\ ~UniqueViolation(p)
     THEN Step(s, "locking", "decided") /\ UNCHANGED <<work, locks>>
     ELSE End(s)
  /\ UNCHANGED <<tables, clock>>

\* The writes and COMMIT: both schedules change hands, the request is
\* confirmed.  The request of an imposed swap is only seen confirmed.
CommitSwap(s) ==
  LET p == work[s].terms IN
  /\ pc[s] = "decided"
  /\ schedules' = [schedules EXCEPT ![p.requesterSchedule].employee = p.recipient,
                                    ![p.recipientSchedule].employee = p.requester]
  /\ \/ /\ work[s].swap # None
        /\ swaps[work[s].swap].status = "pending_admin"
        /\ swaps' = [swaps EXCEPT ![work[s].swap].status = "confirmed"]
     \/ /\ work[s].swap = None
        /\ \E w \in SwapIds :
             /\ swaps[w] = NoSwap
             /\ swaps' = [swaps EXCEPT ![w] =
                  [status |-> "confirmed", terms |-> p, expires |-> Never]]
  /\ End(s)
  /\ UNCHANGED clock

-----------------------------------------------------------------------------
(* The rota: CreateSchedule, UpdateSchedule, DeleteSchedule *)

\* One row of the batch; each is inserted by a statement of its own, without
\* an overlap check.
CreateSchedule(sc, e, slot) ==
  /\ "create schedule" \in Handlers
  /\ schedules[sc].state = "unused"
  /\ schedules' = [schedules EXCEPT ![sc] =
                     [state |-> "live", employee |-> e, slot |-> slot]]
  /\ UNCHANGED <<swaps, locks, pc, work, clock>>

\* Mutant: columns the request leaves out are not filled in.
UpdateUnfilled(s, sc, e, slot) ==
  /\ schedules[sc].state = "live"
  /\ Start(s, "update schedule", "updating",
           [Blank EXCEPT !.schedule = sc,
              !.row = [state |-> "live", employee |-> e, slot |-> slot]])
  /\ UNCHANGED <<tables, locks, clock>>

\* Reads the row; columns the request leaves out (None) keep the value read.
UpdateSchedule(s, sc, e, slot) ==
  LET read == schedules[sc] IN
  /\ read.state = "live"
  /\ Start(s, "update schedule", "updating",
           [Blank EXCEPT !.schedule = sc,
              !.row = [state |-> "live",
                       employee |-> IF e = None THEN read.employee ELSE e,
                       slot |-> IF slot = None THEN read.slot ELSE slot]])
  /\ UNCHANGED <<tables, locks, clock>>

\* The UPDATE writes every column; it waits for the row, and finds none when
\* the schedule is gone.
WriteSchedule(s) ==
  LET sc == work[s].schedule IN
  /\ pc[s] = "updating"
  /\ Free(sc, s)
  /\ schedules' = IF schedules[sc].state = "live"
                  THEN [schedules EXCEPT ![sc] = work[s].row]
                  ELSE schedules
  /\ End(s)
  /\ UNCHANGED <<swaps, clock>>

\* DELETE locks the row ...
DeleteSchedule(s, sc) ==
  /\ schedules[sc].state = "live"
  /\ scheduleLock[sc] = None
  /\ Start(s, "delete schedule", "deleting", [Blank EXCEPT !.schedule = sc])
  /\ scheduleLock' = [scheduleLock EXCEPT ![sc] = s]
  /\ UNCHANGED <<tables, swapLock, clock>>

\* ... and ON DELETE CASCADE waits for the requests that name it, whatever
\* their status.  A deleted request keeps its columns; nobody reads them.
CascadeDelete(s) ==
  LET sc == work[s].schedule
      named == {w \in SwapIds : /\ swaps[w].status \notin {"unused", "deleted"}
                                /\ sc \in Pair(swaps[w].terms)} IN
  /\ pc[s] = "deleting"
  /\ \A w \in named : swapLock[w] = None
  /\ schedules' = [schedules EXCEPT ![sc] = NoRow("deleted")]
  /\ swaps' = [w \in SwapIds |-> IF w \in named
                                 THEN [swaps[w] EXCEPT !.status = "deleted"]
                                 ELSE swaps[w]]
  /\ End(s)
  /\ UNCHANGED clock

-----------------------------------------------------------------------------

\* An error, a lost connection, or the database breaking a deadlock.
Fail(s) == pc[s] # "idle" /\ End(s) /\ UNCHANGED <<tables, clock>>

Tick == clock < MaxTime /\ clock' = clock + 1 /\ UNCHANGED <<tables, locks, pc, work>>

Next ==
  \/ \E s \in Sessions :
       \/ \E p \in Proposals : CreateAdminShiftSwapRequest(s, p)
       \/ \E p \in Proposals, expires \in Expiries :
            CreateShiftSwapRequest(s, p, expires)
       \/ ReadRecipientSchedule(s) \/ ExpirePending(s) \/ CheckActiveSwaps(s)
       \/ InsertShiftSwap(s) \/ CommitShiftSwap(s)
       \/ \E w \in SwapIds : ApproveShiftSwap(s, w)
       \/ LockSchedulesByIDsForSwap(s) \/ ValidateSwap(s) \/ CommitSwap(s)
       \/ \E sc \in ScheduleIds, e \in Employees \cup {None},
             slot \in Slots \cup {None} : UpdateSchedule(s, sc, e, slot)
       \/ WriteSchedule(s)
       \/ \E sc \in ScheduleIds : DeleteSchedule(s, sc)
       \/ CascadeDelete(s) \/ Fail(s)
  \/ \E w \in SwapIds : Reject(w) \/ \E accept \in BOOLEAN : Respond(w, accept)
  \/ \E sc \in ScheduleIds, e \in Employees, slot \in Slots :
       CreateSchedule(sc, e, slot)
  \/ Tick

Spec == Init /\ [][Next]_vars

-----------------------------------------------------------------------------
(* Properties *)

\* The tables and the sessions hold values of their types.
TypeOK ==
  /\ schedules \in [ScheduleIds -> Rows]
  /\ swaps \in [SwapIds -> SwapRows]
  /\ scheduleLock \in [ScheduleIds -> Sessions \cup {None}]
  /\ swapLock \in [SwapIds -> Sessions \cup {None}]
  /\ pc \in [Sessions -> PCs]
  /\ work \in [Sessions -> Work]
  /\ clock \in Times

\* A schedule never has two requests an administrator could approve, although
\* two requests for it can be pending at the same time: the trigger runs again
\* when a recipient accepts.
OneApprovable ==
  \A v, w \in SwapIds :
    /\ v # w
    /\ swaps[v].status = "pending_admin"
    /\ swaps[w].status = "pending_admin"
    => Pair(swaps[v].terms) \cap Pair(swaps[w].terms) = {}

WaitsFor(s, t) ==
  /\ pc[s] = "locking"
  /\ ToLock(s) # {}
  /\ scheduleLock[NextToLock(s)] = t

\* Approvals and imposed swaps never wait for each other in a circle: they take
\* their schedules in the order of the ids.
SwapsNeverDeadlock ==
  \A S \in (SUBSET Sessions) \ {{}} :
    \E s \in S : \A t \in S : ~WaitsFor(s, t)

\* ErrShiftSwapConflict: a swap never gives an employee a shift that overlaps
\* another shift of theirs.
SwapsAvoidOverlaps ==
  [][\A w \in SwapIds :
       swaps'[w].status = "confirmed" /\ swaps[w].status # "confirmed" =>
         LET p == swaps'[w].terms IN
         /\ ~Overlapping(p.requester, Pair(p), schedules[p.recipientSchedule].slot)
         /\ ~Overlapping(p.recipient, Pair(p), schedules[p.requesterSchedule].slot)
    ]_vars

DealOf(status) ==
  CASE status = "unused" -> "none"
    [] status = "pending_recipient" -> "proposed"
    [] status = "pending_admin" -> "agreed"
    [] status = "confirmed" -> "done"
    [] OTHER -> "closed"

Exchange == INSTANCE ShiftExchange WITH
  Shifts <- ScheduleIds, Deals <- SwapIds, Terms <- Proposals, Nobody <- None,
  holder <- [sc \in ScheduleIds |-> schedules[sc].employee],
  deal <- [w \in SwapIds |-> DealOf(swaps[w].status)],
  terms <- [w \in SwapIds |-> swaps[w].terms]

\* Shifts are traded as ShiftExchange promises: both in one step, between the
\* employees who hold them, by agreement or by an administrator, and at most
\* once per request.
ImplementsExchange == Exchange!Spec
=============================================================================
