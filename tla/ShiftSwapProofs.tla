--------------------------- MODULE ShiftSwapProofs ---------------------------
(***************************************************************************)
(* What holds of shift swaps for any number of employees, schedules,       *)
(* requests and handlers.                                                  *)
(***************************************************************************)
EXTENDS ShiftSwap, FiniteSetTheorems, WellFoundedInduction, TLAPS

Creating == {"reading", "expiring", "checking", "inserting", "committing"}
Swapping == {"locking", "decided"}

Missing(s, p) == {sc \in Pair(p) : schedules[sc].state = "live" /\ scheduleLock[sc] # s}

\* What a session at statement q with job j has locked and checked.
SessionOK(s, q, j) ==
  /\ q \in PCs /\ j \in Work
  /\ q \in Creating \cup Swapping => j.terms \in Proposals
  /\ q \in Creating => j.time \in Times \cup {Never}
  /\ q = "updating" => j.schedule \in ScheduleIds /\ j.row \in LiveRows
  /\ q = "deleting" => j.schedule \in ScheduleIds /\ scheduleLock[j.schedule] = s
  /\ q \notin Swapping \cup {"deleting"} => \A sc \in ScheduleIds : scheduleLock[sc] # s
  /\ q \notin Swapping => \A w \in SwapIds : swapLock[w] # s
  /\ q \in Swapping => \A sc \in Pair(j.terms) : schedules[sc].state # "unused"
  /\ q \in Swapping /\ j.swap # None =>
       /\ swapLock[j.swap] = s
       /\ swaps[j.swap].status = "pending_admin"
       /\ swaps[j.swap].terms = j.terms
  /\ q = "locking" =>
       \A sc \in ScheduleIds : scheduleLock[sc] = s => \A x \in Missing(s, j.terms) : sc < x
  /\ q = "decided" =>
       /\ \A sc \in Pair(j.terms) :
            scheduleLock[sc] = s /\ schedules[sc].state = "live"
       /\ schedules[j.terms.requesterSchedule].employee = j.terms.requester
       /\ schedules[j.terms.recipientSchedule].employee = j.terms.recipient

SessionsOK == \A s \in Sessions : SessionOK(s, pc[s], work[s])

\* A request names schedules that exist, or did.
NamedOK ==
  \A w \in SwapIds : swaps[w].status # "unused" =>
    /\ swaps[w].terms \in Proposals
    /\ \A sc \in Pair(swaps[w].terms) : schedules[sc].state # "unused"

\* Only rows that are there, and requests that can be approved, are locked.
LocksOK ==
  /\ \A sc \in ScheduleIds : scheduleLock[sc] # None => schedules[sc].state = "live"
  /\ \A w \in SwapIds : swapLock[w] # None => swaps[w].status = "pending_admin"

IInv == TypeOK /\ SessionsOK /\ LocksOK /\ NamedOK /\ OneApprovable

-----------------------------------------------------------------------------
(* Values *)

LEMMA Terms1 ==
  ASSUME NEW p \in Proposals
  PROVE  /\ p.requester \in Employees /\ p.recipient \in Employees
         /\ p.requesterSchedule \in ScheduleIds /\ p.recipientSchedule \in ScheduleIds
         /\ p.requesterSchedule # p.recipientSchedule
         /\ Pair(p) = {p.requesterSchedule, p.recipientSchedule}
         /\ Pair(p) \subseteq ScheduleIds /\ p # None
BY SwapAssumption DEF Terms, Pair

LEMMA BlankJob == Blank \in Work
BY DEF Blank, Work

LEMMA RowTypes ==
  ASSUME NEW r \in Rows
  PROVE  /\ r.state \in {"live", "unused", "deleted"}
         /\ r.state = "live" <=> r \in LiveRows
         /\ r.state = "live" => r.employee \in Employees /\ r.slot \in Slots
         /\ r.state # "live" => r.employee = None
BY DEF Rows, LiveRows, NoRow

\* A finite set of integers has a least and a greatest element.
LEMMA Extremes ==
  ASSUME NEW N \in SUBSET Int, IsFiniteSet(N), N # {}
  PROVE  /\ \E x \in N : \A y \in N : x =< y
         /\ \E x \in N : \A y \in N : y =< x
<1> DEFINE Above(x) == {y \in N : x < y}
           Below(x) == {y \in N : y < x}
<1>1. IsWellFoundedOn(StrictSubsetOrdering(N), SUBSET N)
  BY FS_StrictSubsetOrderingWellFounded, FS_FiniteSubsetsOfFinite
<1>2. ASSUME NEW T \in SUBSET (SUBSET N), T # {}
      PROVE  \E U \in T : \A V \in T : ~(V \subseteq U /\ V # U)
  <2>1. PICK U \in T : \A V \in T : <<V, U>> \notin StrictSubsetOrdering(N)
    BY <1>1, <1>2, WFMin
  <2> QED BY <2>1 DEF StrictSubsetOrdering
<1>3. \E x \in N : \A y \in N : y =< x
  <2> DEFINE T == {Above(x) : x \in N}
  <2>1. T \in SUBSET (SUBSET N) /\ T # {} /\ \A x \in N : Above(x) \in T
    OBVIOUS
  <2>2. \A U \in T : \E x \in N : U = Above(x)
    OBVIOUS
  <2> HIDE DEF T
  <2>3. PICK U \in T : \A V \in T : ~(V \subseteq U /\ V # U)
    BY <1>2, <2>1
  <2>4. PICK x \in N : U = Above(x)
    BY <2>2
  <2> SUFFICES ASSUME NEW y \in N, ~(y =< x) PROVE FALSE
    OBVIOUS
  <2>5. x \in Int /\ y \in Int /\ x < y
    OBVIOUS
  <2>6. \A z \in N : y < z => x < z
    BY <2>5
  <2>7. y \in Above(x) /\ y \notin Above(y)
    BY <2>5
  <2>8. Above(y) \subseteq Above(x)
    BY <2>6
  <2> QED BY <2>1, <2>3, <2>4, <2>7, <2>8
<1>4. \E x \in N : \A y \in N : x =< y
  <2> DEFINE T == {Below(x) : x \in N}
  <2>1. T \in SUBSET (SUBSET N) /\ T # {} /\ \A x \in N : Below(x) \in T
    OBVIOUS
  <2>2. \A U \in T : \E x \in N : U = Below(x)
    OBVIOUS
  <2> HIDE DEF T
  <2>3. PICK U \in T : \A V \in T : ~(V \subseteq U /\ V # U)
    BY <1>2, <2>1
  <2>4. PICK x \in N : U = Below(x)
    BY <2>2
  <2> SUFFICES ASSUME NEW y \in N, ~(x =< y) PROVE FALSE
    OBVIOUS
  <2>5. x \in Int /\ y \in Int /\ y < x
    OBVIOUS
  <2>6. \A z \in N : z < y => z < x
    BY <2>5
  <2>7. y \in Below(x) /\ y \notin Below(y)
    BY <2>5
  <2>8. Below(y) \subseteq Below(x)
    BY <2>6
  <2> QED BY <2>1, <2>3, <2>4, <2>7, <2>8
<1> QED BY <1>3, <1>4

LEMMA NextIsLeast ==
  ASSUME NEW s \in Sessions, ToLock(s) # {}, work[s].terms \in Proposals
  PROVE  NextToLock(s) \in ToLock(s) /\ \A x \in ToLock(s) : NextToLock(s) =< x
<1> DEFINE N == ToLock(s)
<1>1. N \subseteq ScheduleIds
  BY Terms1 DEF ToLock
<1>2. N \in SUBSET Int /\ IsFiniteSet(N)
  BY <1>1, SwapAssumption, FS_Subset
<1>3. \E x \in N : \A y \in N : x =< y
  BY <1>2, Extremes
<1> QED BY <1>3 DEF NextToLock, Min

-----------------------------------------------------------------------------
(* Steps of a session *)

\* Nothing another session does disturbs what this one has locked and checked.
LEMMA Kept ==
  ASSUME IInv, NEW t \in Sessions, pc'[t] = pc[t], work'[t] = work[t],
         \A sc \in ScheduleIds :
           /\ scheduleLock'[sc] = t <=> scheduleLock[sc] = t
           /\ scheduleLock[sc] = t => schedules'[sc] = schedules[sc]
           /\ schedules[sc].state # "unused" => schedules'[sc].state # "unused"
           /\ schedules'[sc].state = "live" => schedules[sc].state \in {"live", "unused"},
         \A w \in SwapIds :
           /\ swapLock'[w] = t <=> swapLock[w] = t
           /\ swapLock[w] = t => swaps'[w] = swaps[w]
  PROVE  SessionOK(t, pc[t], work[t])'
<1> PICK q, j : q = pc[t] /\ j = work[t]
  OBVIOUS
<1>1. SessionOK(t, q, j)
  BY DEF IInv, SessionsOK
<1>2. q \in Creating \cup Swapping =>
        /\ Pair(j.terms) \subseteq ScheduleIds
        /\ j.terms.requesterSchedule \in Pair(j.terms)
        /\ j.terms.recipientSchedule \in Pair(j.terms)
  BY <1>1, Terms1 DEF SessionOK
<1>3. j \in Work
  BY <1>1 DEF SessionOK
<1>4. j.swap # None => j.swap \in SwapIds
  BY <1>3 DEF Work
<1>5. pc'[t] = q /\ work'[t] = j
  OBVIOUS
<1>6. q \in Creating \cup Swapping => Missing(t, j.terms)' \subseteq Missing(t, j.terms)
        \cup {sc \in Pair(j.terms) : schedules[sc].state = "unused"}
  BY <1>2 DEF Missing
<1>7. q \in Swapping => \A sc \in Pair(j.terms) : schedules[sc].state # "unused" /\ schedules'[sc].state # "unused"
  BY <1>1, <1>2 DEF SessionOK
<1>8. q = "locking" =>
        \A sc \in ScheduleIds : scheduleLock'[sc] = t => \A x \in Missing(t, j.terms)' : sc < x
  BY <1>1, <1>6, <1>7 DEF SessionOK, Swapping
<1>9. q = "decided" =>
       /\ \A sc \in Pair(j.terms) :
            scheduleLock'[sc] = t /\ schedules'[sc].state = "live"
       /\ schedules'[j.terms.requesterSchedule].employee = j.terms.requester
       /\ schedules'[j.terms.recipientSchedule].employee = j.terms.recipient
  BY <1>1, <1>2 DEF SessionOK, Swapping
<1>10. q \in Swapping /\ j.swap # None =>
         /\ swapLock'[j.swap] = t
         /\ swaps'[j.swap].status = "pending_admin"
         /\ swaps'[j.swap].terms = j.terms
  BY <1>1, <1>4 DEF SessionOK
<1>11. /\ q = "deleting" => j.schedule \in ScheduleIds /\ scheduleLock'[j.schedule] = t
       /\ q \notin Swapping \cup {"deleting"} => \A sc \in ScheduleIds : scheduleLock'[sc] # t
       /\ q \notin Swapping => \A w \in SwapIds : swapLock'[w] # t
  BY <1>1 DEF SessionOK
<1>12. /\ q \in PCs /\ j \in Work
       /\ q \in Creating \cup Swapping => j.terms \in Proposals
       /\ q \in Creating => j.time \in Times \cup {Never}
       /\ q = "updating" => j.schedule \in ScheduleIds /\ j.row \in LiveRows
  BY <1>1 DEF SessionOK
<1>13. SessionOK(t, q, j)'
  BY <1>7, <1>8, <1>9, <1>10, <1>11, <1>12 DEF SessionOK
<1> QED BY <1>5, <1>13

\* A statement that leaves the tables and the locks alone.
LEMMA StepSound ==
  ASSUME IInv, UNCHANGED <<tables, locks, clock>>, NEW s \in Sessions, NEW q, NEW j,
         pc' = [pc EXCEPT ![s] = q], work' = [work EXCEPT ![s] = j], SessionOK(s, q, j)
  PROVE  IInv'
<1>1. UNCHANGED <<schedules, swaps, scheduleLock, swapLock, clock>>
  BY DEF tables, locks
<1>2. pc'[s] = q /\ work'[s] = j
  BY DEF IInv, TypeOK
<1>3. SessionOK(s, pc[s], work[s])'
  BY <1>1, <1>2 DEF SessionOK, Missing
<1>4. \A t \in Sessions \ {s} : pc'[t] = pc[t] /\ work'[t] = work[t]
  BY DEF IInv, TypeOK
<1>5. ASSUME NEW t \in Sessions, t # s PROVE SessionOK(t, pc[t], work[t])'
  BY <1>1, <1>4, <1>5, Kept
<1>6. SessionsOK'
  BY <1>3, <1>5 DEF SessionsOK
<1>7. TypeOK'
  BY <1>1 DEF IInv, TypeOK, SessionOK
<1>8. NamedOK' /\ OneApprovable' /\ LocksOK'
  BY <1>1 DEF IInv, NamedOK, OneApprovable, LocksOK
<1> QED BY <1>6, <1>7, <1>8 DEF IInv

\* A handler returns: what it wrote must leave the others' rows alone.
LEMMA ReturnSound ==
  ASSUME IInv, NEW s \in Sessions, End(s), UNCHANGED clock,
         schedules' \in [ScheduleIds -> Rows], swaps' \in [SwapIds -> SwapRows],
         NamedOK', OneApprovable',
         \A sc \in ScheduleIds :
           /\ scheduleLock[sc] \notin {None, s} => schedules'[sc] = schedules[sc]
           /\ schedules[sc].state # "unused" => schedules'[sc].state # "unused"
           /\ schedules'[sc].state = "live" => schedules[sc].state \in {"live", "unused"},
         \A w \in SwapIds : swapLock[w] \notin {None, s} => swaps'[w] = swaps[w]
  PROVE  IInv'
<1>1. /\ pc' = [pc EXCEPT ![s] = "idle"]
      /\ work' = [work EXCEPT ![s] = Blank]
      /\ scheduleLock' = [sc \in ScheduleIds |->
                            IF scheduleLock[sc] = s THEN None ELSE scheduleLock[sc]]
      /\ swapLock' = [w \in SwapIds |->
                        IF swapLock[w] = s THEN None ELSE swapLock[w]]
  BY DEF End
<1>2. pc'[s] = "idle" /\ work'[s] = Blank /\ s # None
  BY <1>1, SwapAssumption DEF IInv, TypeOK
<1>3. SessionOK(s, pc[s], work[s])'
  BY <1>1, <1>2, BlankJob DEF SessionOK, PCs, Creating, Swapping
<1>4. ASSUME NEW t \in Sessions, t # s PROVE SessionOK(t, pc[t], work[t])'
  <2>1. pc'[t] = pc[t] /\ work'[t] = work[t] /\ t # None
    BY <1>1, <1>4, SwapAssumption DEF IInv, TypeOK
  <2>2. \A sc \in ScheduleIds :
           /\ scheduleLock'[sc] = t <=> scheduleLock[sc] = t
           /\ scheduleLock[sc] = t => schedules'[sc] = schedules[sc]
    BY <1>1, <1>4, <2>1
  <2>3. \A w \in SwapIds :
           /\ swapLock'[w] = t <=> swapLock[w] = t
           /\ swapLock[w] = t => swaps'[w] = swaps[w]
    BY <1>1, <1>4, <2>1
  <2> QED BY <2>1, <2>2, <2>3, Kept
<1>5. TypeOK'
  BY <1>1, BlankJob DEF IInv, TypeOK, PCs
<1>6. LocksOK'
  BY <1>1 DEF IInv, LocksOK
<1> QED BY <1>3, <1>4, <1>5, <1>6 DEF IInv, SessionsOK

LEMMA QuietReturnSound ==
  ASSUME IInv, NEW s \in Sessions, End(s), UNCHANGED <<tables, clock>>
  PROVE  IInv'
<1>1. UNCHANGED <<schedules, swaps>>
  BY DEF tables
<1>2. NamedOK' /\ OneApprovable'
  BY <1>1 DEF IInv, NamedOK, OneApprovable
<1> QED BY <1>1, <1>2, ReturnSound DEF IInv, TypeOK

\* A statement that writes or locks, of a handler that goes on, or of none.
LEMMA WriteSound ==
  ASSUME IInv, UNCHANGED <<pc, work, scheduleLock, swapLock>>, clock' \in Times,
         schedules' \in [ScheduleIds -> Rows], swaps' \in [SwapIds -> SwapRows],
         NamedOK', OneApprovable',
         \A sc \in ScheduleIds :
           schedules'[sc] = schedules[sc] \/ schedules[sc].state = "unused",
         \A w \in SwapIds : swapLock[w] # None => swaps'[w] = swaps[w]
  PROVE  IInv'
<1>1. TypeOK'
  BY DEF IInv, TypeOK
<1>2. ASSUME NEW t \in Sessions PROVE SessionOK(t, pc[t], work[t])'
  <2>1. t # None
    BY SwapAssumption
  <2>2. \A sc \in ScheduleIds :
           /\ scheduleLock[sc] = t => schedules'[sc] = schedules[sc]
           /\ schedules[sc].state # "unused" => schedules'[sc].state # "unused"
           /\ schedules'[sc].state = "live" => schedules[sc].state \in {"live", "unused"}
    BY <2>1 DEF IInv, LocksOK
  <2> QED BY <2>1, <2>2, Kept
<1>3. LocksOK'
  BY DEF IInv, LocksOK
<1> QED BY <1>1, <1>2, <1>3 DEF IInv, SessionsOK

-----------------------------------------------------------------------------
(* Proposing a swap *)

LEMMA ProposeSound ==
  ASSUME IInv, NEW s \in Sessions, NEW p \in Proposals, NEW expires \in Expiries,
         CreateShiftSwapRequest(s, p, expires)
  PROVE  IInv'
<1>1. PICK j : j = [Blank EXCEPT !.terms = p, !.time = expires,
                                 !.row = schedules[p.requesterSchedule]]
  OBVIOUS
<1>2. /\ pc[s] = "idle" /\ pc' = [pc EXCEPT ![s] = "reading"]
      /\ work' = [work EXCEPT ![s] = j] /\ UNCHANGED <<tables, locks, clock>>
  BY <1>1 DEF CreateShiftSwapRequest, Start
<1>3. expires \in Nat /\ expires \in Times \cup {Never}
  BY SwapAssumption DEF Times, Never
<1>4. schedules[p.requesterSchedule] \in Rows
  BY Terms1 DEF IInv, TypeOK
<1>5. j \in Work /\ j.terms = p /\ j.time = expires
  BY <1>1, <1>3, <1>4 DEF Blank, Work
<1>6. SessionOK(s, "idle", work[s])
  BY <1>2 DEF IInv, SessionsOK
<1>7. SessionOK(s, "reading", j)
  BY <1>3, <1>5, <1>6 DEF SessionOK, Creating, Swapping, PCs
<1> QED BY <1>2, <1>7, StepSound

\* The statements of CreateShiftSwapRequest follow on.
LEMMA CreatingOK ==
  ASSUME NEW s \in Sessions, NEW q \in Creating, NEW r \in Creating, NEW j, SessionOK(s, q, j)
  PROVE  SessionOK(s, r, j)
BY DEF SessionOK, Creating, Swapping, PCs

LEMMA CheckSound ==
  ASSUME IInv, NEW s \in Sessions,
         ReadRecipientSchedule(s) \/ CheckActiveSwaps(s) \/ InsertShiftSwap(s)
  PROVE  IInv'
<1>1. \/ End(s)
      \/ /\ UNCHANGED <<work, locks>>
         /\ \E r \in Creating : pc' = [pc EXCEPT ![s] = r]
  BY DEF ReadRecipientSchedule, CheckActiveSwaps, InsertShiftSwap, Step, Creating
<1>2. UNCHANGED <<tables, clock>> /\ pc[s] \in Creating
  BY DEF ReadRecipientSchedule, CheckActiveSwaps, InsertShiftSwap, Creating
<1>3. CASE End(s)
  BY <1>2, <1>3, QuietReturnSound
<1>4. ASSUME UNCHANGED <<work, locks>>, NEW r \in Creating, pc' = [pc EXCEPT ![s] = r]
      PROVE  IInv'
  <2>1. SessionOK(s, pc[s], work[s])
    BY DEF IInv, SessionsOK
  <2>2. SessionOK(s, r, work[s])
    BY <1>2, <2>1, CreatingOK
  <2>3. work' = [work EXCEPT ![s] = work[s]]
    BY <1>4 DEF IInv, TypeOK
  <2> QED BY <1>2, <1>4, <2>2, <2>3, StepSound
<1> QED BY <1>1, <1>3, <1>4

LEMMA ExpireSound ==
  ASSUME IInv, NEW s \in Sessions, ExpirePending(s)
  PROVE  IInv'
<1> PICK lapsed : lapsed = {w \in SwapIds : Active(w) /\ Lapsed(w)}
  OBVIOUS
<1>1. /\ pc[s] = "expiring" /\ pc' = [pc EXCEPT ![s] = "checking"]
      /\ UNCHANGED <<schedules, work, scheduleLock, swapLock, clock>>
      /\ \/ /\ \A w \in lapsed : swapLock[w] = None
            /\ swaps' = [w \in SwapIds |-> IF w \in lapsed
                                           THEN [swaps[w] EXCEPT !.status = "expired"]
                                           ELSE swaps[w]]
         \/ UNCHANGED swaps
  BY DEF ExpirePending, Step, locks
<1>2. /\ swaps' \in [SwapIds -> SwapRows]
      /\ \A w \in SwapIds :
           \/ swaps'[w] = swaps[w]
           \/ /\ swapLock[w] = None /\ w \in lapsed
              /\ swaps'[w].status = "expired" /\ swaps'[w].terms = swaps[w].terms
  BY <1>1 DEF IInv, TypeOK, SwapRows, SwapStatus
<1>3. TypeOK'
  BY <1>1, <1>2 DEF IInv, TypeOK, PCs
<1>4. SessionOK(s, pc[s], work[s])'
  <2>1. SessionOK(s, "expiring", work[s])
    BY <1>1 DEF IInv, SessionsOK
  <2>2. SessionOK(s, "checking", work[s])
    BY <2>1, CreatingOK DEF Creating
  <2>3. pc'[s] = "checking" /\ work'[s] = work[s]
    BY <1>1 DEF IInv, TypeOK
  <2> QED BY <1>1, <2>2, <2>3 DEF SessionOK, Creating, Swapping, Missing
<1>5. ASSUME NEW t \in Sessions, t # s PROVE SessionOK(t, pc[t], work[t])'
  <2>1. pc'[t] = pc[t] /\ work'[t] = work[t] /\ t # None
    BY <1>1, <1>5, SwapAssumption DEF IInv, TypeOK
  <2>2. \A w \in SwapIds : swapLock[w] = t => swaps'[w] = swaps[w]
    BY <1>2, <2>1
  <2> QED BY <1>1, <2>1, <2>2, Kept
<1>6. NamedOK'
  BY <1>1, <1>2 DEF IInv, NamedOK, Active, ActiveStatus
<1>7. OneApprovable'
  BY <1>2 DEF IInv, OneApprovable
<1>8. LocksOK'
  BY <1>1, <1>2 DEF IInv, LocksOK
<1> QED BY <1>3, <1>4, <1>5, <1>6, <1>7, <1>8 DEF IInv, SessionsOK

LEMMA CommitShiftSwapSound ==
  ASSUME IInv, NEW s \in Sessions, CommitShiftSwap(s)
  PROVE  IInv'
<1> PICK p, j : j = work[s] /\ p = j.terms
  OBVIOUS
<1>1. /\ pc[s] = "committing" /\ End(s) /\ UNCHANGED <<schedules, clock>>
      /\ IF \A sc \in Pair(p) : schedules[sc].state = "live"
         THEN \E w \in SwapIds :
                /\ swaps[w] = NoSwap
                /\ swaps' = [swaps EXCEPT ![w] =
                     [status |-> "pending_recipient", terms |-> p, expires |-> j.time]]
         ELSE UNCHANGED swaps
  BY DEF CommitShiftSwap
<1>2. SessionOK(s, "committing", j)
  BY <1>1 DEF IInv, SessionsOK
<1>3. p \in Proposals /\ j.time \in Times \cup {Never}
  BY <1>2 DEF SessionOK, Creating
<1>4. CASE UNCHANGED swaps
  BY <1>1, <1>4, QuietReturnSound DEF tables
<1>5. ASSUME NEW w \in SwapIds, swaps[w] = NoSwap,
             \A sc \in Pair(p) : schedules[sc].state = "live",
             swaps' = [swaps EXCEPT ![w] =
               [status |-> "pending_recipient", terms |-> p, expires |-> j.time]]
      PROVE  IInv'
  <2>1. swaps' \in [SwapIds -> SwapRows]
    BY <1>3, <1>5 DEF IInv, TypeOK, SwapRows, SwapStatus
  <2>2. /\ \A v \in SwapIds \ {w} : swaps'[v] = swaps[v]
        /\ swaps'[w].status = "pending_recipient" /\ swaps'[w].terms = p
    BY <1>5 DEF IInv, TypeOK
  <2>3. NamedOK'
    BY <1>1, <1>3, <1>5, <2>2 DEF IInv, NamedOK
  <2>4. OneApprovable'
    BY <2>2 DEF IInv, OneApprovable
  <2>5. \A v \in SwapIds : swapLock[v] \notin {None, s} => swaps'[v] = swaps[v]
    BY <1>5, <2>2 DEF IInv, LocksOK, NoSwap
  <2> QED BY <1>1, <2>1, <2>3, <2>4, <2>5, ReturnSound DEF IInv, TypeOK
<1> QED BY <1>1, <1>4, <1>5

-----------------------------------------------------------------------------
(* Answering a request *)

LEMMA AnswerSound ==
  ASSUME IInv, NEW w \in SwapIds,
         Reject(w) \/ \E accept \in BOOLEAN : Respond(w, accept)
  PROVE  IInv'
<1>1. /\ UNCHANGED <<schedules, pc, work, scheduleLock, swapLock, clock>>
      /\ swapLock[w] = None
      /\ swaps[w].status \in ActiveStatus
  BY DEF Reject, Respond, locks, ActiveStatus
<1>2. PICK status \in SwapStatus :
        /\ swaps' = [swaps EXCEPT ![w].status = status]
        /\ status # "unused"
        /\ status = "pending_admin" => ~TakenElsewhere(swaps[w].terms, {w})
  BY DEF Reject, Respond, SwapStatus
<1>3. /\ swaps' \in [SwapIds -> SwapRows]
      /\ \A v \in SwapIds \ {w} : swaps'[v] = swaps[v]
      /\ swaps'[w].status = status /\ swaps'[w].terms = swaps[w].terms
  BY <1>2 DEF IInv, TypeOK, SwapRows
<1>4. NamedOK'
  BY <1>1, <1>3 DEF IInv, NamedOK, ActiveStatus
<1>5. OneApprovable'
  <2> SUFFICES ASSUME NEW u \in SwapIds, NEW v \in SwapIds, u # v,
                      swaps'[u].status = "pending_admin", swaps'[v].status = "pending_admin"
               PROVE  Pair(swaps'[u].terms) \cap Pair(swaps'[v].terms) = {}
    BY DEF OneApprovable
  <2>1. \A x \in SwapIds : swaps'[x].terms = swaps[x].terms
    BY <1>3
  <2>2. CASE u # w /\ v # w
    BY <1>3, <2>1, <2>2 DEF IInv, OneApprovable
  <2>3. CASE u = w
    BY <1>2, <1>3, <2>1, <2>3 DEF TakenElsewhere, Active, ActiveStatus
  <2>4. CASE v = w
    BY <1>2, <1>3, <2>1, <2>4 DEF TakenElsewhere, Active, ActiveStatus
  <2> QED BY <2>2, <2>3, <2>4
<1> QED BY <1>1, <1>3, <1>4, <1>5, WriteSound DEF IInv, TypeOK

-----------------------------------------------------------------------------
(* Swapping *)

LEMMA BeginSwapSound ==
  ASSUME IInv, NEW s \in Sessions, NEW p \in Proposals, CreateAdminShiftSwapRequest(s, p)
  PROVE  IInv'
<1>1. PICK j : j = [Blank EXCEPT !.terms = p, !.time = clock]
  OBVIOUS
<1>2. /\ pc[s] = "idle" /\ pc' = [pc EXCEPT ![s] = "locking"]
      /\ work' = [work EXCEPT ![s] = j] /\ UNCHANGED <<tables, locks, clock>>
      /\ \A sc \in Pair(p) : schedules[sc].state # "unused"
  BY <1>1 DEF CreateAdminShiftSwapRequest, Start
<1>3. clock \in Nat
  BY SwapAssumption DEF IInv, TypeOK, Times
<1>4. j \in Work /\ j.terms = p /\ j.swap = None
  BY <1>1, <1>3 DEF Blank, Work
<1>5. SessionOK(s, "idle", work[s])
  BY <1>2 DEF IInv, SessionsOK
<1>6. SessionOK(s, "locking", j)
  BY <1>2, <1>4, <1>5 DEF SessionOK, Creating, Swapping, PCs
<1> QED BY <1>2, <1>6, StepSound

LEMMA ApproveSound ==
  ASSUME IInv, NEW s \in Sessions, NEW w \in SwapIds, ApproveShiftSwap(s, w)
  PROVE  IInv'
<1>1. PICK j : j = [Blank EXCEPT !.swap = w, !.terms = swaps[w].terms]
  OBVIOUS
<1>2. /\ swapLock[w] = None /\ swaps[w].status = "pending_admin"
      /\ pc[s] = "idle" /\ pc' = [pc EXCEPT ![s] = "locking"]
      /\ work' = [work EXCEPT ![s] = j]
      /\ swapLock' = [swapLock EXCEPT ![w] = s]
      /\ UNCHANGED <<schedules, swaps, scheduleLock, clock>>
  BY <1>1 DEF ApproveShiftSwap, Start, tables
<1>3. /\ swaps[w].terms \in Proposals
      /\ \A sc \in Pair(swaps[w].terms) : schedules[sc].state # "unused"
  BY <1>2 DEF IInv, NamedOK
<1>4. j \in Work /\ j.terms = swaps[w].terms /\ j.swap = w
  BY <1>1, <1>3 DEF Blank, Work
<1>5. SessionOK(s, "idle", work[s])
  BY <1>2 DEF IInv, SessionsOK
<1>6. /\ swapLock'[w] = s /\ \A v \in SwapIds \ {w} : swapLock'[v] = swapLock[v]
      /\ pc'[s] = "locking" /\ work'[s] = j
  BY <1>2 DEF IInv, TypeOK
<1>7. SessionOK(s, "locking", j)'
  BY <1>2, <1>3, <1>4, <1>5, <1>6 DEF SessionOK, Creating, Swapping, PCs
<1>8. ASSUME NEW t \in Sessions, t # s PROVE SessionOK(t, pc[t], work[t])'
  <2>1. pc'[t] = pc[t] /\ work'[t] = work[t] /\ t # None
    BY <1>2, <1>8, SwapAssumption DEF IInv, TypeOK
  <2>2. \A v \in SwapIds : swapLock'[v] = t <=> swapLock[v] = t
    BY <1>2, <1>6, <1>8, <2>1
  <2> QED BY <1>2, <2>1, <2>2, Kept
<1>9. TypeOK'
  BY <1>2, <1>4 DEF IInv, TypeOK, PCs
<1>10. LocksOK' /\ NamedOK' /\ OneApprovable'
  BY <1>2, <1>6 DEF IInv, LocksOK, NamedOK, OneApprovable
<1> QED BY <1>6, <1>7, <1>8, <1>9, <1>10 DEF IInv, SessionsOK

\* A transaction or DELETE that locks one more schedule.
LEMMA LockSound ==
  ASSUME IInv, NEW s \in Sessions, NEW sc \in ScheduleIds, scheduleLock[sc] = None,
         schedules[sc].state = "live",
         scheduleLock' = [scheduleLock EXCEPT ![sc] = s],
         UNCHANGED <<schedules, swaps, swapLock, clock>>,
         NEW q, NEW j, pc' = [pc EXCEPT ![s] = q], work' = [work EXCEPT ![s] = j],
         SessionOK(s, q, j)'
  PROVE  IInv'
<1>1. /\ scheduleLock'[sc] = s
      /\ \A x \in ScheduleIds \ {sc} : scheduleLock'[x] = scheduleLock[x]
      /\ pc'[s] = q /\ work'[s] = j
  BY DEF IInv, TypeOK
<1>2. ASSUME NEW t \in Sessions, t # s PROVE SessionOK(t, pc[t], work[t])'
  <2>1. pc'[t] = pc[t] /\ work'[t] = work[t] /\ t # None
    BY <1>2, SwapAssumption DEF IInv, TypeOK
  <2>2. \A x \in ScheduleIds : scheduleLock'[x] = t <=> scheduleLock[x] = t
    BY <1>1, <1>2, <2>1
  <2> QED BY <2>1, <2>2, Kept
<1>3. q \in PCs /\ j \in Work
  BY DEF SessionOK
<1>4. TypeOK'
  BY <1>3 DEF IInv, TypeOK
<1>5. LocksOK' /\ NamedOK' /\ OneApprovable'
  BY <1>1 DEF IInv, LocksOK, NamedOK, OneApprovable
<1> QED BY <1>1, <1>2, <1>4, <1>5 DEF IInv, SessionsOK

LEMMA LockNextSound ==
  ASSUME IInv, NEW s \in Sessions, LockSchedulesByIDsForSwap(s)
  PROVE  IInv'
<1> PICK sc, j : sc = NextToLock(s) /\ j = work[s]
  OBVIOUS
<1>1. /\ pc[s] = "locking" /\ ToLock(s) # {} /\ scheduleLock[sc] = None
      /\ scheduleLock' = [scheduleLock EXCEPT ![sc] = s]
      /\ UNCHANGED <<schedules, swaps, swapLock, pc, work, clock>>
  BY DEF LockSchedulesByIDsForSwap, tables
<1>2. SessionOK(s, "locking", j)
  BY <1>1 DEF IInv, SessionsOK
<1>3. j.terms \in Proposals
  BY <1>2 DEF SessionOK, Swapping
<1>4. sc \in ToLock(s) /\ \A x \in ToLock(s) : sc =< x
  BY <1>1, <1>3, NextIsLeast
<1>5. /\ ToLock(s) = Missing(s, j.terms) /\ Missing(s, j.terms) \subseteq ScheduleIds
      /\ schedules[sc].state = "live"
  BY <1>3, <1>4, Terms1 DEF ToLock, Missing
<1>6. /\ scheduleLock'[sc] = s
      /\ \A x \in ScheduleIds \ {sc} : scheduleLock'[x] = scheduleLock[x]
  BY <1>1, <1>4, <1>5 DEF IInv, TypeOK
<1>7. Missing(s, j.terms)' = Missing(s, j.terms) \ {sc}
  BY <1>1, <1>3, <1>5, <1>6, Terms1 DEF Missing
<1>8. \A y \in ScheduleIds : scheduleLock'[y] = s => \A x \in Missing(s, j.terms)' : y < x
  <2> SUFFICES ASSUME NEW y \in ScheduleIds, scheduleLock'[y] = s,
                      NEW x \in Missing(s, j.terms)'
               PROVE  y < x
    OBVIOUS
  <2>1. x \in Missing(s, j.terms) /\ x # sc /\ x \in Int /\ sc \in Int
    BY <1>4, <1>5, <1>7, SwapAssumption
  <2>2. CASE y = sc
    BY <1>4, <1>5, <2>1, <2>2
  <2>3. CASE y # sc
    BY <1>2, <1>6, <2>1, <2>3 DEF SessionOK
  <2> QED BY <2>2, <2>3
<1>9. SessionOK(s, "locking", j)'
  BY <1>1, <1>2, <1>8 DEF SessionOK, Creating, Swapping
<1>10. pc' = [pc EXCEPT ![s] = "locking"] /\ work' = [work EXCEPT ![s] = j]
  BY <1>1 DEF IInv, TypeOK
<1> QED BY <1>1, <1>4, <1>5, <1>9, <1>10, LockSound

LEMMA ValidateSound ==
  ASSUME IInv, NEW s \in Sessions, ValidateSwap(s)
  PROVE  IInv'
<1> PICK p, j : j = work[s] /\ p = j.terms
  OBVIOUS
<1>1. /\ pc[s] = "locking" /\ ToLock(s) = {} /\ UNCHANGED <<tables, clock>>
  BY DEF ValidateSwap
<1>2. CASE End(s)
  BY <1>1, <1>2, QuietReturnSound
<1>3. CASE ~End(s)
  <2>1. /\ pc' = [pc EXCEPT ![s] = "decided"] /\ UNCHANGED <<work, locks>>
        /\ schedules[p.requesterSchedule].state = "live"
        /\ schedules[p.recipientSchedule].state = "live"
        /\ schedules[p.requesterSchedule].employee = p.requester
        /\ schedules[p.recipientSchedule].employee = p.recipient
    BY <1>3 DEF ValidateSwap, Step, SwapAllowed, Swappable
  <2>2. SessionOK(s, "locking", j)
    BY <1>1 DEF IInv, SessionsOK
  <2>3. p \in Proposals
    BY <2>2 DEF SessionOK, Swapping
  <2>4. \A sc \in Pair(p) : schedules[sc].state = "live" /\ scheduleLock[sc] = s
    BY <1>1, <2>1, <2>3, Terms1 DEF ToLock
  <2>5. SessionOK(s, "decided", j)
    BY <2>1, <2>2, <2>3, <2>4 DEF SessionOK, Creating, Swapping, PCs
  <2>6. work' = [work EXCEPT ![s] = j]
    BY <2>1 DEF IInv, TypeOK
  <2> QED BY <1>1, <2>1, <2>5, <2>6, StepSound
<1> QED BY <1>2, <1>3

\* The rows of a decided swap are the session's own.
LEMMA Decided ==
  ASSUME IInv, NEW s \in Sessions, pc[s] = "decided",
         NEW p, NEW j, j = work[s], p = j.terms
  PROVE  /\ p \in Proposals
         /\ \A sc \in Pair(p) : scheduleLock[sc] = s /\ schedules[sc] \in LiveRows
         /\ schedules[p.requesterSchedule].employee = p.requester
         /\ schedules[p.recipientSchedule].employee = p.recipient
         /\ j.swap # None => /\ j.swap \in SwapIds /\ swapLock[j.swap] = s
                             /\ swaps[j.swap].terms = p
         /\ \A sc \in Pair(p) : schedules[sc].state # "unused"
<1>1. SessionOK(s, "decided", j) /\ j \in Work
  BY DEF IInv, SessionsOK, SessionOK
<1>2. p \in Proposals
  BY <1>1 DEF SessionOK, Swapping
<1>3. \A sc \in Pair(p) : scheduleLock[sc] = s /\ schedules[sc].state = "live"
  BY <1>1 DEF SessionOK
<1>4. \A sc \in Pair(p) : schedules[sc] \in LiveRows /\ schedules[sc].state # "unused"
  BY <1>2, <1>3, Terms1, RowTypes DEF IInv, TypeOK
<1>5. j.swap # None => j.swap \in SwapIds
  BY <1>1 DEF Work
<1> QED BY <1>1, <1>2, <1>3, <1>4, <1>5 DEF SessionOK, Swapping

LEMMA CommitSwapSound ==
  ASSUME IInv, NEW s \in Sessions, CommitSwap(s)
  PROVE  IInv'
<1> PICK p, j : j = work[s] /\ p = j.terms
  OBVIOUS
<1>1. /\ pc[s] = "decided" /\ End(s) /\ UNCHANGED clock
      /\ schedules' = [schedules EXCEPT ![p.requesterSchedule].employee = p.recipient,
                                        ![p.recipientSchedule].employee = p.requester]
  BY DEF CommitSwap
<1>2. /\ p \in Proposals
      /\ \A sc \in Pair(p) : scheduleLock[sc] = s /\ schedules[sc] \in LiveRows
      /\ j.swap # None => j.swap \in SwapIds /\ swapLock[j.swap] = s /\ swaps[j.swap].terms = p
      /\ \A sc \in Pair(p) : schedules[sc].state # "unused"
  BY <1>1, Decided
<1>3. /\ p.requester \in Employees /\ p.recipient \in Employees
      /\ p.requesterSchedule \in ScheduleIds /\ p.recipientSchedule \in ScheduleIds
      /\ p.requesterSchedule # p.recipientSchedule
      /\ Pair(p) = {p.requesterSchedule, p.recipientSchedule}
  BY <1>2, Terms1
<1>4. /\ \A sc \in ScheduleIds \ Pair(p) : schedules'[sc] = schedules[sc]
      /\ \A sc \in Pair(p) : schedules'[sc] \in LiveRows
  <2>1. /\ schedules[p.requesterSchedule] \in LiveRows
        /\ schedules[p.recipientSchedule] \in LiveRows
    BY <1>2, <1>3
  <2>2. /\ schedules'[p.requesterSchedule] =
             [schedules[p.requesterSchedule] EXCEPT !.employee = p.recipient]
        /\ schedules'[p.recipientSchedule] =
             [schedules[p.recipientSchedule] EXCEPT !.employee = p.requester]
        /\ \A sc \in ScheduleIds \ Pair(p) : schedules'[sc] = schedules[sc]
    BY <1>1, <1>3 DEF IInv, TypeOK
  <2> QED BY <1>3, <2>1, <2>2 DEF LiveRows
<1>5. schedules' \in [ScheduleIds -> Rows]
  <2>1. DOMAIN schedules' = ScheduleIds /\ schedules' = [sc \in ScheduleIds |-> schedules'[sc]]
    BY <1>1 DEF IInv, TypeOK
  <2>2. \A sc \in ScheduleIds : schedules'[sc] \in Rows
    BY <1>4 DEF Rows, IInv, TypeOK
  <2> QED BY <2>1, <2>2
<1>6. \A r \in LiveRows : r.state = "live"
  BY DEF LiveRows
<1>7. PICK w \in SwapIds :
        /\ swapLock[w] \in {None, s}
        /\ \A v \in SwapIds \ {w} : swaps'[v] = swaps[v]
        /\ swaps'[w].status = "confirmed" /\ swaps'[w].terms = p
        /\ swaps' \in [SwapIds -> SwapRows]
  <2>1. CASE /\ j.swap # None
             /\ swaps' = [swaps EXCEPT ![j.swap].status = "confirmed"]
    <3>1. j.swap \in SwapIds /\ swapLock[j.swap] = s /\ swaps[j.swap].terms = p
      BY <1>2, <2>1
    <3>2. /\ \A v \in SwapIds \ {j.swap} : swaps'[v] = swaps[v]
          /\ swaps'[j.swap].status = "confirmed" /\ swaps'[j.swap].terms = p
          /\ swaps' \in [SwapIds -> SwapRows]
      BY <2>1, <3>1 DEF IInv, TypeOK, SwapRows, SwapStatus
    <3> QED BY <3>1, <3>2
  <2>2. ASSUME NEW w \in SwapIds, swaps[w] = NoSwap,
               swaps' = [swaps EXCEPT ![w] =
                          [status |-> "confirmed", terms |-> p, expires |-> Never]]
        PROVE  /\ swapLock[w] \in {None, s}
               /\ \A v \in SwapIds \ {w} : swaps'[v] = swaps[v]
               /\ swaps'[w].status = "confirmed" /\ swaps'[w].terms = p
               /\ swaps' \in [SwapIds -> SwapRows]
    BY <1>2, <2>2 DEF IInv, TypeOK, LocksOK, NoSwap, SwapRows, SwapStatus
  <2> QED BY <2>1, <2>2 DEF CommitSwap
<1>8. OneApprovable'
  BY <1>7 DEF IInv, OneApprovable
<1>9. \A sc \in ScheduleIds :
           /\ scheduleLock[sc] \notin {None, s} => schedules'[sc] = schedules[sc]
           /\ schedules[sc].state # "unused" => schedules'[sc].state # "unused"
           /\ schedules'[sc].state = "live" => schedules[sc].state \in {"live", "unused"}
  BY <1>2, <1>4, <1>6
<1>10. NamedOK'
  <2> SUFFICES ASSUME NEW v \in SwapIds, swaps'[v].status # "unused"
               PROVE  /\ swaps'[v].terms \in Proposals
                      /\ \A sc \in Pair(swaps'[v].terms) : schedules'[sc].state # "unused"
    BY DEF NamedOK
  <2>1. /\ swaps'[v].terms \in Proposals
        /\ \A sc \in Pair(swaps'[v].terms) : schedules[sc].state # "unused"
    BY <1>2, <1>7 DEF IInv, NamedOK
  <2> QED BY <1>9, <2>1, Terms1
<1> QED BY <1>1, <1>5, <1>7, <1>8, <1>9, <1>10, ReturnSound

-----------------------------------------------------------------------------
(* The rota *)

LEMMA RotaSound ==
  ASSUME IInv, NEW sc \in ScheduleIds, NEW e \in Employees, NEW slot \in Slots,
         CreateSchedule(sc, e, slot)
  PROVE  IInv'
<1>1. /\ schedules[sc].state = "unused"
      /\ schedules' = [schedules EXCEPT ![sc] =
                         [state |-> "live", employee |-> e, slot |-> slot]]
      /\ UNCHANGED <<swaps, scheduleLock, swapLock, pc, work, clock>>
  BY DEF CreateSchedule, locks
<1>2. schedules' \in [ScheduleIds -> Rows]
  BY <1>1 DEF IInv, TypeOK, Rows, LiveRows
<1>3. \A x \in ScheduleIds : schedules'[x] = schedules[x] \/ x = sc
  BY <1>1 DEF IInv, TypeOK
<1>4. NamedOK'
  <2> SUFFICES ASSUME NEW v \in SwapIds, swaps[v].status # "unused"
               PROVE  /\ swaps[v].terms \in Proposals
                      /\ \A x \in Pair(swaps[v].terms) : schedules'[x].state # "unused"
    BY <1>1 DEF NamedOK
  <2> QED BY <1>1, <1>3, Terms1 DEF IInv, NamedOK
<1>5. OneApprovable'
  BY <1>1 DEF IInv, OneApprovable
<1> QED BY <1>1, <1>2, <1>3, <1>4, <1>5, WriteSound DEF IInv, TypeOK

LEMMA UpdateSound ==
  ASSUME IInv, NEW s \in Sessions, NEW sc \in ScheduleIds, NEW e \in Employees \cup {None},
         NEW slot \in Slots \cup {None}, UpdateSchedule(s, sc, e, slot)
  PROVE  IInv'
<1>1. PICK r : r = [state |-> "live",
                    employee |-> IF e = None THEN schedules[sc].employee ELSE e,
                    slot |-> IF slot = None THEN schedules[sc].slot ELSE slot]
  OBVIOUS
<1>2. PICK j : j = [Blank EXCEPT !.schedule = sc, !.row = r]
  OBVIOUS
<1>3. /\ schedules[sc].state = "live" /\ pc[s] = "idle"
      /\ pc' = [pc EXCEPT ![s] = "updating"]
      /\ work' = [work EXCEPT ![s] = j] /\ UNCHANGED <<tables, locks, clock>>
  BY <1>1, <1>2 DEF UpdateSchedule, Start
<1>4. schedules[sc].employee \in Employees /\ schedules[sc].slot \in Slots
  BY <1>3, RowTypes DEF IInv, TypeOK
<1>5. r \in LiveRows
  BY <1>1, <1>4 DEF LiveRows
<1>6. j \in Work /\ j.schedule = sc /\ j.row = r
  BY <1>2, <1>5 DEF Blank, Work, Rows
<1>7. SessionOK(s, "idle", work[s])
  BY <1>3 DEF IInv, SessionsOK
<1>8. SessionOK(s, "updating", j)
  BY <1>5, <1>6, <1>7 DEF SessionOK, Creating, Swapping, PCs
<1> QED BY <1>3, <1>8, StepSound

LEMMA WriteScheduleSound ==
  ASSUME IInv, NEW s \in Sessions, WriteSchedule(s)
  PROVE  IInv'
<1> PICK sc, r : sc = work[s].schedule /\ r = work[s].row
  OBVIOUS
<1>1. /\ pc[s] = "updating" /\ scheduleLock[sc] \in {None, s} /\ End(s)
      /\ UNCHANGED <<swaps, clock>>
      /\ schedules' = IF schedules[sc].state = "live"
                      THEN [schedules EXCEPT ![sc] = r] ELSE schedules
  BY DEF WriteSchedule, Free
<1>2. sc \in ScheduleIds /\ r \in LiveRows /\ r \in Rows /\ r.state = "live"
  BY <1>1 DEF IInv, SessionsOK, SessionOK, Rows, LiveRows
<1>3. schedules' \in [ScheduleIds -> Rows]
  BY <1>1, <1>2 DEF IInv, TypeOK
<1>4. \A x \in ScheduleIds :
        /\ x # sc => schedules'[x] = schedules[x]
        /\ schedules'[x].state = schedules[x].state
  BY <1>1, <1>2 DEF IInv, TypeOK
<1>5. NamedOK'
  <2> SUFFICES ASSUME NEW v \in SwapIds, swaps[v].status # "unused"
               PROVE  /\ swaps[v].terms \in Proposals
                      /\ \A x \in Pair(swaps[v].terms) : schedules'[x].state # "unused"
    BY <1>1 DEF NamedOK
  <2> QED BY <1>4, Terms1 DEF IInv, NamedOK
<1>6. OneApprovable'
  BY <1>1 DEF IInv, OneApprovable
<1> QED BY <1>1, <1>3, <1>4, <1>5, <1>6, ReturnSound DEF IInv, TypeOK

LEMMA DeleteSound ==
  ASSUME IInv, NEW s \in Sessions, NEW sc \in ScheduleIds, DeleteSchedule(s, sc)
  PROVE  IInv'
<1>1. PICK j : j = [Blank EXCEPT !.schedule = sc]
  OBVIOUS
<1>2. /\ schedules[sc].state = "live" /\ scheduleLock[sc] = None /\ pc[s] = "idle"
      /\ pc' = [pc EXCEPT ![s] = "deleting"] /\ work' = [work EXCEPT ![s] = j]
      /\ scheduleLock' = [scheduleLock EXCEPT ![sc] = s]
      /\ UNCHANGED <<schedules, swaps, swapLock, clock>>
  BY <1>1 DEF DeleteSchedule, Start, tables
<1>3. j \in Work /\ j.schedule = sc
  BY <1>1 DEF Blank, Work
<1>4. SessionOK(s, "idle", work[s])
  BY <1>2 DEF IInv, SessionsOK
<1>5. scheduleLock'[sc] = s
  BY <1>2 DEF IInv, TypeOK
<1>6. SessionOK(s, "deleting", j)'
  BY <1>2, <1>3, <1>4, <1>5 DEF SessionOK, Creating, Swapping, PCs
<1> QED BY <1>2, <1>6, LockSound

LEMMA CascadeSound ==
  ASSUME IInv, NEW s \in Sessions, CascadeDelete(s)
  PROVE  IInv'
<1> PICK sc : sc = work[s].schedule
  OBVIOUS
<1> PICK named : named = {w \in SwapIds : /\ swaps[w].status \notin {"unused", "deleted"}
                                          /\ sc \in Pair(swaps[w].terms)}
  OBVIOUS
<1>1. /\ pc[s] = "deleting" /\ End(s) /\ UNCHANGED clock
      /\ \A w \in named : swapLock[w] = None
      /\ schedules' = [schedules EXCEPT ![sc] = NoRow("deleted")]
      /\ swaps' = [w \in SwapIds |-> IF w \in named
                                     THEN [swaps[w] EXCEPT !.status = "deleted"]
                                     ELSE swaps[w]]
  BY DEF CascadeDelete
<1>2. sc \in ScheduleIds /\ scheduleLock[sc] = s /\ s # None
  BY <1>1, SwapAssumption DEF IInv, SessionsOK, SessionOK
<1>3. schedules[sc].state = "live" /\ NoRow("deleted").state = "deleted" /\ NoRow("deleted") \in Rows
  BY <1>2 DEF IInv, LocksOK, NoRow, Rows
<1>4. /\ schedules' \in [ScheduleIds -> Rows]
      /\ \A x \in ScheduleIds : x # sc => schedules'[x] = schedules[x]
      /\ schedules'[sc].state = "deleted"
  BY <1>1, <1>2, <1>3 DEF IInv, TypeOK
<1>5. /\ swaps' \in [SwapIds -> SwapRows]
      /\ \A w \in SwapIds :
           \/ swaps'[w] = swaps[w]
           \/ /\ w \in named /\ swaps'[w].status = "deleted"
              /\ swaps'[w].terms = swaps[w].terms
  BY <1>1 DEF IInv, TypeOK, SwapRows, SwapStatus
<1>6. NamedOK'
  <2> SUFFICES ASSUME NEW v \in SwapIds, swaps'[v].status # "unused"
               PROVE  /\ swaps'[v].terms \in Proposals
                      /\ \A x \in Pair(swaps'[v].terms) : schedules'[x].state # "unused"
    BY DEF NamedOK
  <2>1. swaps[v].status # "unused" /\ swaps'[v].terms = swaps[v].terms
    BY <1>5
  <2> QED BY <1>4, <2>1, Terms1 DEF IInv, NamedOK
<1>7. OneApprovable'
  BY <1>5 DEF IInv, OneApprovable
<1>8. \A x \in ScheduleIds :
           /\ scheduleLock[x] \notin {None, s} => schedules'[x] = schedules[x]
           /\ schedules[x].state # "unused" => schedules'[x].state # "unused"
           /\ schedules'[x].state = "live" => schedules[x].state \in {"live", "unused"}
  BY <1>2, <1>4
<1> QED BY <1>1, <1>4, <1>5, <1>6, <1>7, <1>8, ReturnSound

-----------------------------------------------------------------------------
(* The invariant *)

LEMMA InitSound == Init => IInv
<1> SUFFICES ASSUME Init PROVE IInv
  OBVIOUS
<1>1. TypeOK
  <2>1. NoSwap \in SwapRows
    BY DEF NoSwap, SwapRows, SwapStatus
  <2>2. 0 \in Times
    BY SwapAssumption DEF Times
  <2> QED BY <2>1, <2>2, SwapAssumption, BlankJob DEF Init, TypeOK, PCs
<1>2. SessionsOK
  <2> SUFFICES ASSUME NEW s \in Sessions PROVE SessionOK(s, pc[s], work[s])
    BY DEF SessionsOK
  <2>1. pc[s] = "idle" /\ work[s] = Blank /\ s # None
    BY SwapAssumption DEF Init
  <2> QED BY <2>1, BlankJob DEF Init, SessionOK, PCs, Creating, Swapping
<1>3. LocksOK /\ NamedOK /\ OneApprovable
  BY DEF Init, LocksOK, NamedOK, OneApprovable, NoSwap
<1> QED BY <1>1, <1>2, <1>3 DEF IInv

LEMMA NextSound == IInv /\ [Next]_vars => IInv'
<1> SUFFICES ASSUME IInv, [Next]_vars PROVE IInv'
  OBVIOUS
<1>1. ASSUME NEW s \in Sessions, NEW p \in Proposals,
             \/ CreateAdminShiftSwapRequest(s, p)
             \/ \E expires \in Expiries : CreateShiftSwapRequest(s, p, expires)
      PROVE  IInv'
  BY <1>1, BeginSwapSound, ProposeSound
<1>2. ASSUME NEW s \in Sessions,
             ReadRecipientSchedule(s) \/ CheckActiveSwaps(s) \/ InsertShiftSwap(s)
      PROVE  IInv'
  BY <1>2, CheckSound
<1>3. ASSUME NEW s \in Sessions, ExpirePending(s) \/ CommitShiftSwap(s) PROVE IInv'
  BY <1>3, ExpireSound, CommitShiftSwapSound
<1>4. ASSUME NEW s \in Sessions, \E w \in SwapIds : ApproveShiftSwap(s, w) PROVE IInv'
  BY <1>4, ApproveSound
<1>5. ASSUME NEW s \in Sessions,
             LockSchedulesByIDsForSwap(s) \/ ValidateSwap(s) \/ CommitSwap(s)
      PROVE  IInv'
  BY <1>5, LockNextSound, ValidateSound, CommitSwapSound
<1>6. ASSUME NEW s \in Sessions,
             \E sc \in ScheduleIds, e \in Employees \cup {None}, slot \in Slots \cup {None} :
               UpdateSchedule(s, sc, e, slot)
      PROVE  IInv'
  BY <1>6, UpdateSound
<1>7. ASSUME NEW s \in Sessions,
             \/ WriteSchedule(s) \/ CascadeDelete(s)
             \/ \E sc \in ScheduleIds : DeleteSchedule(s, sc)
      PROVE  IInv'
  BY <1>7, WriteScheduleSound, CascadeSound, DeleteSound
<1>8. ASSUME NEW s \in Sessions, Fail(s) PROVE IInv'
  BY <1>8, QuietReturnSound DEF Fail
<1>9. ASSUME NEW w \in SwapIds, Reject(w) \/ \E accept \in BOOLEAN : Respond(w, accept)
      PROVE  IInv'
  BY <1>9, AnswerSound
<1>10. CASE \E sc \in ScheduleIds, e \in Employees, slot \in Slots : CreateSchedule(sc, e, slot)
  BY <1>10, RotaSound
<1>11. CASE Tick \/ UNCHANGED vars
  <2>1. /\ UNCHANGED <<schedules, swaps, pc, work, scheduleLock, swapLock>>
        /\ clock' \in Times
    <3>1. CASE Tick
      BY <3>1, SwapAssumption DEF Tick, tables, locks, IInv, TypeOK, Times
    <3>2. CASE UNCHANGED vars
      BY <3>2 DEF vars, IInv, TypeOK
    <3> QED BY <1>11, <3>1, <3>2
  <2>2. NamedOK' /\ OneApprovable'
    BY <2>1 DEF IInv, NamedOK, OneApprovable
  <2> QED BY <2>1, <2>2, WriteSound DEF IInv, TypeOK
<1> QED BY <1>1, <1>2, <1>3, <1>4, <1>5, <1>6, <1>7, <1>8, <1>9, <1>10, <1>11 DEF Next

LEMMA Invariance == Spec => []IInv
BY InitSound, NextSound, PTL DEF Spec

\* The tables and the sessions keep their types.
THEOREM TypeCorrect == Spec => []TypeOK
<1>1. IInv => TypeOK
  BY DEF IInv
<1> QED BY <1>1, Invariance, PTL

\* Two requests for one schedule are never both before an administrator, for
\* any number of requests: the trigger that runs when a recipient accepts sees
\* every accepted request.
THEOREM OneRequestApprovable == Spec => []OneApprovable
<1>1. IInv => OneApprovable
  BY DEF IInv
<1> QED BY <1>1, Invariance, PTL

\* Approvals and imposed swaps do not deadlock on the schedules, however many
\* run: whoever waits for the highest id waits for a transaction that has all
\* it needs.
THEOREM SwapsDoNotDeadlock == Spec => []SwapsNeverDeadlock
<1>1. IInv => SwapsNeverDeadlock
  <2> SUFFICES ASSUME IInv, NEW S \in SUBSET Sessions, S # {},
                      \A s \in S : \E t \in S : WaitsFor(s, t)
               PROVE  FALSE
    BY DEF SwapsNeverDeadlock
  <2>1. ASSUME NEW s \in S
        PROVE  /\ pc[s] = "locking" /\ NextToLock(s) \in ToLock(s)
               /\ \A x \in ToLock(s) : NextToLock(s) =< x
               /\ ToLock(s) = Missing(s, work[s].terms) /\ ToLock(s) \subseteq ScheduleIds
    <3>1. pc[s] = "locking" /\ ToLock(s) # {}
      BY DEF WaitsFor
    <3>2. work[s].terms \in Proposals
      BY <3>1 DEF IInv, SessionsOK, SessionOK, Swapping
    <3> QED BY <3>1, <3>2, NextIsLeast, Terms1 DEF ToLock, Missing
  <2>2. ASSUME NEW s \in S PROVE \E t \in S : NextToLock(s) < NextToLock(t)
    <3>1. PICK t \in S : WaitsFor(s, t)
      OBVIOUS
    <3>2. scheduleLock[NextToLock(s)] = t /\ NextToLock(s) \in ScheduleIds
      BY <2>1, <3>1 DEF WaitsFor
    <3>3. SessionOK(t, "locking", work[t])
      BY <2>1 DEF IInv, SessionsOK
    <3> QED BY <2>1, <3>2, <3>3 DEF SessionOK
  <2> DEFINE N == {NextToLock(s) : s \in S}
  <2>3. N \subseteq ScheduleIds /\ N # {}
    BY <2>1
  <2>4. N \in SUBSET Int /\ IsFiniteSet(N)
    BY <2>3, SwapAssumption, FS_Subset
  <2>5. \A x \in N : \E y \in N : x < y
    BY <2>2
  <2> HIDE DEF N
  <2>6. PICK x \in N : \A y \in N : y =< x
    BY <2>3, <2>4, Extremes
  <2>7. PICK y \in N : x < y
    BY <2>5
  <2> QED BY <2>4, <2>6, <2>7
<1> QED BY <1>1, Invariance, PTL

-----------------------------------------------------------------------------
(* The refinement *)

holder == [sc \in ScheduleIds |-> schedules[sc].employee]
deal == [w \in SwapIds |-> DealOf(swaps[w].status)]
terms == [w \in SwapIds |-> swaps[w].terms]

LEMMA Deals ==
  /\ DealOf("unused") = "none" /\ DealOf("pending_recipient") = "proposed"
  /\ DealOf("pending_admin") = "agreed" /\ DealOf("confirmed") = "done"
  /\ \A st \in {"recipient_rejected", "admin_rejected", "expired", "deleted"} :
       DealOf(st) = "closed"
BY DEF DealOf

LEMMA InitTrades == Init => Exchange!Init
<1> SUFFICES ASSUME Init PROVE Exchange!Init
  OBVIOUS
<1>1. holder \in [ScheduleIds -> Employees \cup {None}]
  BY SwapAssumption, RowTypes DEF Init, holder
<1>2. deal = [w \in SwapIds |-> "none"] /\ terms = [w \in SwapIds |-> None]
  BY Deals DEF Init, NoSwap, deal, terms
<1> QED BY <1>1, <1>2 DEF Exchange!Init, holder, deal, terms

LEMMA QuietTrades ==
  ASSUME UNCHANGED tables
  PROVE  UNCHANGED <<holder, deal, terms>>
BY DEF tables, holder, deal, terms

LEMMA ExpireTrades ==
  ASSUME IInv, NEW s \in Sessions, ExpirePending(s)
  PROVE  \E C \in SUBSET SwapIds : Exchange!Close(C)
<1> PICK lapsed : lapsed = {w \in SwapIds : Active(w) /\ Lapsed(w)}
  OBVIOUS
<1>1. /\ UNCHANGED schedules
      /\ \/ swaps' = [w \in SwapIds |-> IF w \in lapsed
                                        THEN [swaps[w] EXCEPT !.status = "expired"]
                                        ELSE swaps[w]]
         \/ UNCHANGED swaps
  BY DEF ExpirePending
<1>2. PICK C \in {lapsed, {}} :
        swaps' = [w \in SwapIds |-> IF w \in C
                                    THEN [swaps[w] EXCEPT !.status = "expired"]
                                    ELSE swaps[w]]
  BY <1>1 DEF IInv, TypeOK
<1>3. holder' = holder
  BY <1>1 DEF holder
<1>4. \A w \in SwapIds :
        /\ w \in C => swaps'[w].status = "expired" /\ swaps'[w].terms = swaps[w].terms
        /\ w \notin C => swaps'[w] = swaps[w]
  BY <1>2 DEF IInv, TypeOK, SwapRows
<1>5. terms' = terms
  BY <1>4 DEF terms
<1>6. deal' = [w \in SwapIds |-> IF w \in C THEN "closed" ELSE deal[w]]
  BY <1>4, Deals DEF deal
<1>7. \A w \in C : deal[w] \in {"proposed", "agreed"}
  BY Deals DEF deal, Active, ActiveStatus
<1>8. C \in SUBSET SwapIds
  OBVIOUS
<1> QED BY <1>3, <1>5, <1>6, <1>7, <1>8 DEF Exchange!Close, Exchange!Open, holder, deal, terms

LEMMA ProposeTrades ==
  ASSUME IInv, NEW s \in Sessions, CommitShiftSwap(s)
  PROVE  \/ UNCHANGED tables
         \/ \E w \in SwapIds, p \in Proposals : Exchange!Propose(w, p)
<1> PICK p : p = work[s].terms
  OBVIOUS
<1>1. /\ UNCHANGED schedules /\ pc[s] = "committing"
      /\ \/ UNCHANGED swaps
         \/ \E w \in SwapIds :
              /\ swaps[w] = NoSwap
              /\ swaps' = [swaps EXCEPT ![w] =
                   [status |-> "pending_recipient", terms |-> p, expires |-> work[s].time]]
  BY DEF CommitShiftSwap
<1>2. CASE UNCHANGED swaps
  BY <1>1, <1>2 DEF tables
<1>3. ASSUME NEW w \in SwapIds, swaps[w] = NoSwap,
             swaps' = [swaps EXCEPT ![w] =
               [status |-> "pending_recipient", terms |-> p, expires |-> work[s].time]]
      PROVE  p \in Proposals /\ Exchange!Propose(w, p)
  <2>1. p \in Proposals
    BY <1>1 DEF IInv, SessionsOK, SessionOK, Creating
  <2>2. /\ swaps'[w].status = "pending_recipient" /\ swaps'[w].terms = p
        /\ \A v \in SwapIds \ {w} : swaps'[v] = swaps[v]
    BY <1>3 DEF IInv, TypeOK
  <2>3. holder' = holder /\ deal[w] = "none"
    BY <1>1, <1>3, Deals DEF holder, deal, NoSwap
  <2>4. deal' = [deal EXCEPT ![w] = "proposed"]
    BY <2>2, Deals DEF deal
  <2>5. terms' = [terms EXCEPT ![w] = p]
    BY <2>2 DEF terms
  <2> QED BY <2>1, <2>3, <2>4, <2>5 DEF Exchange!Propose, holder, deal, terms
<1> QED BY <1>1, <1>2, <1>3

LEMMA AnswerTrades ==
  ASSUME IInv, NEW w \in SwapIds,
         Reject(w) \/ \E accept \in BOOLEAN : Respond(w, accept)
  PROVE  Exchange!Agree(w) \/ Exchange!Close({w})
<1>1. /\ UNCHANGED schedules
      /\ \/ /\ swaps[w].status = "pending_recipient"
            /\ swaps' = [swaps EXCEPT ![w].status = "pending_admin"]
         \/ /\ swaps[w].status \in ActiveStatus
            /\ \E st \in {"recipient_rejected", "admin_rejected"} :
                 swaps' = [swaps EXCEPT ![w].status = st]
  BY DEF Reject, Respond, ActiveStatus
<1>2. holder' = holder
  BY <1>1 DEF holder
<1>3. PICK st \in {"pending_admin", "recipient_rejected", "admin_rejected"} :
        /\ swaps' = [swaps EXCEPT ![w].status = st]
        /\ st = "pending_admin" => swaps[w].status = "pending_recipient"
        /\ swaps[w].status \in ActiveStatus
  BY <1>1 DEF ActiveStatus
<1>4. /\ swaps'[w].status = st /\ swaps'[w].terms = swaps[w].terms
      /\ \A v \in SwapIds \ {w} : swaps'[v] = swaps[v]
  BY <1>3 DEF IInv, TypeOK, SwapRows
<1>5. terms' = terms
  BY <1>4 DEF terms
<1>6. CASE st = "pending_admin"
  <2>1. deal[w] = "proposed"
    BY <1>3, <1>6, Deals DEF deal
  <2>2. deal' = [deal EXCEPT ![w] = "agreed"]
    BY <1>4, <1>6, Deals DEF deal
  <2> QED BY <1>2, <1>5, <2>1, <2>2 DEF Exchange!Agree, holder, deal, terms
<1>7. CASE st # "pending_admin"
  <2>1. deal[w] \in {"proposed", "agreed"}
    BY <1>3, Deals DEF deal, ActiveStatus
  <2>2. deal' = [v \in SwapIds |-> IF v \in {w} THEN "closed" ELSE deal[v]]
    BY <1>3, <1>4, <1>7, Deals DEF deal
  <2> QED BY <1>2, <1>5, <2>1, <2>2 DEF Exchange!Close, Exchange!Open, holder, deal, terms
<1> QED BY <1>6, <1>7

LEMMA SwapTrades ==
  ASSUME IInv, NEW s \in Sessions, CommitSwap(s)
  PROVE  \E w \in SwapIds : Exchange!Execute(w) \/ \E p \in Proposals : Exchange!Impose(w, p)
<1> PICK p, j : j = work[s] /\ p = j.terms
  OBVIOUS
<1>1. /\ pc[s] = "decided"
      /\ schedules' = [schedules EXCEPT ![p.requesterSchedule].employee = p.recipient,
                                        ![p.recipientSchedule].employee = p.requester]
      /\ \/ /\ j.swap # None
            /\ swaps[j.swap].status = "pending_admin"
            /\ swaps' = [swaps EXCEPT ![j.swap].status = "confirmed"]
         \/ \E w \in SwapIds :
              /\ swaps[w] = NoSwap
              /\ swaps' = [swaps EXCEPT ![w] =
                   [status |-> "confirmed", terms |-> p, expires |-> Never]]
  BY DEF CommitSwap
<1>2. /\ p \in Proposals
      /\ \A sc \in Pair(p) : schedules[sc] \in LiveRows
      /\ schedules[p.requesterSchedule].employee = p.requester
      /\ schedules[p.recipientSchedule].employee = p.recipient
      /\ j.swap # None => j.swap \in SwapIds /\ swaps[j.swap].terms = p
  BY <1>1, Decided
<1>3. /\ p.requesterSchedule \in ScheduleIds /\ p.recipientSchedule \in ScheduleIds
      /\ p.requesterSchedule # p.recipientSchedule
      /\ Pair(p) = {p.requesterSchedule, p.recipientSchedule}
  BY <1>2, Terms1
<1>4. /\ schedules'[p.requesterSchedule].employee = p.recipient
      /\ schedules'[p.recipientSchedule].employee = p.requester
      /\ \A sc \in ScheduleIds \ Pair(p) : schedules'[sc] = schedules[sc]
  <2>1. /\ schedules[p.requesterSchedule] \in LiveRows
        /\ schedules[p.recipientSchedule] \in LiveRows
    BY <1>2, <1>3
  <2>2. /\ schedules'[p.requesterSchedule] =
             [schedules[p.requesterSchedule] EXCEPT !.employee = p.recipient]
        /\ schedules'[p.recipientSchedule] =
             [schedules[p.recipientSchedule] EXCEPT !.employee = p.requester]
        /\ \A sc \in ScheduleIds \ Pair(p) : schedules'[sc] = schedules[sc]
    BY <1>1, <1>3 DEF IInv, TypeOK
  <2> QED BY <2>1, <2>2 DEF LiveRows
<1>5. /\ holder[p.requesterSchedule] = p.requester
      /\ holder[p.recipientSchedule] = p.recipient
      /\ holder' = [holder EXCEPT ![p.requesterSchedule] = p.recipient,
                                  ![p.recipientSchedule] = p.requester]
  BY <1>2, <1>3, <1>4 DEF holder
<1>6. Exchange!Trade(p)
  BY <1>5 DEF Exchange!Trade, holder
<1>7. CASE /\ j.swap # None
           /\ swaps[j.swap].status = "pending_admin"
           /\ swaps' = [swaps EXCEPT ![j.swap].status = "confirmed"]
  <2> PICK w : w = j.swap
    OBVIOUS
  <2>1. /\ w \in SwapIds /\ swaps[w].terms = p
        /\ swaps'[w].status = "confirmed" /\ swaps'[w].terms = swaps[w].terms
        /\ \A v \in SwapIds \ {w} : swaps'[v] = swaps[v]
    BY <1>2, <1>7 DEF IInv, TypeOK, SwapRows
  <2>2. /\ deal[w] = "agreed" /\ deal' = [deal EXCEPT ![w] = "done"]
        /\ terms' = terms /\ terms[w] = p
    BY <1>7, <2>1, Deals DEF deal, terms
  <2>3. Exchange!Trade(terms[w])
    BY <1>6, <2>2 DEF Exchange!Trade
  <2>4. Exchange!Execute(w)
    BY <2>2, <2>3 DEF Exchange!Execute, deal, terms
  <2> QED BY <2>1, <2>4
<1>8. ASSUME NEW w \in SwapIds, swaps[w] = NoSwap,
             swaps' = [swaps EXCEPT ![w] =
               [status |-> "confirmed", terms |-> p, expires |-> Never]]
      PROVE  Exchange!Impose(w, p)
  <2>1. /\ swaps'[w].status = "confirmed" /\ swaps'[w].terms = p
        /\ \A v \in SwapIds \ {w} : swaps'[v] = swaps[v]
    BY <1>8 DEF IInv, TypeOK
  <2>2. deal[w] = "none"
    BY <1>8, Deals DEF deal, NoSwap
  <2>3. deal' = [deal EXCEPT ![w] = "done"]
    BY <2>1, Deals DEF deal
  <2>4. terms' = [terms EXCEPT ![w] = p]
    BY <2>1 DEF terms
  <2> QED BY <1>6, <2>2, <2>3, <2>4 DEF Exchange!Impose, deal, terms
<1> QED BY <1>1, <1>2, <1>7, <1>8

LEMMA AssignTrades ==
  ASSUME IInv,
         \/ \E sc \in ScheduleIds, e \in Employees, slot \in Slots : CreateSchedule(sc, e, slot)
         \/ \E s \in Sessions : WriteSchedule(s)
  PROVE  \/ UNCHANGED tables
         \/ \E sc \in ScheduleIds, e \in Employees : Exchange!Assign(sc, e)
<1>1. \/ UNCHANGED tables
      \/ /\ UNCHANGED swaps
         /\ \E sc \in ScheduleIds, r \in LiveRows : schedules' = [schedules EXCEPT ![sc] = r]
  <2>1. ASSUME NEW sc \in ScheduleIds, NEW e \in Employees, NEW slot \in Slots,
               CreateSchedule(sc, e, slot)
        PROVE  /\ UNCHANGED swaps
               /\ \E r \in LiveRows : schedules' = [schedules EXCEPT ![sc] = r]
    BY <2>1 DEF CreateSchedule, LiveRows
  <2>2. ASSUME NEW s \in Sessions, WriteSchedule(s)
        PROVE  \/ UNCHANGED tables
               \/ /\ UNCHANGED swaps
                  /\ \E sc \in ScheduleIds, r \in LiveRows :
                       schedules' = [schedules EXCEPT ![sc] = r]
    <3>1. work[s].schedule \in ScheduleIds /\ work[s].row \in LiveRows
      BY <2>2 DEF WriteSchedule, IInv, SessionsOK, SessionOK
    <3> QED BY <2>2, <3>1 DEF WriteSchedule, tables
  <2> QED BY <2>1, <2>2
<1>2. ASSUME UNCHANGED swaps, NEW sc \in ScheduleIds, NEW r \in LiveRows,
             schedules' = [schedules EXCEPT ![sc] = r]
      PROVE  r.employee \in Employees /\ Exchange!Assign(sc, r.employee)
  <2>1. r.employee \in Employees
    BY DEF LiveRows
  <2>2. holder' = [holder EXCEPT ![sc] = r.employee]
    BY <1>2 DEF holder, IInv, TypeOK
  <2>3. UNCHANGED <<deal, terms>>
    BY <1>2 DEF deal, terms
  <2> QED BY <2>1, <2>2, <2>3 DEF Exchange!Assign, holder, deal, terms
<1> QED BY <1>1, <1>2

LEMMA RemoveTrades ==
  ASSUME IInv, NEW s \in Sessions, CascadeDelete(s)
  PROVE  \E sc \in ScheduleIds : Exchange!Remove(sc)
<1> PICK sc : sc = work[s].schedule
  OBVIOUS
<1> PICK named : named = {w \in SwapIds : /\ swaps[w].status \notin {"unused", "deleted"}
                                          /\ sc \in Pair(swaps[w].terms)}
  OBVIOUS
<1>1. /\ pc[s] = "deleting"
      /\ schedules' = [schedules EXCEPT ![sc] = NoRow("deleted")]
      /\ swaps' = [w \in SwapIds |-> IF w \in named
                                     THEN [swaps[w] EXCEPT !.status = "deleted"]
                                     ELSE swaps[w]]
  BY DEF CascadeDelete
<1>2. sc \in ScheduleIds /\ scheduleLock[sc] # None
  BY <1>1, SwapAssumption DEF IInv, SessionsOK, SessionOK
<1>3. holder[sc] # None
  <2>1. schedules[sc].state = "live" /\ schedules[sc] \in Rows
    BY <1>2 DEF IInv, LocksOK, TypeOK
  <2>2. schedules[sc].employee \in Employees
    BY <2>1, RowTypes
  <2> QED BY <1>2, <2>2, SwapAssumption DEF holder
<1>4. holder' = [holder EXCEPT ![sc] = None]
  BY <1>1, <1>2 DEF holder, IInv, TypeOK, NoRow
<1>5. \A w \in SwapIds :
        /\ w \in named => swaps'[w].status = "deleted" /\ swaps'[w].terms = swaps[w].terms
        /\ w \notin named => swaps'[w] = swaps[w]
  BY <1>1 DEF IInv, TypeOK, SwapRows
<1>6. terms' = terms
  BY <1>5 DEF terms
<1>7. deal' = [w \in SwapIds |-> IF Exchange!Concerns(w, sc) THEN "closed" ELSE deal[w]]
  <2> SUFFICES ASSUME NEW w \in SwapIds
               PROVE  DealOf(swaps'[w].status) =
                        IF Exchange!Concerns(w, sc) THEN "closed" ELSE deal[w]
    BY DEF deal
  <2>1. swaps[w].status \in SwapStatus /\ deal[w] = DealOf(swaps[w].status)
    BY DEF IInv, TypeOK, SwapRows, deal
  <2>2. Exchange!Concerns(w, sc) <=>
          /\ deal[w] \notin {"none", "closed"}
          /\ sc \in Pair(swaps[w].terms)
    BY DEF Exchange!Concerns, deal, Pair
  <2>3. CASE w \in named
    <3>1. DealOf(swaps'[w].status) = "closed"
      BY <1>5, <2>3, Deals
    <3>2. Exchange!Concerns(w, sc) \/ deal[w] = "closed"
      BY <2>1, <2>2, <2>3, Deals DEF SwapStatus
    <3> QED BY <3>1, <3>2
  <2>4. CASE w \notin named
    <3>1. ~Exchange!Concerns(w, sc)
      BY <2>1, <2>2, <2>4, Deals
    <3> QED BY <1>5, <2>1, <2>4, <3>1
  <2> QED BY <2>3, <2>4
<1>8. Exchange!Remove(sc)
  BY <1>3, <1>4, <1>6, <1>7 DEF Exchange!Remove, holder, deal, terms
<1> QED BY <1>2, <1>8

LEMMA NextTrades == IInv /\ [Next]_vars => [Exchange!Next]_<<holder, deal, terms>>
<1> SUFFICES ASSUME IInv, [Next]_vars PROVE Exchange!Next \/ UNCHANGED <<holder, deal, terms>>
  OBVIOUS
<1>1. CASE UNCHANGED tables
  BY <1>1, QuietTrades
<1>2. ASSUME NEW s \in Sessions, ExpirePending(s) PROVE Exchange!Next
  BY <1>2, ExpireTrades DEF Exchange!Next
<1>3. ASSUME NEW s \in Sessions, CommitShiftSwap(s) PROVE UNCHANGED tables \/ Exchange!Next
  BY <1>3, ProposeTrades DEF Exchange!Next
<1>4. ASSUME NEW w \in SwapIds, Reject(w) \/ \E accept \in BOOLEAN : Respond(w, accept)
      PROVE  Exchange!Next
  <2>1. {w} \in SUBSET SwapIds
    OBVIOUS
  <2> QED BY <1>4, <2>1, AnswerTrades DEF Exchange!Next
<1>5. ASSUME NEW s \in Sessions, CommitSwap(s) PROVE Exchange!Next
  BY <1>5, SwapTrades DEF Exchange!Next
<1>6. CASE \/ \E sc \in ScheduleIds, e \in Employees, slot \in Slots : CreateSchedule(sc, e, slot)
           \/ \E s \in Sessions : WriteSchedule(s)
  <2>1. UNCHANGED tables \/ \E sc \in ScheduleIds, e \in Employees : Exchange!Assign(sc, e)
    BY <1>6, AssignTrades
  <2> QED BY <1>1, <2>1 DEF Exchange!Next
<1>7. ASSUME NEW s \in Sessions, CascadeDelete(s) PROVE Exchange!Next
  BY <1>7, RemoveTrades DEF Exchange!Next
<1>8. ASSUME NEW s \in Sessions,
             \/ \E p \in Proposals : CreateAdminShiftSwapRequest(s, p)
             \/ \E p \in Proposals, expires \in Expiries : CreateShiftSwapRequest(s, p, expires)
             \/ ReadRecipientSchedule(s) \/ CheckActiveSwaps(s) \/ InsertShiftSwap(s)
             \/ \E w \in SwapIds : ApproveShiftSwap(s, w)
             \/ LockSchedulesByIDsForSwap(s) \/ ValidateSwap(s)
             \/ \E sc \in ScheduleIds, e \in Employees \cup {None},
                   slot \in Slots \cup {None} : UpdateSchedule(s, sc, e, slot)
             \/ \E sc \in ScheduleIds : DeleteSchedule(s, sc)
             \/ Fail(s)
      PROVE  UNCHANGED tables
  BY <1>8 DEF CreateAdminShiftSwapRequest, CreateShiftSwapRequest, ReadRecipientSchedule,
              CheckActiveSwaps, InsertShiftSwap, ApproveShiftSwap,
              LockSchedulesByIDsForSwap, ValidateSwap, UpdateSchedule, DeleteSchedule, Fail
<1>9. CASE Tick \/ UNCHANGED vars
  <2>1. UNCHANGED tables
    BY <1>9 DEF Tick, vars, tables
  <2> QED BY <1>1, <2>1
<1> QED BY <1>1, <1>2, <1>3, <1>4, <1>5, <1>6, <1>7, <1>8, <1>9 DEF Next

\* Shifts are traded as the abstract exchange promises, whatever the sizes.
THEOREM ExchangeImplemented == Spec => ImplementsExchange
<1>1. IInv /\ [Next]_vars =>
        [Exchange!Next]_<<[sc \in ScheduleIds |-> schedules[sc].employee],
                          [w \in SwapIds |-> DealOf(swaps[w].status)],
                          [w \in SwapIds |-> swaps[w].terms]>>
  BY NextTrades DEF holder, deal, terms
<1> QED BY <1>1, InitTrades, Invariance, PTL DEF Spec, ImplementsExchange, Exchange!Spec
=============================================================================
