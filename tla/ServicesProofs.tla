---------------------------- MODULE ServicesProofs ----------------------------
(***************************************************************************)
(* The small components, side by side, keep their promises: each has an    *)
(* invariant of its own that its steps preserve, and the steps of the      *)
(* others leave alone.                                                     *)
(***************************************************************************)
EXTENDS Services, FiniteSetTheorems, WellFoundedInduction, TLAPS

-----------------------------------------------------------------------------
(* Handbooks *)

OnHandbook == {"starting", "completing", "counting", "finishing", "waiving"}

\* What a call has in hand at each of its steps.
HandbookCalls ==
  \A s \in Callers :
    /\ IF sessionPc[s] \in OnHandbook
       THEN call[s].handbook \in Handbooks!Assigned
       ELSE call[s].handbook = None
    /\ sessionPc[s] \in {"completing", "counting", "finishing"} => call[s].step \in Steps
    /\ sessionPc[s] \in {"counting", "finishing"}
         => call[s].step \in progress[call[s].handbook].has
    /\ sessionPc[s] = "assigning"
         => /\ call[s].employee \in Employees /\ call[s].template \in Templates
            /\ templates[call[s].template].status \in {"published", "archived"}
    /\ sessionPc[s] \in {"publishing", "creating", "updating", "deleting"}
         => call[s].template \in Templates
    /\ sessionPc[s] \in {"creating", "updating", "deleting"} => call[s].step \in Steps

\* A handbook has steps of its template only, which is no draft any more.
StepsBelong ==
  \A h \in Handbooks!Assigned :
    /\ templates[handbooks[h].template].status \in {"published", "archived"}
    /\ \A x \in progress[h].has : steps[x].template = handbooks[h].template

\* A handbook that is not raced is active as long as a call holds it, and held
\* by one call at most.
HeldAlone ==
  \A h \in Handbooks!Assigned : ~handbooks[h].raced =>
    \A s \in Callers : call[s].handbook = h =>
      /\ Handbooks!IsActive(h)
      /\ \A r \in Callers : call[r].handbook = h => r = s

Edited(h) == templates[handbooks[h].template].edited

\* What a call counted still holds when it commits: that nothing remains, and
\* without a race that something does.
CountsHold ==
  \A s \in Callers :
    LET h == call[s].handbook
        after == progress[h].completed \cup {call[s].step}
    IN sessionPc[s] = "finishing" /\ ~Edited(h) =>
         /\ call[s].done => Handbooks!Required(h) \subseteq after
         /\ ~call[s].done /\ ~handbooks[h].raced => ~(Handbooks!Required(h) \subseteq after)

HandbookInv ==
  /\ Handbooks!TypeOK
  /\ HandbookCalls
  /\ StepsBelong
  /\ HeldAlone
  /\ CountsHold
  /\ Handbooks!CompletedMeansDone
  /\ Handbooks!AllDoneMeansFinished

LEMMA HandbookInit == Handbooks!Init => HandbookInv
<1> SUFFICES ASSUME Handbooks!Init PROVE HandbookInv
  OBVIOUS
<1> USE ServicesAssumption DEF Handbooks!HandbookAssumption
<1>1. PICK d \in InitialDrafts :
        /\ templates = [t \in Templates |->
             [status |-> IF t = d.template THEN "draft" ELSE "none", edited |-> FALSE]]
        /\ steps = [x \in Steps |->
             [template |-> IF x \in d.steps THEN d.template ELSE None, required |-> TRUE]]
  BY DEF Handbooks!Init
<1>2. /\ handbooks = [h \in HandbookIds |-> None]
      /\ progress = [h \in HandbookIds |-> [has |-> {}, completed |-> {}]]
      /\ sessionPc = [s \in Callers |-> "idle"]
      /\ call = [s \in Callers |-> Handbooks!NoCall]
  BY DEF Handbooks!Init
<1>3. Handbooks!TypeOK
  BY <1>1, <1>2 DEF Handbooks!TypeOK, Handbooks!TemplateRows, Handbooks!StepRows, Handbooks!PCs,
                    Handbooks!Calls, Handbooks!NoCall
<1>4. Handbooks!Assigned = {}
  BY <1>2 DEF Handbooks!Assigned
<1> QED
  BY <1>2, <1>3, <1>4 DEF HandbookInv, HandbookCalls, StepsBelong, HeldAlone, CountsHold, OnHandbook,
       Handbooks!NoCall, Handbooks!CompletedMeansDone, Handbooks!AllDoneMeansFinished

\* Types of what a call reads.
LEMMA HandbookTypes ==
  ASSUME HandbookInv
  PROVE  /\ \A h \in Handbooks!Assigned :
              /\ h \in HandbookIds /\ handbooks[h] \in Handbooks!HandbookRows
              /\ handbooks[h].template \in Templates
         /\ \A s \in Callers : sessionPc[s] \in OnHandbook =>
              /\ call[s].handbook \in Handbooks!Assigned
              /\ call[s].handbook \in HandbookIds
BY DEF HandbookInv, Handbooks!TypeOK, Handbooks!Assigned, Handbooks!HandbookRows, HandbookCalls

\* A call takes an active handbook in hand.
LEMMA TakesHandbook ==
  ASSUME HandbookInv, NEW s \in Callers, NEW h \in HandbookIds,
         NEW to \in {"starting", "completing", "waiving"}, NEW c \in Handbooks!Calls,
         c.handbook = h, to = "completing" => c.step \in Steps,
         Handbooks!IsActive(h),
         Handbooks!Begin(s, to, c),
         handbooks' = Handbooks!Touch(h),
         UNCHANGED <<templates, steps, progress>>
  PROVE  HandbookInv'
<1> USE ServicesAssumption DEF Handbooks!HandbookAssumption
<1>1. /\ sessionPc[s] = "idle" /\ sessionPc' = [sessionPc EXCEPT ![s] = to]
      /\ call' = [call EXCEPT ![s] = c]
  BY DEF Handbooks!Begin
<1>2. /\ handbooks \in [HandbookIds -> Handbooks!HandbookRows \cup {None}]
      /\ sessionPc \in [Callers -> Handbooks!PCs] /\ call \in [Callers -> Handbooks!Calls]
      /\ h \in Handbooks!Assigned /\ handbooks[h] \in Handbooks!HandbookRows
      /\ handbooks[h].status \in {"not_started", "in_progress"}
  BY DEF HandbookInv, Handbooks!TypeOK, Handbooks!IsActive, Handbooks!Assigned
<1>3. handbooks' = [handbooks EXCEPT ![h].raced = @ \/ Handbooks!Held(h)]
  BY DEF Handbooks!Touch
<1>4. PICK raced \in BOOLEAN :
        /\ raced = (handbooks[h].raced \/ Handbooks!Held(h))
        /\ handbooks' = [handbooks EXCEPT ![h] = [@ EXCEPT !.raced = raced]]
  BY <1>2, <1>3, Zenon
<1>5. /\ handbooks' \in [HandbookIds -> Handbooks!HandbookRows \cup {None}]
      /\ Handbooks!Assigned' = Handbooks!Assigned
      /\ \A g \in Handbooks!Assigned :
           /\ handbooks'[g].status = handbooks[g].status
           /\ handbooks'[g].template = handbooks[g].template
           /\ g # h => handbooks'[g].raced = handbooks[g].raced
      /\ handbooks'[h].raced = raced
  <2> DEFINE row == [handbooks[h] EXCEPT !.raced = raced]
  <2>1. /\ row \in Handbooks!HandbookRows /\ row.raced = raced
        /\ row.status = handbooks[h].status /\ row.template = handbooks[h].template
    BY <1>2 DEF Handbooks!HandbookRows
  <2>2. handbooks' = [handbooks EXCEPT ![h] = row]
    BY <1>4
  <2> HIDE DEF row
  <2> QED BY <1>2, <2>1, <2>2 DEF Handbooks!Assigned
<1>6. /\ call'[s] = c /\ sessionPc'[s] = to
      /\ \A r \in Callers \ {s} : call'[r] = call[r] /\ sessionPc'[r] = sessionPc[r]
  BY <1>1, <1>2
<1>7. /\ \A g : Handbooks!Required(g)' = Handbooks!Required(g)
      /\ \A g \in Handbooks!Assigned : Edited(g)' = Edited(g)
  BY <1>5 DEF Handbooks!Required, Edited
<1>8. Handbooks!TypeOK'
  BY <1>1, <1>2, <1>5 DEF HandbookInv, Handbooks!TypeOK, Handbooks!PCs
<1>9. HandbookCalls'
  BY <1>1, <1>2, <1>5, <1>6 DEF HandbookInv, HandbookCalls, OnHandbook
<1>10. StepsBelong'
  BY <1>5 DEF HandbookInv, StepsBelong
<1>11. HeldAlone'
  <2> SUFFICES ASSUME NEW g \in Handbooks!Assigned, ~handbooks'[g].raced,
                      NEW r \in Callers, call'[r].handbook = g
               PROVE  /\ Handbooks!IsActive(g)'
                      /\ \A q \in Callers : call'[q].handbook = g => q = r
    BY <1>5 DEF HeldAlone
  <2>1. CASE g = h
    <3>1. \A q \in Callers : call[q].handbook # h
      BY <1>4, <1>5, <2>1 DEF Handbooks!Held
    <3> QED BY <1>2, <1>5, <1>6, <2>1, <3>1 DEF Handbooks!IsActive
  <2>2. CASE g # h
    BY <1>1, <1>5, <1>6, <2>2 DEF HandbookInv, HeldAlone, Handbooks!IsActive
  <2> QED BY <2>1, <2>2
<1>12. CountsHold'
  <2>1. ASSUME NEW r \in Callers, sessionPc'[r] = "finishing", NEW g, g = call[r].handbook, ~Edited(g)'
        PROVE  LET after == progress[g].completed \cup {call[r].step}
               IN /\ call[r].done => Handbooks!Required(g)' \subseteq after
                  /\ ~call[r].done /\ ~handbooks'[g].raced
                       => ~(Handbooks!Required(g)' \subseteq after)
    <3>1. r # s /\ sessionPc[r] = "finishing" /\ g \in Handbooks!Assigned
      BY <1>6, <2>1, HandbookTypes DEF OnHandbook
    <3>2. ~handbooks'[g].raced => ~handbooks[g].raced
      BY <1>4, <1>5, <3>1
    <3> QED BY <1>7, <2>1, <3>1, <3>2 DEF HandbookInv, CountsHold
  <2>2. \A r \in Callers : sessionPc'[r] = "finishing" => call'[r] = call[r]
    BY <1>6
  <2> QED BY <2>1, <2>2 DEF CountsHold, Edited, Handbooks!Required
<1>13. Handbooks!CompletedMeansDone'
  BY <1>5, <1>7 DEF HandbookInv, Handbooks!CompletedMeansDone, Edited
<1>14. Handbooks!AllDoneMeansFinished'
  BY <1>4, <1>5, <1>7 DEF HandbookInv, Handbooks!AllDoneMeansFinished, Edited
<1> QED BY <1>8, <1>9, <1>10, <1>11, <1>12, <1>13, <1>14 DEF HandbookInv

\* A call begins that is not about a handbook, or a call ends without a trace.
LEMMA LeavesHandbooks ==
  ASSUME HandbookInv, NEW s \in Callers, NEW c \in Handbooks!Calls,
         NEW to \in {"idle", "assigning", "publishing", "creating", "updating", "deleting"},
         c.handbook = None,
         to = "assigning"
           => /\ c.employee \in Employees /\ c.template \in Templates
              /\ templates[c.template].status \in {"published", "archived"},
         to \in {"publishing", "creating", "updating", "deleting"} => c.template \in Templates,
         to \in {"creating", "updating", "deleting"} => c.step \in Steps,
         sessionPc' = [sessionPc EXCEPT ![s] = to],
         call' = [call EXCEPT ![s] = c],
         UNCHANGED <<templates, steps, handbooks, progress>>
  PROVE  HandbookInv'
<1> USE ServicesAssumption DEF Handbooks!HandbookAssumption
<1>1. /\ sessionPc' \in [Callers -> Handbooks!PCs] /\ call' \in [Callers -> Handbooks!Calls]
      /\ call'[s] = c /\ sessionPc'[s] = to
      /\ \A r \in Callers \ {s} : call'[r] = call[r] /\ sessionPc'[r] = sessionPc[r]
  BY DEF HandbookInv, Handbooks!TypeOK, Handbooks!PCs
<1>2. /\ Handbooks!Assigned' = Handbooks!Assigned
      /\ \A g : Handbooks!Required(g)' = Handbooks!Required(g)
      /\ \A g : Handbooks!IsActive(g)' = Handbooks!IsActive(g)
      /\ \A g : Edited(g)' = Edited(g)
  BY DEF Handbooks!Assigned, Handbooks!Required, Handbooks!IsActive, Edited
<1>3. Handbooks!TypeOK'
  BY <1>1 DEF HandbookInv, Handbooks!TypeOK
<1>4. HandbookCalls'
  BY <1>1, <1>2 DEF HandbookInv, HandbookCalls, OnHandbook
<1>5. StepsBelong'
  BY <1>2 DEF HandbookInv, StepsBelong
<1>6. HeldAlone'
  BY <1>1, <1>2 DEF HandbookInv, HeldAlone, Handbooks!Assigned
<1>7. CountsHold'
  BY <1>1, <1>2 DEF HandbookInv, CountsHold
<1>8. Handbooks!CompletedMeansDone'
  BY <1>2 DEF HandbookInv, Handbooks!CompletedMeansDone
<1>9. Handbooks!AllDoneMeansFinished'
  BY <1>2 DEF HandbookInv, Handbooks!AllDoneMeansFinished
<1> QED BY <1>3, <1>4, <1>5, <1>6, <1>7, <1>8, <1>9 DEF HandbookInv

\* A session that returns has nothing in hand.
LEMMA Returned ==
  ASSUME HandbookInv, NEW s \in Callers, Handbooks!Return(s)
  PROVE  /\ sessionPc' \in [Callers -> Handbooks!PCs] /\ call' \in [Callers -> Handbooks!Calls]
         /\ call'[s] = Handbooks!NoCall /\ sessionPc'[s] = "idle"
         /\ call'[s].handbook = None
         /\ \A r \in Callers \ {s} : call'[r] = call[r] /\ sessionPc'[r] = sessionPc[r]
BY DEF HandbookInv, Handbooks!TypeOK, Handbooks!Return, Handbooks!PCs, Handbooks!Calls,
       Handbooks!NoCall

\* An update of the status of one handbook.
LEMMA StatusUpdated ==
  ASSUME HandbookInv, NEW h \in Handbooks!Assigned,
         NEW status \in {"not_started", "in_progress", "completed", "waived"},
         handbooks' = [handbooks EXCEPT ![h].status = status]
  PROVE  /\ handbooks' \in [HandbookIds -> Handbooks!HandbookRows \cup {None}]
         /\ Handbooks!Assigned' = Handbooks!Assigned
         /\ handbooks'[h].status = status
         /\ \A g \in Handbooks!Assigned :
              /\ handbooks'[g].template = handbooks[g].template
              /\ handbooks'[g].raced = handbooks[g].raced
              /\ g # h => handbooks'[g] = handbooks[g]
<1> USE ServicesAssumption DEF Handbooks!HandbookAssumption
<1> DEFINE row == [handbooks[h] EXCEPT !.status = status]
<1>1. h \in HandbookIds /\ handbooks[h] \in Handbooks!HandbookRows
  BY HandbookTypes
<1>2. /\ row \in Handbooks!HandbookRows /\ row.status = status
      /\ row.template = handbooks[h].template /\ row.raced = handbooks[h].raced
  BY <1>1 DEF Handbooks!HandbookRows
<1>3. /\ handbooks \in [HandbookIds -> Handbooks!HandbookRows \cup {None}]
      /\ handbooks' = [handbooks EXCEPT ![h] = row]
  BY DEF HandbookInv, Handbooks!TypeOK
<1> HIDE DEF row
<1> QED BY <1>1, <1>2, <1>3 DEF Handbooks!Assigned

\* MarkEmployeeHandbookStarted and WaiveEmployeeHandbookByID.
LEMMA StatusSound ==
  ASSUME HandbookInv, NEW s \in Callers, sessionPc[s] \in OnHandbook,
         NEW status \in {"in_progress", "waived"},
         handbooks' = [handbooks EXCEPT ![call[s].handbook].status = status],
         Handbooks!Return(s),
         UNCHANGED <<templates, steps, progress>>
  PROVE  HandbookInv'
<1> USE ServicesAssumption DEF Handbooks!HandbookAssumption
<1> DEFINE h == call[s].handbook
<1>1. /\ h \in Handbooks!Assigned /\ h \in HandbookIds /\ h # None
      /\ handbooks' = [handbooks EXCEPT ![h].status = status]
  BY HandbookTypes
<1>2. /\ sessionPc' \in [Callers -> Handbooks!PCs] /\ call' \in [Callers -> Handbooks!Calls]
      /\ call'[s] = Handbooks!NoCall /\ sessionPc'[s] = "idle"
      /\ call'[s].handbook = None
      /\ \A r \in Callers \ {s} : call'[r] = call[r] /\ sessionPc'[r] = sessionPc[r]
  BY Returned
<1>3. ~handbooks[h].raced => Handbooks!IsActive(h) /\ \A r \in Callers \ {s} : call[r].handbook # h
  BY <1>1 DEF HandbookInv, HeldAlone
<1> HIDE DEF h
<1>4. /\ handbooks' \in [HandbookIds -> Handbooks!HandbookRows \cup {None}]
      /\ Handbooks!Assigned' = Handbooks!Assigned
      /\ handbooks'[h].status = status
      /\ \A g \in Handbooks!Assigned :
           /\ handbooks'[g].template = handbooks[g].template
           /\ handbooks'[g].raced = handbooks[g].raced
           /\ g # h => handbooks'[g] = handbooks[g]
  BY <1>1, StatusUpdated
<1>5. /\ \A g : Handbooks!Required(g)' = Handbooks!Required(g)
      /\ \A g \in Handbooks!Assigned : Edited(g)' = Edited(g)
  BY <1>4 DEF Handbooks!Required, Edited
<1>6. Handbooks!TypeOK'
  BY <1>2, <1>4 DEF HandbookInv, Handbooks!TypeOK
<1>7. HandbookCalls'
  BY <1>2, <1>4 DEF HandbookInv, HandbookCalls, OnHandbook
<1>8. StepsBelong'
  BY <1>4 DEF HandbookInv, StepsBelong
<1>9. HeldAlone'
  <2> SUFFICES ASSUME NEW g \in Handbooks!Assigned, ~handbooks'[g].raced,
                      NEW r \in Callers, call'[r].handbook = g
               PROVE  /\ Handbooks!IsActive(g)'
                      /\ \A q \in Callers : call'[q].handbook = g => q = r
    BY <1>4 DEF HeldAlone
  <2>1. g # None /\ r # s /\ call[r].handbook = g /\ ~handbooks[g].raced
    BY <1>2, <1>4 DEF Handbooks!Assigned
  <2>2. g # h /\ handbooks'[g] = handbooks[g]
    BY <1>3, <1>4, <2>1
  <2> QED BY <1>2, <1>4, <2>1, <2>2 DEF HandbookInv, HeldAlone, Handbooks!IsActive
<1>10. CountsHold'
  <2> SUFFICES ASSUME NEW r \in Callers, sessionPc'[r] = "finishing", ~Edited(call[r].handbook)'
               PROVE  LET g == call'[r].handbook
                          after == progress[g].completed \cup {call'[r].step}
                      IN /\ call'[r].done => Handbooks!Required(g) \subseteq after
                         /\ ~call'[r].done /\ ~handbooks'[g].raced
                              => ~(Handbooks!Required(g) \subseteq after)
    BY <1>5 DEF CountsHold
  <2>1. r # s /\ call'[r] = call[r] /\ sessionPc[r] = "finishing"
    BY <1>2
  <2>2. call[r].handbook \in Handbooks!Assigned
    BY <2>1, HandbookTypes DEF OnHandbook
  <2> QED BY <1>4, <1>5, <2>1, <2>2 DEF HandbookInv, CountsHold, Edited
<1>11. Handbooks!CompletedMeansDone'
  BY <1>4, <1>5 DEF HandbookInv, Handbooks!CompletedMeansDone, Edited
<1>12. Handbooks!AllDoneMeansFinished'
  BY <1>3, <1>4, <1>5 DEF HandbookInv, Handbooks!AllDoneMeansFinished, Edited, Handbooks!IsActive
<1> QED BY <1>6, <1>7, <1>8, <1>9, <1>10, <1>11, <1>12 DEF HandbookInv

LEMMA CompleteSound ==
  ASSUME HandbookInv, NEW s \in Callers, Handbooks!CompleteEmployeeHandbookStep(s)
  PROVE  HandbookInv'
<1>1. /\ sessionPc[s] = "completing" /\ call[s].step \in progress[call[s].handbook].has
      /\ sessionPc' = [sessionPc EXCEPT ![s] = "counting"]
      /\ UNCHANGED <<templates, steps, handbooks, progress, call>>
  BY DEF Handbooks!CompleteEmployeeHandbookStep
<1>2. /\ sessionPc' \in [Callers -> Handbooks!PCs] /\ sessionPc'[s] = "counting"
      /\ \A r \in Callers \ {s} : sessionPc'[r] = sessionPc[r]
  BY <1>1 DEF HandbookInv, Handbooks!TypeOK, Handbooks!PCs
<1>3. /\ Handbooks!Assigned' = Handbooks!Assigned
      /\ \A g : Handbooks!Required(g)' = Handbooks!Required(g)
      /\ \A g : Handbooks!IsActive(g)' = Handbooks!IsActive(g)
      /\ \A g : Edited(g)' = Edited(g)
  BY <1>1 DEF Handbooks!Assigned, Handbooks!Required, Handbooks!IsActive, Edited
<1>4. Handbooks!TypeOK'
  BY <1>1, <1>2 DEF HandbookInv, Handbooks!TypeOK
<1>5. HandbookCalls'
  BY <1>1, <1>2, <1>3 DEF HandbookInv, HandbookCalls, OnHandbook
<1>6. StepsBelong'
  BY <1>1, <1>3 DEF HandbookInv, StepsBelong
<1>7. HeldAlone'
  BY <1>1, <1>3 DEF HandbookInv, HeldAlone
<1>8. CountsHold'
  BY <1>1, <1>2, <1>3 DEF HandbookInv, CountsHold
<1>9. Handbooks!CompletedMeansDone'
  BY <1>1, <1>3 DEF HandbookInv, Handbooks!CompletedMeansDone
<1>10. Handbooks!AllDoneMeansFinished'
  BY <1>1, <1>3 DEF HandbookInv, Handbooks!AllDoneMeansFinished
<1> QED BY <1>4, <1>5, <1>6, <1>7, <1>8, <1>9, <1>10 DEF HandbookInv

LEMMA CountSound ==
  ASSUME HandbookInv, NEW s \in Callers, Handbooks!CountRemainingRequiredHandbookSteps(s)
  PROVE  HandbookInv'
<1> DEFINE h == call[s].handbook
<1> DEFINE done == Handbooks!Remaining(s) = {}
<1>1. /\ sessionPc[s] = "counting" /\ call[s] \in Handbooks!Calls
      /\ sessionPc' = [sessionPc EXCEPT ![s] = "finishing"]
      /\ call' = [call EXCEPT ![s].done = done]
      /\ UNCHANGED <<templates, steps, handbooks, progress>>
  BY DEF HandbookInv, Handbooks!TypeOK, Handbooks!CountRemainingRequiredHandbookSteps
<1>2. done <=> Handbooks!Required(h) \subseteq progress[h].completed \cup {call[s].step}
  BY DEF Handbooks!Remaining
<1>3. done \in BOOLEAN
  OBVIOUS
<1> HIDE DEF done
<1>4. /\ sessionPc' \in [Callers -> Handbooks!PCs] /\ sessionPc'[s] = "finishing"
      /\ \A r \in Callers \ {s} : sessionPc'[r] = sessionPc[r] /\ call'[r] = call[r]
      /\ call' \in [Callers -> Handbooks!Calls]
      /\ call'[s].done = done
      /\ \A r \in Callers : /\ call'[r].handbook = call[r].handbook
                            /\ call'[r].step = call[r].step
  <2> DEFINE c == [call[s] EXCEPT !.done = done]
  <2>1. /\ c \in Handbooks!Calls /\ c.done = done
        /\ c.handbook = call[s].handbook /\ c.step = call[s].step
    BY <1>1, <1>3 DEF Handbooks!Calls
  <2>2. call' = [call EXCEPT ![s] = c]
    BY <1>1
  <2> HIDE DEF c
  <2> QED BY <1>1, <2>1, <2>2 DEF HandbookInv, Handbooks!TypeOK, Handbooks!PCs
<1>5. /\ Handbooks!Assigned' = Handbooks!Assigned
      /\ \A g : Handbooks!Required(g)' = Handbooks!Required(g)
      /\ \A g : Handbooks!IsActive(g)' = Handbooks!IsActive(g)
      /\ \A g : Edited(g)' = Edited(g)
  BY <1>1 DEF Handbooks!Assigned, Handbooks!Required, Handbooks!IsActive, Edited
<1>6. Handbooks!TypeOK'
  BY <1>1, <1>4 DEF HandbookInv, Handbooks!TypeOK
<1>7. HandbookCalls'
  BY <1>1, <1>4, <1>5 DEF HandbookInv, HandbookCalls, OnHandbook
<1>8. StepsBelong'
  BY <1>1, <1>5 DEF HandbookInv, StepsBelong
<1>9. HeldAlone'
  BY <1>1, <1>4, <1>5 DEF HandbookInv, HeldAlone
<1>10. CountsHold'
  <2> SUFFICES ASSUME NEW r \in Callers, sessionPc'[r] = "finishing", ~Edited(call[r].handbook)'
               PROVE  LET g == call'[r].handbook
                          after == progress[g].completed \cup {call'[r].step}
                      IN /\ call'[r].done => Handbooks!Required(g) \subseteq after
                         /\ ~call'[r].done /\ ~handbooks[g].raced
                              => ~(Handbooks!Required(g) \subseteq after)
    BY <1>1, <1>5 DEF CountsHold
  <2>1. CASE r = s
    BY <1>2, <1>4, <2>1
  <2>2. CASE r # s
    BY <1>1, <1>4, <2>2 DEF HandbookInv, CountsHold, Edited
  <2> QED BY <2>1, <2>2
<1>11. Handbooks!CompletedMeansDone'
  BY <1>1, <1>5 DEF HandbookInv, Handbooks!CompletedMeansDone
<1>12. Handbooks!AllDoneMeansFinished'
  BY <1>1, <1>5 DEF HandbookInv, Handbooks!AllDoneMeansFinished
<1> QED BY <1>6, <1>7, <1>8, <1>9, <1>10, <1>11, <1>12 DEF HandbookInv

LEMMA FinishSound ==
  ASSUME HandbookInv, NEW s \in Callers, Handbooks!FinishStep(s)
  PROVE  HandbookInv'
<1> USE ServicesAssumption DEF Handbooks!HandbookAssumption
<1> DEFINE h == call[s].handbook
<1> DEFINE x == call[s].step
<1> DEFINE status == IF call[s].done THEN "completed" ELSE handbooks[h].status
<1>1. /\ sessionPc[s] = "finishing"
      /\ h \in Handbooks!Assigned /\ h \in HandbookIds /\ h # None /\ x \in Steps
      /\ handbooks[h] \in Handbooks!HandbookRows
  BY HandbookTypes DEF Handbooks!FinishStep, OnHandbook, HandbookInv, HandbookCalls
<1>2. /\ progress' = [progress EXCEPT ![h].completed = @ \cup {x}]
      /\ handbooks' = [handbooks EXCEPT ![h].status = status]
      /\ Handbooks!Return(s)
      /\ UNCHANGED <<templates, steps>>
  BY DEF Handbooks!FinishStep
<1>3. status \in {"not_started", "in_progress", "completed", "waived"}
  BY <1>1 DEF Handbooks!HandbookRows
<1>4. /\ ~handbooks[h].raced => /\ Handbooks!IsActive(h)
                                /\ \A r \in Callers \ {s} : call[r].handbook # h
      /\ ~Edited(h) =>
           /\ call[s].done => Handbooks!Required(h) \subseteq progress[h].completed \cup {x}
           /\ ~call[s].done /\ ~handbooks[h].raced
                => ~(Handbooks!Required(h) \subseteq progress[h].completed \cup {x})
  BY <1>1 DEF HandbookInv, HeldAlone, CountsHold
<1>5. call[s].done => status = "completed"
  OBVIOUS
<1>6. ~call[s].done => status = handbooks[h].status
  OBVIOUS
<1>7. /\ sessionPc' \in [Callers -> Handbooks!PCs] /\ call' \in [Callers -> Handbooks!Calls]
      /\ call'[s] = Handbooks!NoCall /\ sessionPc'[s] = "idle"
      /\ call'[s].handbook = None
      /\ \A r \in Callers \ {s} : call'[r] = call[r] /\ sessionPc'[r] = sessionPc[r]
  BY <1>2, Returned
<1> HIDE DEF h, x, status
<1>8. /\ handbooks' \in [HandbookIds -> Handbooks!HandbookRows \cup {None}]
      /\ Handbooks!Assigned' = Handbooks!Assigned
      /\ handbooks'[h].status = status
      /\ \A g \in Handbooks!Assigned :
           /\ handbooks'[g].template = handbooks[g].template
           /\ handbooks'[g].raced = handbooks[g].raced
           /\ g # h => handbooks'[g] = handbooks[g]
  BY <1>1, <1>2, <1>3, StatusUpdated
<1>9. /\ progress' \in [HandbookIds -> [has : SUBSET Steps, completed : SUBSET Steps]]
      /\ \A g \in HandbookIds : /\ progress'[g].has = progress[g].has
                                /\ g # h => progress'[g] = progress[g]
      /\ progress'[h].completed = progress[h].completed \cup {x}
  <2> DEFINE row == [progress[h] EXCEPT !.completed = @ \cup {x}]
  <2>1. /\ progress[h] \in [has : SUBSET Steps, completed : SUBSET Steps]
        /\ progress \in [HandbookIds -> [has : SUBSET Steps, completed : SUBSET Steps]]
    BY <1>1 DEF HandbookInv, Handbooks!TypeOK
  <2>2. /\ row \in [has : SUBSET Steps, completed : SUBSET Steps]
        /\ row.has = progress[h].has /\ row.completed = progress[h].completed \cup {x}
    BY <1>1, <2>1
  <2>3. progress' = [progress EXCEPT ![h] = row]
    BY <1>2
  <2> HIDE DEF row
  <2> QED BY <1>1, <2>1, <2>2, <2>3
<1>10. /\ \A g \in Handbooks!Assigned : Handbooks!Required(g)' = Handbooks!Required(g)
       /\ \A g \in Handbooks!Assigned : Edited(g)' = Edited(g)
  BY <1>2, <1>8, <1>9 DEF Handbooks!Required, Edited, Handbooks!Assigned
<1>11. Handbooks!TypeOK'
  BY <1>2, <1>7, <1>8, <1>9 DEF HandbookInv, Handbooks!TypeOK
<1>12. HandbookCalls'
  BY <1>2, <1>7, <1>8, <1>9, HandbookTypes DEF HandbookInv, HandbookCalls, OnHandbook
<1>13. StepsBelong'
  BY <1>2, <1>8, <1>9 DEF HandbookInv, StepsBelong, Handbooks!Assigned
<1>14. HeldAlone'
  <2> SUFFICES ASSUME NEW g \in Handbooks!Assigned, ~handbooks'[g].raced,
                      NEW r \in Callers, call'[r].handbook = g
               PROVE  /\ Handbooks!IsActive(g)'
                      /\ \A q \in Callers : call'[q].handbook = g => q = r
    BY <1>8 DEF HeldAlone
  <2>1. g # None /\ r # s /\ call[r].handbook = g /\ ~handbooks[g].raced
    BY <1>7, <1>8 DEF Handbooks!Assigned
  <2>2. g # h /\ handbooks'[g] = handbooks[g]
    BY <1>4, <1>8, <2>1
  <2> QED BY <1>7, <1>8, <2>1, <2>2 DEF HandbookInv, HeldAlone, Handbooks!IsActive
<1>15. CountsHold'
  <2>1. ASSUME NEW r \in Callers, sessionPc'[r] = "finishing", NEW g, g = call[r].handbook, ~Edited(g)'
        PROVE  LET after == progress'[g].completed \cup {call[r].step}
               IN /\ call[r].done => Handbooks!Required(g)' \subseteq after
                  /\ ~call[r].done /\ ~handbooks'[g].raced
                       => ~(Handbooks!Required(g)' \subseteq after)
    <3>1. r # s /\ sessionPc[r] = "finishing"
      BY <1>7, <2>1
    <3>2. g \in Handbooks!Assigned /\ g \in HandbookIds
      BY <2>1, <3>1, HandbookTypes DEF OnHandbook
    <3>3. ~Edited(g)
      BY <1>10, <2>1, <3>2
    <3>4. /\ call[r].done => Handbooks!Required(g) \subseteq progress[g].completed \cup {call[r].step}
          /\ ~call[r].done /\ ~handbooks[g].raced
               => ~(Handbooks!Required(g) \subseteq progress[g].completed \cup {call[r].step})
      BY <2>1, <3>1, <3>3 DEF HandbookInv, CountsHold
    <3>5. progress[g].completed \subseteq progress'[g].completed
      BY <1>9, <3>2
    <3>6. ~handbooks[g].raced => g # h
      BY <1>4, <2>1, <3>1
    <3>7. Handbooks!Required(g)' = Handbooks!Required(g) /\ handbooks'[g].raced = handbooks[g].raced
      BY <1>8, <1>10, <3>2
    <3> QED BY <1>9, <3>2, <3>4, <3>5, <3>6, <3>7
  <2>2. \A r \in Callers : sessionPc'[r] = "finishing" => call'[r] = call[r]
    BY <1>7
  <2> QED BY <2>1, <2>2 DEF CountsHold, Edited, Handbooks!Required
<1>16. Handbooks!CompletedMeansDone'
  <2> SUFFICES ASSUME NEW g \in Handbooks!Assigned, handbooks'[g].status = "completed", ~Edited(g)'
               PROVE  Handbooks!Required(g) \subseteq progress'[g].completed
    BY <1>8, <1>10 DEF Handbooks!CompletedMeansDone, Edited
  <2>1. CASE g = h
    BY <1>4, <1>5, <1>6, <1>8, <1>9, <1>10, <2>1 DEF HandbookInv, Handbooks!CompletedMeansDone, Edited
  <2>2. CASE g # h
    BY <1>8, <1>9, <1>10, <2>2 DEF HandbookInv, Handbooks!CompletedMeansDone, Edited, Handbooks!Assigned
  <2> QED BY <2>1, <2>2
<1>17. Handbooks!AllDoneMeansFinished'
  <2> SUFFICES ASSUME NEW g \in Handbooks!Assigned, Handbooks!Required(g) # {},
                      Handbooks!Required(g) \subseteq progress'[g].completed,
                      ~handbooks'[g].raced, ~Edited(g)'
               PROVE  handbooks'[g].status \in {"completed", "waived"}
    BY <1>8, <1>10 DEF Handbooks!AllDoneMeansFinished, Edited
  <2>1. CASE g = h
    BY <1>4, <1>5, <1>6, <1>8, <1>9, <1>10, <2>1
  <2>2. CASE g # h
    BY <1>8, <1>9, <1>10, <2>2 DEF HandbookInv, Handbooks!AllDoneMeansFinished, Edited, Handbooks!Assigned
  <2> QED BY <2>1, <2>2
<1> QED BY <1>11, <1>12, <1>13, <1>14, <1>15, <1>16, <1>17 DEF HandbookInv

LEMMA AssignSound ==
  ASSUME HandbookInv, NEW s \in Callers, NEW h \in HandbookIds,
         Handbooks!CreateEmployeeHandbookFromTemplate(s, h)
  PROVE  HandbookInv'
<1> USE ServicesAssumption DEF Handbooks!HandbookAssumption
<1> DEFINE e == call[s].employee
<1> DEFINE t == call[s].template
<1> DEFINE new == [employee |-> e, template |-> t, status |-> "not_started", raced |-> FALSE]
<1>1. /\ sessionPc[s] = "assigning" /\ h \notin Handbooks!Assigned
      /\ handbooks' = [g \in HandbookIds |->
           IF g = h THEN new
           ELSE IF Handbooks!IsActive(g) /\ handbooks[g].employee = e
           THEN [handbooks[g] EXCEPT !.status = "waived", !.raced = @ \/ Handbooks!Held(g)]
           ELSE handbooks[g]]
      /\ progress' = [progress EXCEPT ![h] = [has |-> Handbooks!StepsOf(t), completed |-> {}]]
      /\ Handbooks!Return(s)
      /\ UNCHANGED <<templates, steps>>
  BY DEF Handbooks!CreateEmployeeHandbookFromTemplate
<1>2. /\ e \in Employees /\ t \in Templates /\ templates[t].status \in {"published", "archived"}
      /\ new \in Handbooks!HandbookRows /\ new # None
      /\ new.template = t /\ new.status = "not_started"
  <2>1. e \in Employees /\ t \in Templates /\ templates[t].status \in {"published", "archived"}
    BY <1>1 DEF HandbookInv, HandbookCalls
  <2> HIDE DEF e, t
  <2>2. new \in Handbooks!HandbookRows
    BY <2>1 DEF Handbooks!HandbookRows
  <2> QED BY <2>1, <2>2
<1>3. /\ sessionPc' \in [Callers -> Handbooks!PCs] /\ call' \in [Callers -> Handbooks!Calls]
      /\ call'[s] = Handbooks!NoCall /\ sessionPc'[s] = "idle"
      /\ call'[s].handbook = None
      /\ \A r \in Callers \ {s} : call'[r] = call[r] /\ sessionPc'[r] = sessionPc[r]
  BY <1>1, Returned
<1> HIDE DEF new, e, t
\* What becomes of the other handbooks.
<1>4. ASSUME NEW g \in HandbookIds, g # h, g \in Handbooks!Assigned
      PROVE  /\ handbooks'[g] \in Handbooks!HandbookRows
             /\ handbooks'[g].template = handbooks[g].template
             /\ handbooks'[g] = handbooks[g] \/ handbooks'[g].status = "waived"
             /\ handbooks'[g] = handbooks[g] \/ Handbooks!IsActive(g)
             /\ ~handbooks'[g].raced =>
                  /\ ~handbooks[g].raced
                  /\ handbooks'[g] = handbooks[g] \/ ~Handbooks!Held(g)
  <2>1. CASE Handbooks!IsActive(g) /\ handbooks[g].employee = e
    <3>1. PICK raced \in BOOLEAN : raced = (handbooks[g].raced \/ Handbooks!Held(g))
      OBVIOUS
    <3>2. handbooks'[g] = [handbooks[g] EXCEPT !.status = "waived",
                                               !.raced = handbooks[g].raced \/ Handbooks!Held(g)]
      BY <1>1, <1>4, <2>1
    <3>3. handbooks'[g] = [handbooks[g] EXCEPT !.status = "waived", !.raced = raced]
      BY <3>1, <3>2, Zenon
    <3> QED BY <1>4, <2>1, <3>1, <3>3, HandbookTypes DEF Handbooks!HandbookRows
  <2>2. CASE ~(Handbooks!IsActive(g) /\ handbooks[g].employee = e)
    BY <1>1, <1>4, <2>2, HandbookTypes
  <2> QED BY <2>1, <2>2
<1>5. /\ handbooks' \in [HandbookIds -> Handbooks!HandbookRows \cup {None}]
      /\ Handbooks!Assigned' = Handbooks!Assigned \cup {h}
      /\ handbooks'[h] = new
  <2>1. ASSUME NEW g \in HandbookIds
        PROVE  /\ handbooks'[g] \in Handbooks!HandbookRows \cup {None}
               /\ handbooks'[g] # None <=> g \in Handbooks!Assigned \cup {h}
    <3>1. CASE g = h
      BY <1>1, <1>2, <3>1
    <3>2. CASE g # h /\ g \in Handbooks!Assigned
      BY <1>4, <3>2
    <3>3. CASE g # h /\ g \notin Handbooks!Assigned
      BY <1>1, <3>3 DEF Handbooks!IsActive, Handbooks!Assigned
    <3> QED BY <3>1, <3>2, <3>3
  <2>2. handbooks'[h] = new
    BY <1>1
  <2>3. handbooks' = [g \in HandbookIds |-> handbooks'[g]]
    BY <1>1
  <2>4. Handbooks!Assigned \subseteq HandbookIds /\ Handbooks!Assigned' \subseteq HandbookIds
    BY DEF Handbooks!Assigned
  <2>5. \A g \in HandbookIds : g \in Handbooks!Assigned' <=> handbooks'[g] # None
    BY DEF Handbooks!Assigned
  <2>6. Handbooks!Assigned' = Handbooks!Assigned \cup {h}
    BY <2>1, <2>4, <2>5
  <2> QED BY <2>1, <2>2, <2>3, <2>6
<1>6. /\ progress' \in [HandbookIds -> [has : SUBSET Steps, completed : SUBSET Steps]]
      /\ \A g \in HandbookIds : g # h => progress'[g] = progress[g]
      /\ progress'[h].has = Handbooks!StepsOf(t) /\ progress'[h].completed = {}
  BY <1>1 DEF HandbookInv, Handbooks!TypeOK, Handbooks!StepsOf
<1>7. \A g \in Handbooks!Assigned : g # h /\ g \in HandbookIds
  BY <1>1 DEF Handbooks!Assigned
<1>8. /\ \A g \in Handbooks!Assigned : Handbooks!Required(g)' = Handbooks!Required(g)
      /\ \A g \in Handbooks!Assigned : Edited(g)' = Edited(g)
  BY <1>1, <1>4, <1>6, <1>7 DEF Handbooks!Required, Edited
<1>9. Handbooks!TypeOK'
  BY <1>1, <1>3, <1>5, <1>6 DEF HandbookInv, Handbooks!TypeOK
<1>10. HandbookCalls'
  <2> SUFFICES ASSUME NEW r \in Callers \ {s}
               PROVE  /\ sessionPc[r] \in OnHandbook => call[r].handbook \in Handbooks!Assigned'
                      /\ sessionPc[r] \in {"counting", "finishing"}
                           => call[r].step \in progress'[call[r].handbook].has
    BY <1>1, <1>3 DEF HandbookInv, HandbookCalls, OnHandbook
  <2>1. sessionPc[r] \in OnHandbook => call[r].handbook \in Handbooks!Assigned
    BY HandbookTypes
  <2>2. sessionPc[r] \in {"counting", "finishing"}
          => sessionPc[r] \in OnHandbook /\ call[r].step \in progress[call[r].handbook].has
    BY DEF HandbookInv, HandbookCalls, OnHandbook
  <2> QED BY <1>5, <1>6, <1>7, <2>1, <2>2
<1>11. StepsBelong'
  <2> SUFFICES ASSUME NEW g \in Handbooks!Assigned \cup {h}
               PROVE  /\ templates[handbooks'[g].template].status \in {"published", "archived"}
                      /\ \A x \in progress'[g].has : steps[x].template = handbooks'[g].template
    <3>1. templates' = templates /\ steps' = steps
      BY DEF Handbooks!CreateEmployeeHandbookFromTemplate
    <3> QED BY <1>5, <3>1 DEF StepsBelong
  <2>1. CASE g = h
    BY <1>2, <1>5, <1>6, <2>1 DEF Handbooks!StepsOf
  <2>2. CASE g \in Handbooks!Assigned
    BY <1>4, <1>6, <1>7, <2>2 DEF HandbookInv, StepsBelong
  <2> QED BY <2>1, <2>2
<1>12. \A r \in Callers : call[r].handbook # h
  BY <1>1 DEF HandbookInv, HandbookCalls, Handbooks!Assigned
<1>13. HeldAlone'
  <2> SUFFICES ASSUME NEW g \in Handbooks!Assigned \cup {h}, ~handbooks'[g].raced,
                      NEW r \in Callers, call'[r].handbook = g
               PROVE  /\ Handbooks!IsActive(g)'
                      /\ \A q \in Callers : call'[q].handbook = g => q = r
    BY <1>5 DEF HeldAlone
  <2>1. g # None /\ r # s /\ call[r].handbook = g
    BY <1>3, <1>7 DEF Handbooks!Assigned
  <2>2. g \in Handbooks!Assigned /\ g # h /\ g \in HandbookIds
    BY <1>7, <1>12, <2>1
  <2>3. ~handbooks[g].raced /\ handbooks'[g] = handbooks[g]
    BY <1>4, <2>1, <2>2 DEF Handbooks!Held
  <2> QED BY <1>3, <1>5, <2>1, <2>2, <2>3 DEF HandbookInv, HeldAlone, Handbooks!IsActive
<1>14. CountsHold'
  <2>1. ASSUME NEW r \in Callers, sessionPc'[r] = "finishing", NEW g, g = call[r].handbook, ~Edited(g)'
        PROVE  LET after == progress'[g].completed \cup {call[r].step}
               IN /\ call[r].done => Handbooks!Required(g)' \subseteq after
                  /\ ~call[r].done /\ ~handbooks'[g].raced
                       => ~(Handbooks!Required(g)' \subseteq after)
    <3>1. r # s /\ sessionPc[r] = "finishing"
      BY <1>3, <2>1
    <3>2. g \in Handbooks!Assigned /\ g \in HandbookIds /\ g # h
      BY <1>7, <2>1, <3>1, HandbookTypes DEF OnHandbook
    <3>3. ~Edited(g)
      BY <1>8, <2>1, <3>2
    <3>4. ~handbooks'[g].raced => ~handbooks[g].raced
      BY <1>4, <3>2
    <3> QED BY <1>6, <1>8, <2>1, <3>1, <3>2, <3>3, <3>4 DEF HandbookInv, CountsHold
  <2>2. \A r \in Callers : sessionPc'[r] = "finishing" => call'[r] = call[r]
    BY <1>3
  <2> QED BY <2>1, <2>2 DEF CountsHold, Edited, Handbooks!Required
<1>15. Handbooks!CompletedMeansDone'
  <2> SUFFICES ASSUME NEW g \in Handbooks!Assigned \cup {h},
                      handbooks'[g].status = "completed", ~Edited(g)'
               PROVE  Handbooks!Required(g)' \subseteq progress'[g].completed
    BY <1>5 DEF Handbooks!CompletedMeansDone, Edited, Handbooks!Required
  <2>1. g \in Handbooks!Assigned /\ g # h
    BY <1>2, <1>5, <1>7
  <2>2. handbooks'[g] = handbooks[g]
    BY <1>4, <1>7, <2>1
  <2> QED BY <1>6, <1>7, <1>8, <2>1, <2>2 DEF HandbookInv, Handbooks!CompletedMeansDone, Edited
<1>16. Handbooks!AllDoneMeansFinished'
  <2> SUFFICES ASSUME NEW g \in Handbooks!Assigned \cup {h},
                      Handbooks!Required(g)' # {},
                      Handbooks!Required(g)' \subseteq progress'[g].completed,
                      ~handbooks'[g].raced, ~Edited(g)'
               PROVE  handbooks'[g].status \in {"completed", "waived"}
    BY <1>5 DEF Handbooks!AllDoneMeansFinished, Edited, Handbooks!Required
  <2>1. g \in Handbooks!Assigned /\ g # h /\ g \in HandbookIds
    BY <1>6, <1>7
  <2>2. CASE handbooks'[g] = handbooks[g]
    BY <1>6, <1>8, <2>1, <2>2 DEF HandbookInv, Handbooks!AllDoneMeansFinished, Edited
  <2>3. CASE handbooks'[g].status = "waived"
    BY <2>3
  <2> QED BY <1>4, <2>1, <2>2, <2>3
<1> QED BY <1>9, <1>10, <1>11, <1>13, <1>14, <1>15, <1>16 DEF HandbookInv

\* Work on templates: what it may change of those that handbooks are made from.
LEMMA TemplateWork ==
  ASSUME HandbookInv,
         templates' \in [Templates -> Handbooks!TemplateRows],
         steps' \in [Steps -> Handbooks!StepRows],
         sessionPc' \in [Callers -> Handbooks!PCs], call' \in [Callers -> Handbooks!Calls],
         \A r \in Callers : \/ call'[r] = call[r] /\ sessionPc'[r] = sessionPc[r]
                            \/ sessionPc'[r] = "idle" /\ call'[r].handbook = None,
         \A t \in Templates :
           /\ templates[t].status \in {"published", "archived"}
                => templates'[t].status \in {"published", "archived"}
           /\ templates[t].edited => templates'[t].edited,
         \A h \in Handbooks!Assigned : \A x \in progress[h].has :
           /\ steps'[x].template = steps[x].template
           /\ templates'[steps[x].template].edited \/ steps'[x].required = steps[x].required,
         UNCHANGED <<handbooks, progress>>
  PROVE  HandbookInv'
<1>1. /\ Handbooks!Assigned' = Handbooks!Assigned
      /\ \A g : Handbooks!IsActive(g)' = Handbooks!IsActive(g)
  BY DEF Handbooks!Assigned, Handbooks!IsActive
<1>2. ASSUME NEW g \in Handbooks!Assigned, ~Edited(g)'
      PROVE  ~Edited(g) /\ Handbooks!Required(g)' = Handbooks!Required(g)
  <2>1. /\ g \in HandbookIds /\ handbooks[g].template \in Templates
        /\ \A x \in progress[g].has : x \in Steps /\ steps[x].template = handbooks[g].template
    BY <1>2, HandbookTypes DEF HandbookInv, Handbooks!TypeOK, StepsBelong
  <2> QED BY <1>2, <2>1 DEF Edited, Handbooks!Required
<1>3. Handbooks!TypeOK'
  BY DEF HandbookInv, Handbooks!TypeOK
<1>4. HandbookCalls'
  BY <1>1 DEF HandbookInv, HandbookCalls, OnHandbook
<1>5. StepsBelong'
  BY <1>1, HandbookTypes DEF HandbookInv, StepsBelong
<1>6. HeldAlone'
  BY <1>1, ServicesAssumption
     DEF HandbookInv, HeldAlone, Handbooks!HandbookAssumption, Handbooks!Assigned
<1>7. CountsHold'
  <2>1. ASSUME NEW r \in Callers, sessionPc'[r] = "finishing", NEW g, g = call[r].handbook, ~Edited(g)'
        PROVE  LET after == progress[g].completed \cup {call[r].step}
               IN /\ call[r].done => Handbooks!Required(g)' \subseteq after
                  /\ ~call[r].done /\ ~handbooks[g].raced
                       => ~(Handbooks!Required(g)' \subseteq after)
    <3>1. sessionPc[r] = "finishing" /\ g \in Handbooks!Assigned
      BY <2>1, HandbookTypes DEF OnHandbook
    <3> QED BY <1>2, <2>1, <3>1 DEF HandbookInv, CountsHold
  <2>2. \A r \in Callers : sessionPc'[r] = "finishing" => call'[r] = call[r]
    OBVIOUS
  <2> QED BY <2>1, <2>2 DEF CountsHold, Edited, Handbooks!Required
<1>8. Handbooks!CompletedMeansDone'
  BY <1>1, <1>2 DEF HandbookInv, Handbooks!CompletedMeansDone, Edited
<1>9. Handbooks!AllDoneMeansFinished'
  BY <1>1, <1>2 DEF HandbookInv, Handbooks!AllDoneMeansFinished, Edited
<1> QED BY <1>3, <1>4, <1>5, <1>6, <1>7, <1>8, <1>9 DEF HandbookInv

\* The steps of a handbook are of a template.
LEMMA HandbookSteps ==
  ASSUME HandbookInv, NEW h \in Handbooks!Assigned, NEW x \in progress[h].has
  PROVE  /\ x \in Steps /\ h \in HandbookIds
         /\ steps[x].template \in Templates /\ steps[x].template # None
         /\ templates[steps[x].template].status \in {"published", "archived"}
BY HandbookTypes, ServicesAssumption
   DEF HandbookInv, Handbooks!TypeOK, StepsBelong, Handbooks!HandbookAssumption

LEMMA CreateTemplateSound ==
  ASSUME HandbookInv, NEW t \in Templates, Handbooks!CreateTemplateForDepartment(t)
  PROVE  HandbookInv'
<1>1. /\ templates[t].status = "none" /\ templates' = [templates EXCEPT ![t].status = "draft"]
      /\ UNCHANGED <<steps, handbooks, progress, sessionPc, call>>
  BY DEF Handbooks!CreateTemplateForDepartment
<1>2. /\ templates \in [Templates -> Handbooks!TemplateRows]
      /\ steps \in [Steps -> Handbooks!StepRows]
      /\ sessionPc \in [Callers -> Handbooks!PCs] /\ call \in [Callers -> Handbooks!Calls]
  BY DEF HandbookInv, Handbooks!TypeOK
<1>3. /\ templates' \in [Templates -> Handbooks!TemplateRows]
      /\ \A u \in Templates : u # t => templates'[u] = templates[u]
      /\ templates'[t].edited = templates[t].edited
  BY <1>1, <1>2 DEF Handbooks!TemplateRows
<1> QED BY <1>1, <1>2, <1>3, TemplateWork

LEMMA CloneSound ==
  ASSUME HandbookInv, NEW source \in Templates, NEW t \in Templates, NEW copies \in SUBSET Steps,
         Handbooks!CloneTemplateToDraft(source, t, copies)
  PROVE  HandbookInv'
<1>1. PICK copyOf \in [copies -> Handbooks!StepsOf(source)] :
        steps' = [x \in Steps |-> IF x \in copies
                   THEN [template |-> t, required |-> steps[copyOf[x]].required]
                   ELSE steps[x]]
  BY DEF Handbooks!CloneTemplateToDraft
<1>2. /\ templates[t].status = "none" /\ templates' = [templates EXCEPT ![t].status = "draft"]
      /\ copies \subseteq Handbooks!StepsOf(None)
      /\ UNCHANGED <<handbooks, progress, sessionPc, call>>
  BY DEF Handbooks!CloneTemplateToDraft
<1>3. /\ templates \in [Templates -> Handbooks!TemplateRows]
      /\ steps \in [Steps -> Handbooks!StepRows]
      /\ sessionPc \in [Callers -> Handbooks!PCs] /\ call \in [Callers -> Handbooks!Calls]
  BY DEF HandbookInv, Handbooks!TypeOK
<1>4. /\ templates' \in [Templates -> Handbooks!TemplateRows]
      /\ \A u \in Templates : u # t => templates'[u] = templates[u]
      /\ templates'[t].edited = templates[t].edited
  BY <1>2, <1>3 DEF Handbooks!TemplateRows
<1>5. steps' \in [Steps -> Handbooks!StepRows]
  BY <1>1, <1>3 DEF Handbooks!StepRows, Handbooks!StepsOf
<1>6. \A h \in Handbooks!Assigned : \A x \in progress[h].has : steps'[x] = steps[x]
  BY <1>1, <1>2, HandbookSteps DEF Handbooks!StepsOf
<1> QED BY <1>2, <1>3, <1>4, <1>5, <1>6, TemplateWork

LEMMA PublishSound ==
  ASSUME HandbookInv, NEW s \in Callers, Handbooks!PublishHandbookTemplate(s)
  PROVE  HandbookInv'
<1> DEFINE t == call[s].template
<1>1. /\ templates[t].status = "draft"
      /\ templates' = [u \in Templates |->
           IF u = t THEN [templates[u] EXCEPT !.status = "published"]
           ELSE IF templates[u].status = "published"
           THEN [templates[u] EXCEPT !.status = "archived"]
           ELSE templates[u]]
      /\ Handbooks!Return(s)
      /\ UNCHANGED <<steps, handbooks, progress>>
  BY DEF Handbooks!PublishHandbookTemplate
<1>2. /\ templates \in [Templates -> Handbooks!TemplateRows]
      /\ steps \in [Steps -> Handbooks!StepRows]
  BY DEF HandbookInv, Handbooks!TypeOK
<1> HIDE DEF t
<1>3. ASSUME NEW u \in Templates
      PROVE  /\ templates'[u] \in Handbooks!TemplateRows
             /\ templates'[u].edited = templates[u].edited
             /\ templates[u].status \in {"published", "archived"}
                  => templates'[u].status \in {"published", "archived"}
  BY <1>1, <1>2 DEF Handbooks!TemplateRows
<1>4. templates' \in [Templates -> Handbooks!TemplateRows]
  BY <1>1, <1>3
<1>5. /\ sessionPc' \in [Callers -> Handbooks!PCs] /\ call' \in [Callers -> Handbooks!Calls]
      /\ \A r \in Callers : \/ call'[r] = call[r] /\ sessionPc'[r] = sessionPc[r]
                            \/ sessionPc'[r] = "idle" /\ call'[r].handbook = None
  BY <1>1, Returned
<1> QED BY <1>1, <1>2, <1>3, <1>4, <1>5, TemplateWork

\* An edit leaves the steps of handbooks what they are, or the template edited.
LEMMA HandbookEditSound ==
  ASSUME HandbookInv, NEW s \in Callers, NEW row \in Handbooks!StepRows,
         call[s].template \in Templates, call[s].step \in Steps,
         Handbooks!Edit(s, row),
         \A h \in Handbooks!Assigned : call[s].step \in progress[h].has =>
           row.template = steps[call[s].step].template /\ row.template = call[s].template
  PROVE  HandbookInv'
<1> DEFINE t == call[s].template
<1> DEFINE x == call[s].step
<1>1. /\ steps' = [steps EXCEPT ![x] = row]
      /\ templates' = [templates EXCEPT ![t].edited = @ \/ templates[t].status # "draft"]
      /\ Handbooks!Return(s)
      /\ UNCHANGED <<handbooks, progress>>
  BY DEF Handbooks!Edit
<1>2. /\ templates \in [Templates -> Handbooks!TemplateRows]
      /\ steps \in [Steps -> Handbooks!StepRows]
      /\ t \in Templates /\ x \in Steps
  BY DEF HandbookInv, Handbooks!TypeOK
<1>3. /\ sessionPc' \in [Callers -> Handbooks!PCs] /\ call' \in [Callers -> Handbooks!Calls]
      /\ \A r \in Callers : \/ call'[r] = call[r] /\ sessionPc'[r] = sessionPc[r]
                            \/ sessionPc'[r] = "idle" /\ call'[r].handbook = None
  BY <1>1, Returned
<1>4. \A h \in Handbooks!Assigned : x \in progress[h].has =>
        row.template = steps[x].template /\ row.template = t
  OBVIOUS
<1> HIDE DEF t, x
<1>5. PICK edited \in BOOLEAN : edited = (templates[t].edited \/ templates[t].status # "draft")
  OBVIOUS
<1>6. templates' = [templates EXCEPT ![t] = [@ EXCEPT !.edited = edited]]
  BY <1>1, <1>2, <1>5, Zenon
<1>7. /\ templates' \in [Templates -> Handbooks!TemplateRows]
      /\ \A u \in Templates : u # t => templates'[u] = templates[u]
      /\ templates'[t].edited = edited
      /\ templates'[t].status = templates[t].status
  <2> DEFINE new == [templates[t] EXCEPT !.edited = edited]
  <2>1. /\ new \in Handbooks!TemplateRows /\ new.edited = edited
        /\ new.status = templates[t].status
    BY <1>2 DEF Handbooks!TemplateRows
  <2>2. templates' = [templates EXCEPT ![t] = new]
    BY <1>6
  <2> HIDE DEF new
  <2> QED BY <1>2, <2>1, <2>2
<1>8. /\ steps' \in [Steps -> Handbooks!StepRows]
      /\ steps'[x] = row /\ \A y \in Steps : y # x => steps'[y] = steps[y]
  BY <1>1, <1>2
<1>9. ASSUME NEW h \in Handbooks!Assigned, NEW y \in progress[h].has
      PROVE  /\ steps'[y].template = steps[y].template
             /\ templates'[steps[y].template].edited \/ steps'[y].required = steps[y].required
  <2>1. /\ y \in Steps
        /\ templates[steps[y].template].status \in {"published", "archived"}
    BY HandbookSteps
  <2>2. CASE y = x
    BY <1>4, <1>5, <1>7, <1>8, <2>1, <2>2
  <2>3. CASE y # x
    BY <1>8, <2>1, <2>3
  <2> QED BY <2>2, <2>3
<1>10. \A u \in Templates :
         /\ templates[u].status \in {"published", "archived"}
              => templates'[u].status \in {"published", "archived"}
         /\ templates[u].edited => templates'[u].edited
  BY <1>2, <1>5, <1>7
<1> QED BY <1>1, <1>3, <1>7, <1>8, <1>9, <1>10, TemplateWork

LEMMA EditsSound ==
  ASSUME HandbookInv, NEW s \in Callers, NEW required \in BOOLEAN,
         \/ Handbooks!CreateHandbookStep(s, required)
         \/ Handbooks!UpdateHandbookStepByID(s, required)
         \/ Handbooks!DeleteHandbookStepByID(s)
  PROVE  HandbookInv'
<1> USE ServicesAssumption DEF Handbooks!HandbookAssumption
<1> DEFINE t == call[s].template
<1> DEFINE x == call[s].step
<1>1. t \in Templates /\ x \in Steps /\ steps[x] \in Handbooks!StepRows
  <2>1. sessionPc[s] \in {"creating", "updating", "deleting"}
    BY DEF Handbooks!CreateHandbookStep, Handbooks!UpdateHandbookStepByID,
           Handbooks!DeleteHandbookStepByID
  <2> QED BY <2>1 DEF HandbookInv, HandbookCalls, Handbooks!TypeOK
<1>2. CASE Handbooks!CreateHandbookStep(s, required)
  <2> DEFINE row == [template |-> t, required |-> required]
  <2>1. steps[x].template = None /\ Handbooks!Edit(s, row)
    BY <1>2 DEF Handbooks!CreateHandbookStep
  <2>2. row \in Handbooks!StepRows
    BY <1>1 DEF Handbooks!StepRows
  <2>3. \A h \in Handbooks!Assigned : x \notin progress[h].has
    BY <2>1, HandbookSteps
  <2> HIDE DEF row
  <2> QED BY <1>1, <2>1, <2>2, <2>3, HandbookEditSound
<1>3. CASE Handbooks!UpdateHandbookStepByID(s, required)
  <2> DEFINE row == [steps[x] EXCEPT !.required = required]
  <2>1. steps[x].template = t /\ Handbooks!Edit(s, row)
    BY <1>3 DEF Handbooks!UpdateHandbookStepByID
  <2>2. row \in Handbooks!StepRows /\ row.template = steps[x].template
    BY <1>1 DEF Handbooks!StepRows
  <2> HIDE DEF row
  <2> QED BY <1>1, <2>1, <2>2, HandbookEditSound
<1>4. CASE Handbooks!DeleteHandbookStepByID(s)
  <2> DEFINE row == [template |-> None, required |-> TRUE]
  <2>1. /\ \A h \in HandbookIds : x \notin progress[h].has
        /\ Handbooks!Edit(s, row)
    BY <1>4 DEF Handbooks!DeleteHandbookStepByID
  <2>2. row \in Handbooks!StepRows
    BY DEF Handbooks!StepRows
  <2>3. \A h \in Handbooks!Assigned : x \notin progress[h].has
    BY <2>1 DEF Handbooks!Assigned
  <2> HIDE DEF row
  <2> QED BY <1>1, <2>1, <2>2, <2>3, HandbookEditSound
<1> QED BY <1>2, <1>3, <1>4

LEMMA FailSound ==
  ASSUME HandbookInv, NEW s \in Callers, Handbooks!Fail(s)
  PROVE  HandbookInv'
<1> USE ServicesAssumption DEF Handbooks!HandbookAssumption
<1>1. Handbooks!NoCall \in Handbooks!Calls /\ Handbooks!NoCall.handbook = None
  BY DEF Handbooks!NoCall, Handbooks!Calls
<1> QED BY <1>1, LeavesHandbooks DEF Handbooks!Fail, Handbooks!Return

\* The calls that begin with a template.
LEMMA TemplateCallSound ==
  ASSUME HandbookInv, NEW s \in Callers, NEW t \in Templates,
         \/ \E e \in Employees : Handbooks!AssignTemplateToEmployee(s, e, t)
         \/ Handbooks!PublishTemplate(s, t)
         \/ \E to \in {"creating", "updating", "deleting"}, x \in Steps :
              Handbooks!BeginEdit(s, t, to, x)
  PROVE  HandbookInv'
<1> USE ServicesAssumption DEF Handbooks!HandbookAssumption
<1>1. ASSUME NEW e \in Employees, Handbooks!AssignTemplateToEmployee(s, e, t)
      PROVE  HandbookInv'
  <2> DEFINE c == [Handbooks!NoCall EXCEPT !.employee = e, !.template = t]
  <2>1. /\ c \in Handbooks!Calls /\ c.handbook = None /\ c.employee = e /\ c.template = t
    BY DEF Handbooks!NoCall, Handbooks!Calls
  <2>2. /\ templates[t].status = "published"
        /\ sessionPc' = [sessionPc EXCEPT ![s] = "assigning"] /\ call' = [call EXCEPT ![s] = c]
        /\ UNCHANGED <<templates, steps, handbooks, progress>>
    BY <1>1 DEF Handbooks!AssignTemplateToEmployee, Handbooks!Begin
  <2> HIDE DEF c
  <2> QED BY <2>1, <2>2, LeavesHandbooks
<1>2. CASE Handbooks!PublishTemplate(s, t)
  <2> DEFINE c == [Handbooks!NoCall EXCEPT !.template = t]
  <2>1. /\ c \in Handbooks!Calls /\ c.handbook = None /\ c.template = t
    BY DEF Handbooks!NoCall, Handbooks!Calls
  <2>2. /\ sessionPc' = [sessionPc EXCEPT ![s] = "publishing"] /\ call' = [call EXCEPT ![s] = c]
        /\ UNCHANGED <<templates, steps, handbooks, progress>>
    BY <1>2 DEF Handbooks!PublishTemplate, Handbooks!Begin
  <2> HIDE DEF c
  <2> QED BY <2>1, <2>2, LeavesHandbooks
<1>3. ASSUME NEW to \in {"creating", "updating", "deleting"}, NEW x \in Steps,
             Handbooks!BeginEdit(s, t, to, x)
      PROVE  HandbookInv'
  <2> DEFINE c == [Handbooks!NoCall EXCEPT !.template = t, !.step = x]
  <2>1. /\ c \in Handbooks!Calls /\ c.handbook = None /\ c.template = t /\ c.step = x
    BY DEF Handbooks!NoCall, Handbooks!Calls
  <2>2. /\ sessionPc' = [sessionPc EXCEPT ![s] = to] /\ call' = [call EXCEPT ![s] = c]
        /\ UNCHANGED <<templates, steps, handbooks, progress>>
    BY <1>3 DEF Handbooks!BeginEdit, Handbooks!Begin
  <2> HIDE DEF c
  <2> QED BY <2>1, <2>2, LeavesHandbooks
<1> QED BY <1>1, <1>2, <1>3

LEMMA HandbookSame ==
  ASSUME HandbookInv, UNCHANGED handbookVars
  PROVE  HandbookInv'
<1> USE DEF handbookVars
<1>1. /\ Handbooks!Assigned' = Handbooks!Assigned
      /\ \A g : Handbooks!Required(g)' = Handbooks!Required(g)
      /\ \A g : Handbooks!IsActive(g)' = Handbooks!IsActive(g)
      /\ \A g : Edited(g)' = Edited(g)
  BY DEF Handbooks!Assigned, Handbooks!Required, Handbooks!IsActive, Edited
<1>2. Handbooks!TypeOK' /\ HandbookCalls' /\ StepsBelong'
  BY <1>1 DEF HandbookInv, Handbooks!TypeOK, HandbookCalls, StepsBelong
<1>3. HeldAlone' /\ CountsHold'
  BY <1>1 DEF HandbookInv, HeldAlone, CountsHold
<1>4. Handbooks!CompletedMeansDone' /\ Handbooks!AllDoneMeansFinished'
  BY <1>1 DEF HandbookInv, Handbooks!CompletedMeansDone, Handbooks!AllDoneMeansFinished
<1> QED BY <1>2, <1>3, <1>4 DEF HandbookInv

LEMMA HandbookNextSound ==
  ASSUME HandbookInv, Handbooks!Next
  PROVE  HandbookInv'
<1> USE ServicesAssumption DEF Handbooks!HandbookAssumption
<1>1. ASSUME NEW s \in Callers, Handbooks!EmployeeCalls(s)
      PROVE  HandbookInv'
  <2>1. ASSUME NEW h \in HandbookIds, Handbooks!StartMyHandbook(s, h)
        PROVE  HandbookInv'
    BY <2>1, TakesHandbook DEF Handbooks!StartMyHandbook, Handbooks!NoCall, Handbooks!Calls
  <2>2. ASSUME NEW h \in HandbookIds, NEW x \in Steps, Handbooks!CompleteMyHandbookStep(s, h, x)
        PROVE  HandbookInv'
    <3> DEFINE c == [Handbooks!NoCall EXCEPT !.handbook = h, !.step = x]
    <3>1. c \in Handbooks!Calls /\ c.handbook = h /\ c.step = x
      BY DEF Handbooks!NoCall, Handbooks!Calls
    <3>2. /\ Handbooks!IsActive(h) /\ Handbooks!Begin(s, "completing", c)
          /\ handbooks' = Handbooks!Touch(h) /\ UNCHANGED <<templates, steps, progress>>
      BY <2>2 DEF Handbooks!CompleteMyHandbookStep
    <3> HIDE DEF c
    <3> QED BY <3>1, <3>2, TakesHandbook
  <2>3. CASE Handbooks!MarkEmployeeHandbookStarted(s)
    BY <2>3, StatusSound DEF Handbooks!MarkEmployeeHandbookStarted, OnHandbook
  <2> QED
    BY <1>1, <2>1, <2>2, <2>3, CompleteSound, CountSound, FinishSound DEF Handbooks!EmployeeCalls
<1>2. ASSUME NEW s \in Callers, Handbooks!AdminCalls(s)
      PROVE  HandbookInv'
  <2>1. ASSUME NEW h \in HandbookIds, Handbooks!WaiveEmployeeHandbook(s, h)
        PROVE  HandbookInv'
    BY <2>1, TakesHandbook DEF Handbooks!WaiveEmployeeHandbook, Handbooks!NoCall, Handbooks!Calls
  <2>2. CASE Handbooks!WaiveEmployeeHandbookByID(s)
    BY <2>2, StatusSound DEF Handbooks!WaiveEmployeeHandbookByID, OnHandbook
  <2> QED BY <1>2, <2>1, <2>2, AssignSound, TemplateCallSound DEF Handbooks!AdminCalls
<1>3. ASSUME NEW s \in Callers, Handbooks!TemplateCalls(s)
      PROVE  HandbookInv'
  <2>1. ASSUME NEW x \in Steps,
               \/ \E t \in Templates : Handbooks!CreateStep(s, t, x)
               \/ Handbooks!UpdateStep(s, x) \/ Handbooks!DeleteStep(s, x)
        PROVE  HandbookInv'
    BY <2>1, TemplateCallSound
       DEF Handbooks!CreateStep, Handbooks!UpdateStep, Handbooks!DeleteStep
  <2>2. Handbooks!DeleteHandbookStepByID(s) => HandbookInv'
    BY EditsSound
  <2> QED
    BY <1>3, <2>1, <2>2, PublishSound, EditsSound, TemplateCallSound DEF Handbooks!TemplateCalls
<1> QED
  BY <1>1, <1>2, <1>3, FailSound, CreateTemplateSound, CloneSound DEF Handbooks!Next

\* A finished handbook that is not raced is in nobody's hands.
LEMMA FinishedStays ==
  ASSUME HandbookInv, Handbooks!Next, NEW h \in Handbooks!Assigned,
         handbooks[h].status \in {"completed", "waived"}, ~handbooks[h].raced
  PROVE  handbooks'[h].status = handbooks[h].status
<1> USE ServicesAssumption DEF Handbooks!HandbookAssumption
<1>1. /\ ~Handbooks!IsActive(h) /\ \A s \in Callers : call[s].handbook # h
      /\ h \in HandbookIds
      /\ handbooks \in [HandbookIds -> Handbooks!HandbookRows \cup {None}]
  BY HandbookTypes DEF HandbookInv, HeldAlone, Handbooks!IsActive, Handbooks!TypeOK
<1>2. ASSUME NEW g \in HandbookIds, g # h, NEW row, handbooks' = [handbooks EXCEPT ![g] = row]
      PROVE  handbooks'[h] = handbooks[h]
  BY <1>1, <1>2
<1>3. ASSUME NEW s \in Callers, Handbooks!EmployeeCalls(s)
      PROVE  handbooks'[h].status = handbooks[h].status
  <2>1. ASSUME NEW g \in HandbookIds, Handbooks!IsActive(g), handbooks' = Handbooks!Touch(g)
        PROVE  handbooks'[h].status = handbooks[h].status
    BY <1>1, <1>2, <2>1 DEF Handbooks!Touch
  <2>2. CASE Handbooks!MarkEmployeeHandbookStarted(s)
    BY <1>1, <2>2, HandbookTypes DEF Handbooks!MarkEmployeeHandbookStarted, OnHandbook
  <2>3. CASE Handbooks!FinishStep(s)
    BY <1>1, <2>3, HandbookTypes DEF Handbooks!FinishStep, OnHandbook
  <2>4. CASE UNCHANGED handbooks
    BY <2>4
  <2> QED
    BY <1>3, <2>1, <2>2, <2>3, <2>4
       DEF Handbooks!EmployeeCalls, Handbooks!StartMyHandbook, Handbooks!CompleteMyHandbookStep,
           Handbooks!CompleteEmployeeHandbookStep, Handbooks!CountRemainingRequiredHandbookSteps
<1>4. ASSUME NEW s \in Callers, Handbooks!AdminCalls(s)
      PROVE  handbooks'[h].status = handbooks[h].status
  <2>1. ASSUME NEW g \in HandbookIds, Handbooks!WaiveEmployeeHandbook(s, g)
        PROVE  handbooks'[h].status = handbooks[h].status
    BY <1>1, <1>2, <2>1 DEF Handbooks!WaiveEmployeeHandbook, Handbooks!Touch
  <2>2. ASSUME NEW g \in HandbookIds, Handbooks!CreateEmployeeHandbookFromTemplate(s, g)
        PROVE  handbooks'[h].status = handbooks[h].status
    BY <1>1, <2>2 DEF Handbooks!CreateEmployeeHandbookFromTemplate
  <2>3. CASE Handbooks!WaiveEmployeeHandbookByID(s)
    BY <1>1, <2>3, HandbookTypes DEF Handbooks!WaiveEmployeeHandbookByID, OnHandbook
  <2>4. CASE UNCHANGED handbooks
    BY <2>4
  <2> QED
    BY <1>4, <2>1, <2>2, <2>3, <2>4 DEF Handbooks!AdminCalls, Handbooks!AssignTemplateToEmployee
<1>5. ASSUME NEW s \in Callers, Handbooks!TemplateCalls(s)
      PROVE  UNCHANGED handbooks
  BY <1>5 DEF Handbooks!TemplateCalls, Handbooks!PublishTemplate, Handbooks!PublishHandbookTemplate,
       Handbooks!CreateStep, Handbooks!UpdateStep, Handbooks!DeleteStep, Handbooks!BeginEdit,
       Handbooks!CreateHandbookStep, Handbooks!UpdateHandbookStepByID,
       Handbooks!DeleteHandbookStepByID, Handbooks!Edit
<1> QED
  BY <1>3, <1>4, <1>5
     DEF Handbooks!Next, Handbooks!Fail, Handbooks!CreateTemplateForDepartment,
         Handbooks!CloneTemplateToDraft


-----------------------------------------------------------------------------
(* Locations *)

\* A shift that is being inserted has a slot, and a location.
ShiftInHand ==
  \A c \in Callers : callerPc[c] = "inserting" =>
    hand[c].slot \in Locations!Slots /\ hand[c].location \in LocationIds

LocationInv == Locations!TypeOK /\ ShiftInHand

LEMMA PagesTyped ==
  /\ MaxSlot \in Nat /\ DefaultSlots \subseteq Locations!Slots
  /\ Locations!EmptyPage \in Locations!Pages
  /\ Locations!EmptyPage.names \in Locations!Rows
  /\ Locations!EmptyPage.slots \in [LocationIds -> SUBSET Locations!Slots]
  /\ Locations!NoHand \in Locations!Hands
<1>1. MaxSlot \in Nat /\ DefaultSlots \subseteq Locations!Slots
  BY ServicesAssumption DEF Locations!LocationsAssumption
<1>2. /\ Locations!EmptyPage \in Locations!Pages
      /\ Locations!EmptyPage.names \in Locations!Rows
      /\ Locations!EmptyPage.slots \in [LocationIds -> SUBSET Locations!Slots]
  BY DEF Locations!EmptyPage, Locations!Pages, Locations!Rows
<1>3. Locations!NoHand \in Locations!Hands
  BY <1>1, <1>2 DEF Locations!NoHand, Locations!Hands
<1> QED BY <1>1, <1>2, <1>3

LEMMA LocationInit == Locations!Init => LocationInv
<1> SUFFICES ASSUME Locations!Init PROVE LocationInv
  OBVIOUS
<1>1. Locations!TypeOK
  BY PagesTyped DEF Locations!Init, Locations!TypeOK, Locations!PCs
<1>2. ShiftInHand
  BY DEF Locations!Init, ShiftInHand
<1> QED BY <1>1, <1>2 DEF LocationInv

LEMMA LocationTypes ==
  ASSUME LocationInv
  PROVE  /\ location \in Locations!Rows
         /\ shifts \in [LocationIds -> SUBSET Locations!Slots]
         /\ cache \in Locations!Entries \cup {None}
         /\ callerPc \in [Callers -> Locations!PCs]
         /\ hand \in [Callers -> Locations!Hands]
BY DEF LocationInv, Locations!TypeOK

\* Rows that change, and a caller that goes on without a shift in its hand.
LEMMA RowsChange ==
  ASSUME LocationInv, NEW c \in Callers, NEW to \in Locations!PCs \ {"inserting"},
         callerPc' = [callerPc EXCEPT ![c] = to],
         location' \in Locations!Rows,
         shifts' \in [LocationIds -> SUBSET Locations!Slots],
         cache' \in Locations!Entries \cup {None},
         NEW h \in Locations!Hands,
         hand' = [hand EXCEPT ![c] = h]
  PROVE  LocationInv'
<1>1. /\ callerPc' \in [Callers -> Locations!PCs] /\ hand' \in [Callers -> Locations!Hands]
      /\ callerPc'[c] = to
      /\ \A d \in Callers \ {c} : callerPc'[d] = callerPc[d] /\ hand'[d] = hand[d]
  BY LocationTypes
<1>2. Locations!TypeOK'
  BY <1>1 DEF Locations!TypeOK
<1>3. ShiftInHand'
  BY <1>1 DEF LocationInv, ShiftInHand
<1> QED BY <1>2, <1>3 DEF LocationInv

\* The writes that are one statement.
LEMMA WriteSound ==
  ASSUME LocationInv, NEW c \in Callers, NEW l \in LocationIds,
         \/ \E name \in Names : \/ Locations!CreateOrganizationLocation(c, l, name)
                                \/ Locations!UpdateLocation(c, l, name)
         \/ Locations!DeleteLocation(c, l)
         \/ \E n \in Locations!Slots : Locations!DeleteShift(c, l, n)
  PROVE  LocationInv'
<1>1. /\ callerPc' = [callerPc EXCEPT ![c] = "invalidating"]
      /\ cache' = cache /\ hand' = hand
      /\ \/ location' = location
         \/ \E name \in Names \cup {None} : location' = [location EXCEPT ![l] = name]
      /\ \/ shifts' = shifts
         \/ shifts' = [shifts EXCEPT ![l] = DefaultSlots]
         \/ shifts' = [shifts EXCEPT ![l] = {}]
         \/ \E n \in Locations!Slots : shifts' = [shifts EXCEPT ![l] = @ \ {n}]
  BY DEF Locations!CreateOrganizationLocation, Locations!UpdateLocation,
         Locations!DeleteLocation, Locations!DeleteShift, Locations!Goto
<1>2. location' \in Locations!Rows
  BY <1>1, LocationTypes DEF Locations!Rows
<1>3. shifts' \in [LocationIds -> SUBSET Locations!Slots]
  BY <1>1, LocationTypes, PagesTyped
<1>4. hand' = [hand EXCEPT ![c] = hand[c]] /\ hand[c] \in Locations!Hands
        /\ cache' \in Locations!Entries \cup {None}
  BY <1>1, LocationTypes
<1>5. "invalidating" \in Locations!PCs \ {"inserting"}
  BY DEF Locations!PCs
<1> QED BY <1>1, <1>2, <1>3, <1>4, <1>5, RowsChange

LEMMA DeleteOrganizationSound ==
  ASSUME LocationInv, Locations!DeleteOrganization
  PROVE  LocationInv'
<1>1. Locations!TypeOK'
  BY PagesTyped DEF LocationInv, Locations!DeleteOrganization, Locations!TypeOK
<1>2. ShiftInHand'
  BY DEF LocationInv, Locations!DeleteOrganization, ShiftInHand
<1> QED BY <1>1, <1>2 DEF LocationInv

LEMMA NaturalOrder ==
  \E R : IsWellFoundedOn(R, Nat) /\ \A m, n \in Nat : m < n => <<m, n>> \in R
<1> DEFINE R == OpToRel(<, Nat)
<1>1. IsWellFoundedOn(R, Nat)
  BY Zenon, NatLessThanWellFounded
<1>2. \A m, n \in Nat : m < n => <<m, n>> \in R
  BY DEF OpToRel
<1> HIDE DEF R
<1> QED BY Zenon, <1>1, <1>2

LEMMA LeastNatural ==
  ASSUME NEW T \in SUBSET Nat, T # {}
  PROVE  \E n \in T : \A m \in T : n <= m
<1>1. PICK R : IsWellFoundedOn(R, Nat) /\ \A m, n \in Nat : m < n => <<m, n>> \in R
  BY Zenon, NaturalOrder
<1>2. \E n \in T : \A m \in T : ~(<<m, n>> \in R)
  <2>1. IsWellFoundedOn(R, Nat) /\ T \subseteq Nat
    BY <1>1
  <2> QED BY <2>1, WFMin
<1>3. PICK n \in T : \A m \in T : ~(<<m, n>> \in R)
  BY <1>2
<1>4. \A m \in T : ~(m < n)
  BY <1>1, <1>3
<1>5. \A m \in T : m \in Nat /\ n \in Nat
  OBVIOUS
<1>6. \A m \in T : n <= m
  BY <1>4, <1>5
<1> QED BY <1>6

\* The lowest free slot is a slot.
LEMMA CreateShiftSound ==
  ASSUME LocationInv, NEW c \in Callers, NEW l \in LocationIds, Locations!CreateShift(c, l)
  PROVE  LocationInv'
<1> DEFINE free == Locations!Slots \ shifts[l]
           slot == CHOOSE n \in free : \A m \in free : n <= m
           h == [hand[c] EXCEPT !.location = l, !.slot = slot]
<1>1. /\ free # {} /\ callerPc' = [callerPc EXCEPT ![c] = "inserting"]
      /\ UNCHANGED <<location, shifts, cache>>
  BY DEF Locations!CreateShift, Locations!Goto
<1>2. \E n \in free : \A m \in free : n <= m
  <2>1. free \in SUBSET Nat
    BY PagesTyped DEF Locations!Slots
  <2> QED BY <1>1, <2>1, LeastNatural
<1> HIDE DEF free
<1>3. slot \in free
  BY <1>2
<1> HIDE DEF slot
<1>4. slot \in Locations!Slots /\ slot \in 0..MaxSlot
  BY <1>3, PagesTyped DEF free, Locations!Slots
<1>5. hand[c] \in Locations!Hands
  BY LocationTypes
<1>6. h \in Locations!Hands /\ h.slot = slot /\ h.location = l
  BY <1>4, <1>5 DEF Locations!Hands
<1>7. hand' = [hand EXCEPT ![c] = h]
  <2>1. hand' = [hand EXCEPT ![c].location = l, ![c].slot = slot]
    BY DEF Locations!CreateShift, slot, free
  <2> QED BY <2>1, LocationTypes
<1> HIDE DEF h
<1>8. /\ callerPc' \in [Callers -> Locations!PCs] /\ hand' \in [Callers -> Locations!Hands]
      /\ hand'[c] = h
      /\ \A d \in Callers \ {c} : callerPc'[d] = callerPc[d] /\ hand'[d] = hand[d]
  BY <1>1, <1>6, <1>7, LocationTypes DEF Locations!PCs
<1>9. Locations!TypeOK'
  BY <1>1, <1>8 DEF LocationInv, Locations!TypeOK
<1>10. ShiftInHand'
  BY <1>4, <1>6, <1>8 DEF LocationInv, ShiftInHand
<1> QED BY <1>9, <1>10 DEF LocationInv

LEMMA InsertShiftSound ==
  ASSUME LocationInv, NEW c \in Callers, Locations!InsertShift(c)
  PROVE  LocationInv'
<1>1. hand[c].slot \in Locations!Slots
  BY DEF LocationInv, ShiftInHand, Locations!InsertShift
<1>2. PICK to \in {"invalidating", "idle"} : callerPc' = [callerPc EXCEPT ![c] = to]
  BY DEF Locations!InsertShift
<1>3. /\ \/ shifts' = shifts
         \/ shifts' = [shifts EXCEPT ![hand[c].location] = @ \cup {hand[c].slot}]
      /\ hand' = [hand EXCEPT ![c] = Locations!NoHand]
      /\ UNCHANGED <<location, cache>>
  BY DEF Locations!InsertShift, Locations!Drop
<1>4. shifts' \in [LocationIds -> SUBSET Locations!Slots]
  BY <1>1, <1>3, LocationTypes
<1>5. to \in Locations!PCs \ {"inserting"} /\ location' \in Locations!Rows
        /\ cache' \in Locations!Entries \cup {None}
  BY <1>3, LocationTypes DEF Locations!PCs
<1> QED BY <1>2, <1>3, <1>4, <1>5, RowsChange, PagesTyped

\* InvalidateLocationListCache, ListAllLocations and CachePage.
LEMMA CacheSound ==
  ASSUME LocationInv, NEW c \in Callers,
         \/ Locations!InvalidateLocationListCache(c) \/ Locations!ListAllLocations(c)
         \/ Locations!CachePage(c)
  PROVE  LocationInv'
<1> DEFINE entry == [page |-> hand[c].page, expires |-> TRUE]
<1>1. hand[c] \in Locations!Hands /\ entry \in Locations!Entries
  BY LocationTypes DEF Locations!Hands, Locations!Entries
<1>2. /\ UNCHANGED <<location, shifts>>
      /\ cache' \in {cache, None, entry}
      /\ hand' = hand \/ hand' = [hand EXCEPT ![c] = Locations!NoHand]
  BY DEF Locations!InvalidateLocationListCache, Locations!ListAllLocations,
         Locations!CachePage, Locations!Drop
<1>3. PICK to \in {"idle", "querying"} : callerPc' = [callerPc EXCEPT ![c] = to]
  BY DEF Locations!InvalidateLocationListCache, Locations!ListAllLocations,
         Locations!CachePage, Locations!Goto
<1> HIDE DEF entry
<1>4. PICK h \in Locations!Hands : hand' = [hand EXCEPT ![c] = h]
  BY <1>1, <1>2, LocationTypes, PagesTyped
<1>5. /\ to \in Locations!PCs \ {"inserting"} /\ location' \in Locations!Rows
      /\ shifts' \in [LocationIds -> SUBSET Locations!Slots]
      /\ cache' \in Locations!Entries \cup {None}
  BY <1>1, <1>2, LocationTypes DEF Locations!PCs
<1> QED BY <1>3, <1>4, <1>5, RowsChange

\* QueryLocations and QueryShifts.
LEMMA QuerySound ==
  ASSUME LocationInv, NEW c \in Callers,
         Locations!QueryLocations(c) \/ Locations!QueryShifts(c)
  PROVE  LocationInv'
<1>1. hand[c] \in Locations!Hands /\ hand[c].page \in Locations!Pages
  BY LocationTypes DEF Locations!Hands
<1>2. UNCHANGED <<location, shifts, cache>>
  BY DEF Locations!QueryLocations, Locations!QueryShifts
<1>3. PICK to \in {"reading", "caching"} : callerPc' = [callerPc EXCEPT ![c] = to]
  BY DEF Locations!QueryLocations, Locations!QueryShifts, Locations!Goto
<1>4. PICK page \in Locations!Pages : hand' = [hand EXCEPT ![c].page = page]
  <2>1. CASE Locations!QueryLocations(c)
    <3> DEFINE page == [hand[c].page EXCEPT !.names = location]
    <3>1. page \in Locations!Pages
      BY <1>1, LocationTypes DEF Locations!Pages
    <3>2. hand' = [hand EXCEPT ![c].page = page]
      BY <2>1 DEF Locations!QueryLocations
    <3> HIDE DEF page
    <3> QED BY <3>1, <3>2
  <2>2. CASE Locations!QueryShifts(c)
    <3> DEFINE slots == [l \in LocationIds |-> IF hand[c].page.names[l] = None THEN {}
                                               ELSE shifts[l]]
               page == [hand[c].page EXCEPT !.slots = slots]
    <3>1. slots \in [LocationIds -> SUBSET Locations!Slots]
      BY LocationTypes
    <3>2. hand' = [hand EXCEPT ![c].page = page]
      BY <2>2 DEF Locations!QueryShifts
    <3> HIDE DEF slots
    <3>3. page \in Locations!Pages
      BY <1>1, <3>1 DEF Locations!Pages
    <3> HIDE DEF page
    <3> QED BY <3>2, <3>3
  <2> QED BY <2>1, <2>2
<1> DEFINE h == [hand[c] EXCEPT !.page = page]
<1>5. h \in Locations!Hands
  BY <1>1 DEF Locations!Hands
<1>6. hand' = [hand EXCEPT ![c] = h]
  BY <1>4
<1> HIDE DEF h
<1>7. /\ to \in Locations!PCs \ {"inserting"} /\ location' \in Locations!Rows
      /\ shifts' \in [LocationIds -> SUBSET Locations!Slots]
      /\ cache' \in Locations!Entries \cup {None}
  BY <1>2, LocationTypes DEF Locations!PCs
<1> QED BY <1>3, <1>5, <1>6, <1>7, RowsChange

LEMMA ExpireSound ==
  ASSUME LocationInv, Locations!Expire
  PROVE  LocationInv'
BY DEF LocationInv, Locations!Expire, Locations!TypeOK, ShiftInHand

LEMMA LocationSame ==
  ASSUME LocationInv, UNCHANGED locationVars
  PROVE  LocationInv'
BY DEF locationVars, LocationInv, Locations!TypeOK, ShiftInHand

LEMMA LocationNextSound ==
  ASSUME LocationInv, Locations!Next
  PROVE  LocationInv'
<1>1. ASSUME NEW c \in Callers, NEW l \in LocationIds,
             \/ \E name \in Names : \/ Locations!CreateOrganizationLocation(c, l, name)
                                    \/ Locations!UpdateLocation(c, l, name)
             \/ Locations!DeleteLocation(c, l)
             \/ \E n \in Locations!Slots : Locations!DeleteShift(c, l, n)
      PROVE  LocationInv'
  BY <1>1, WriteSound
<1>2. ASSUME NEW c \in Callers, NEW l \in LocationIds, Locations!CreateShift(c, l)
      PROVE  LocationInv'
  BY <1>2, CreateShiftSound
<1>3. CASE Locations!DeleteOrganization
  BY <1>3, DeleteOrganizationSound
<1>4. ASSUME NEW c \in Callers, Locations!ListAllLocations(c) \/ Locations!Proceed(c)
      PROVE  LocationInv'
  BY <1>4, InsertShiftSound, CacheSound, QuerySound DEF Locations!Proceed
<1>5. CASE Locations!Expire
  BY <1>5, ExpireSound
<1> QED BY <1>1, <1>2, <1>3, <1>4, <1>5 DEF Locations!Next

-----------------------------------------------------------------------------
(* Authentication *)

\* What a request has in hand at each of its steps.
AuthCalls ==
  \A q \in Callers :
    /\ requestPc[q] = "password" => req[q].user \in Users /\ req[q].ip \in Ips
    /\ requestPc[q] = "code"
         => req[q].ip \in Ips /\ (req[q].session # None => req[q].user \in Users)
    /\ requestPc[q] \in {"session", "spending", "enabling", "disabling"}
         => req[q].user \in Users
    /\ requestPc[q] = "spending" => req[q].session \in SessionIds

Failures(store, k) == IF attempts[store][k] = None THEN 0 ELSE attempts[store][k].count

\* The requests that were let through and may still fail.
OnTheirWay(store, k) ==
  {q \in Callers : /\ requestPc[q] = IF store = "login" THEN "password" ELSE "code"
                   /\ k \in {req[q].user, req[q].ip}}

\* The counters that are asked: email and address for logins, address for codes.
Asked == {"login"} \X Auth!Keys \cup {"code"} \X Ips

\* A failure on its way counts already.
FailuresAhead ==
  \A c \in Asked :
    Failures(c[1], c[2]) + Cardinality(OnTheirWay(c[1], c[2]))
      < MaxFailures + Cardinality(Callers)

AuthInv == Auth!TypeOK /\ AuthCalls /\ FailuresAhead

LEMMA CallersFinite ==
  /\ IsFiniteSet(Callers) /\ Cardinality(Callers) \in Nat
  /\ Auth!Cardinality(Callers) = Cardinality(Callers)
<1>1. IsFiniteSet(Callers)
  BY ServicesAssumption DEF Auth!AuthAssumption, Auth!IsFiniteSet, IsFiniteSet
<1>2. Auth!Cardinality(Callers) = Cardinality(Callers)
  BY Zenon DEF Auth!Cardinality, Auth!IsFiniteSet, Cardinality, IsFiniteSet
<1> QED BY <1>1, <1>2, FS_CardinalityType

LEMMA CheckedSound ==
  ASSUME NEW a \in Auth!States \cup {None}, NEW now \in Auth!Times
  PROVE  /\ Auth!Checked(a, now) \in Auth!States \cup {None}
         /\ Auth!Checked(a, now) # None =>
              a # None /\ Auth!Checked(a, now).count = a.count
         /\ Auth!Allowed(a, now) /\ Auth!Checked(a, now) # None =>
              Auth!Checked(a, now).count < MaxFailures
BY ServicesAssumption
   DEF Auth!AuthAssumption, Auth!States, Auth!Times, Auth!Deadlines, Auth!Checked, Auth!Allowed,
       Auth!IsLocked, Auth!IsOld, Auth!IsFull

LEMMA RecordedSound ==
  ASSUME NEW a \in Auth!States \cup {None}, NEW now \in Auth!Times
  PROVE  /\ Auth!Recorded(a, now) \in Auth!States
         /\ Auth!Recorded(a, now) # None
         /\ \/ Auth!Recorded(a, now).count = 1
            \/ a # None /\ Auth!Recorded(a, now).count = a.count + 1
BY ServicesAssumption
   DEF Auth!AuthAssumption, Auth!States, Auth!Times, Auth!Deadlines, Auth!Recorded, Auth!IsOld

\* How a counter and the requests on their way may move.
LEMMA AheadKept ==
  ASSUME NEW P \in SUBSET Callers, NEW Q \in SUBSET Callers, NEW m \in Nat, NEW n \in Nat,
         m + Cardinality(P) < MaxFailures + Cardinality(Callers),
         \/ Q \subseteq P /\ (n = 0 \/ n <= m)
         \/ n < MaxFailures
         \/ \E q \in P : Q \subseteq P \ {q} /\ (n <= 1 \/ n <= m + 1)
  PROVE  n + Cardinality(Q) < MaxFailures + Cardinality(Callers)
<1>1. IsFiniteSet(Callers) /\ MaxFailures \in Nat \ {0}
  BY CallersFinite, ServicesAssumption DEF Auth!AuthAssumption
<1>2. /\ IsFiniteSet(P) /\ IsFiniteSet(Q)
      /\ Cardinality(P) <= Cardinality(Callers) /\ Cardinality(Q) <= Cardinality(Callers)
  BY <1>1, FS_Subset
<1>3. Cardinality(P) \in Nat /\ Cardinality(Q) \in Nat /\ Cardinality(Callers) \in Nat
  BY <1>1, <1>2, FS_CardinalityType
<1>4. CASE Q \subseteq P /\ (n = 0 \/ n <= m)
  <2>1. Cardinality(Q) <= Cardinality(P)
    BY <1>2, <1>4, FS_Subset
  <2> QED BY <1>1, <1>2, <1>3, <1>4, <2>1
<1>5. CASE n < MaxFailures
  BY <1>1, <1>2, <1>3, <1>5
<1>6. ASSUME NEW q \in P, Q \subseteq P \ {q}, n <= 1 \/ n <= m + 1
      PROVE  n + Cardinality(Q) < MaxFailures + Cardinality(Callers)
  <2>1. IsFiniteSet(P \ {q}) /\ Cardinality(P \ {q}) = Cardinality(P) - 1
    BY <1>2, FS_RemoveElement
  <2>2. Cardinality(Q) <= Cardinality(P \ {q})
    BY <1>6, <2>1, FS_Subset
  <2> QED BY <1>1, <1>2, <1>3, <1>6, <2>1, <2>2
<1> QED BY <1>4, <1>5, <1>6

LEMMA AuthInit == Auth!Init => AuthInv
<1> SUFFICES ASSUME Auth!Init PROVE AuthInv
  OBVIOUS
<1> USE ServicesAssumption DEF Auth!AuthAssumption
<1>1. Auth!TypeOK
  BY DEF Auth!Init, Auth!TypeOK, Auth!Times, Auth!Factors, Auth!PCs, Auth!Reqs, Auth!NoReq
<1>2. AuthCalls
  BY DEF Auth!Init, AuthCalls
<1>3. ASSUME NEW c \in Asked
      PROVE  Failures(c[1], c[2]) + Cardinality(OnTheirWay(c[1], c[2]))
               < MaxFailures + Cardinality(Callers)
  <2>1. Failures(c[1], c[2]) = 0
    BY DEF Auth!Init, Failures, Asked, Auth!Stores, Auth!Keys
  <2>2. OnTheirWay(c[1], c[2]) = {}
    BY DEF Auth!Init, OnTheirWay
  <2>3. Cardinality({}) = 0 /\ Cardinality(Callers) \in Nat
    BY FS_EmptySet, CallersFinite
  <2> QED BY <2>1, <2>2, <2>3
<1> QED BY <1>1, <1>2, <1>3 DEF AuthInv, FailuresAhead

LEMMA AuthTypes ==
  ASSUME AuthInv
  PROVE  /\ \A store \in Auth!Stores, k \in Auth!Keys :
              attempts[store][k] \in Auth!States \cup {None}
         /\ \A c \in Asked : /\ c[1] \in Auth!Stores /\ c[2] \in Auth!Keys
                             /\ Failures(c[1], c[2]) \in Nat
                             /\ OnTheirWay(c[1], c[2]) \in SUBSET Callers
         /\ \A q \in Callers : req[q] \in Auth!Reqs /\ req[q].now \in Auth!Times
         /\ clock \in Auth!Times
BY DEF AuthInv, Auth!TypeOK, Asked, Auth!Stores, Auth!Keys, Failures, OnTheirWay, Auth!States, Auth!Reqs

LEMMA AheadSound ==
  ASSUME AuthInv,
         \A c \in Asked :
           /\ Failures(c[1], c[2])' \in Nat
           /\ OnTheirWay(c[1], c[2])' \in SUBSET Callers
           /\ \/ /\ OnTheirWay(c[1], c[2])' \subseteq OnTheirWay(c[1], c[2])
                 /\ \/ Failures(c[1], c[2])' = 0
                    \/ Failures(c[1], c[2])' <= Failures(c[1], c[2])
              \/ Failures(c[1], c[2])' < MaxFailures
              \/ \E q \in OnTheirWay(c[1], c[2]) :
                   /\ OnTheirWay(c[1], c[2])' \subseteq OnTheirWay(c[1], c[2]) \ {q}
                   /\ \/ Failures(c[1], c[2])' <= 1
                      \/ Failures(c[1], c[2])' <= Failures(c[1], c[2]) + 1
  PROVE  FailuresAhead'
<1> SUFFICES ASSUME NEW c \in Asked
             PROVE  Failures(c[1], c[2])' + Cardinality(OnTheirWay(c[1], c[2])')
                      < MaxFailures + Cardinality(Callers)
  BY DEF FailuresAhead, Asked, Auth!Keys
<1>1. /\ Failures(c[1], c[2]) \in Nat /\ OnTheirWay(c[1], c[2]) \in SUBSET Callers
      /\ Failures(c[1], c[2]) + Cardinality(OnTheirWay(c[1], c[2]))
           < MaxFailures + Cardinality(Callers)
  BY AuthTypes DEF AuthInv, FailuresAhead
<1> QED BY <1>1, AheadKept

\* Steps that leave the counters alone, and after which nobody else may fail.
LEMMA QuietAhead ==
  ASSUME AuthInv, UNCHANGED attempts,
         \A q \in Callers : requestPc'[q] \in {"password", "code"} =>
           requestPc'[q] = requestPc[q] /\ req'[q] = req[q]
  PROVE  FailuresAhead'
<1>1. \A store, k : /\ Failures(store, k)' = Failures(store, k)
                    /\ OnTheirWay(store, k)' \subseteq OnTheirWay(store, k)
                    /\ OnTheirWay(store, k) \subseteq Callers
  BY DEF Failures, OnTheirWay
<1>2. \A c \in Asked : Failures(c[1], c[2]) \in Nat
  BY AuthTypes
<1> QED BY <1>1, <1>2, AheadSound

LEMMA TickSound ==
  ASSUME AuthInv, Auth!Tick
  PROVE  AuthInv'
<1>1. Auth!TypeOK' /\ AuthCalls'
  BY ServicesAssumption
     DEF AuthInv, Auth!Tick, Auth!TypeOK, Auth!Times, AuthCalls, Auth!AuthAssumption
<1>2. FailuresAhead'
  BY QuietAhead DEF Auth!Tick
<1> QED BY <1>1, <1>2 DEF AuthInv

\* A request that ends.
LEMMA AuthReturned ==
  ASSUME AuthInv, NEW q \in Callers, Auth!Return(q)
  PROVE  /\ requestPc' \in [Callers -> Auth!PCs] /\ req' \in [Callers -> Auth!Reqs]
         /\ requestPc'[q] = "idle"
         /\ \A r \in Callers \ {q} : requestPc'[r] = requestPc[r] /\ req'[r] = req[r]
         /\ AuthCalls'
<1> USE ServicesAssumption DEF Auth!AuthAssumption
<1>1. Auth!NoReq \in Auth!Reqs
  BY DEF Auth!NoReq, Auth!Reqs, Auth!Times
<1>2. /\ requestPc' \in [Callers -> Auth!PCs] /\ req' \in [Callers -> Auth!Reqs]
      /\ requestPc'[q] = "idle"
      /\ \A r \in Callers \ {q} : requestPc'[r] = requestPc[r] /\ req'[r] = req[r]
  BY <1>1 DEF AuthInv, Auth!TypeOK, Auth!Return, Auth!PCs
<1> QED BY <1>2 DEF AuthInv, AuthCalls

LEMMA AuthFailSound ==
  ASSUME AuthInv, NEW q \in Callers, Auth!Fail(q)
  PROVE  AuthInv'
<1>1. Auth!TypeOK' /\ AuthCalls'
  BY AuthReturned DEF AuthInv, Auth!Fail, Auth!TypeOK
<1>2. FailuresAhead'
  BY AuthReturned, QuietAhead DEF Auth!Fail
<1> QED BY <1>1, <1>2 DEF AuthInv

LEMMA CreateSessionSound ==
  ASSUME AuthInv, NEW q \in Callers, NEW i \in SessionIds, Auth!CreateSession(q, i)
  PROVE  AuthInv'
<1> USE ServicesAssumption DEF Auth!AuthAssumption
<1>1. req[q].user \in Users /\ req[q].kind \in {"login", "challenge"} /\ clock + Lifetime \in Auth!Deadlines
  BY AuthTypes DEF AuthInv, AuthCalls, Auth!CreateSession, Auth!Reqs, Auth!Times, Auth!Deadlines
<1>2. [user |-> req[q].user, kind |-> req[q].kind, expires |-> clock + Lifetime] \in Auth!SessionRows
  BY <1>1 DEF Auth!SessionRows
<1>3. Auth!TypeOK' /\ AuthCalls'
  BY <1>2, AuthReturned DEF AuthInv, Auth!CreateSession, Auth!TypeOK
<1>4. FailuresAhead'
  BY AuthReturned, QuietAhead DEF Auth!CreateSession
<1> QED BY <1>3, <1>4 DEF AuthInv

LEMMA LogoutSound ==
  ASSUME AuthInv, NEW i \in SessionIds, Auth!Logout(i)
  PROVE  AuthInv'
<1>1. Auth!TypeOK' /\ AuthCalls'
  BY DEF AuthInv, Auth!Logout, Auth!TypeOK, AuthCalls
<1>2. FailuresAhead'
  BY QuietAhead DEF Auth!Logout
<1> QED BY <1>1, <1>2 DEF AuthInv

LEMMA SetupSound ==
  ASSUME AuthInv, NEW u \in Users, Auth!Setup2FA(u)
  PROVE  AuthInv'
<1>1. Auth!TypeOK' /\ AuthCalls'
  BY DEF AuthInv, Auth!Setup2FA, Auth!TypeOK, AuthCalls, Auth!Factors
<1>2. FailuresAhead'
  BY QuietAhead DEF Auth!Setup2FA
<1> QED BY <1>1, <1>2 DEF AuthInv

\* StoreSecret and RemoveSecret.
LEMMA SecretSound ==
  ASSUME AuthInv, NEW q \in Callers, Auth!StoreSecret(q) \/ Auth!RemoveSecret(q)
  PROVE  AuthInv'
<1>1. /\ \E on \in BOOLEAN : factor' = [factor EXCEPT ![req[q].user] =
                                [enabled |-> on, secret |-> on, temp |-> FALSE]]
      /\ Auth!Return(q) /\ UNCHANGED <<clock, attempts, sessions>>
  BY Zenon DEF Auth!StoreSecret, Auth!RemoveSecret
<1>2. \A on \in BOOLEAN : [enabled |-> on, secret |-> on, temp |-> FALSE] \in Auth!Factors
  BY DEF Auth!Factors
<1>3. factor' \in [Users -> Auth!Factors]
  BY <1>1, <1>2 DEF AuthInv, Auth!TypeOK
<1>4. Auth!TypeOK' /\ AuthCalls'
  BY <1>1, <1>3, AuthReturned DEF AuthInv, Auth!TypeOK
<1>5. FailuresAhead'
  BY <1>1, AuthReturned, QuietAhead
<1> QED BY <1>4, <1>5 DEF AuthInv

\* Enable2FA and Disable2FA.
LEMMA FactorSound ==
  ASSUME AuthInv, NEW q \in Callers, NEW u \in Users, Auth!Enable2FA(q, u) \/ Auth!Disable2FA(q, u)
  PROVE  AuthInv'
<1>1. /\ requestPc' \in [Callers -> Auth!PCs] /\ req' \in [Callers -> Auth!Reqs]
      /\ requestPc'[q] \in {"enabling", "disabling"} /\ req'[q].user = u
      /\ \A r \in Callers \ {q} : requestPc'[r] = requestPc[r] /\ req'[r] = req[r]
      /\ UNCHANGED <<clock, attempts, sessions, factor>>
  <2>1. PICK to \in {"enabling", "disabling"} :
          /\ requestPc' = [requestPc EXCEPT ![q] = to]
          /\ req' = [req EXCEPT ![q].user = u]
          /\ UNCHANGED <<clock, attempts, sessions, factor>>
    BY DEF Auth!Enable2FA, Auth!Disable2FA, Auth!Goto
  <2>2. req \in [Callers -> Auth!Reqs] /\ requestPc \in [Callers -> Auth!PCs]
    BY DEF AuthInv, Auth!TypeOK
  <2>3. [req[q] EXCEPT !.user = u] \in Auth!Reqs /\ [req[q] EXCEPT !.user = u].user = u
    BY <2>2 DEF Auth!Reqs
  <2> QED BY <2>1, <2>2, <2>3 DEF Auth!PCs
<1>2. Auth!TypeOK' /\ AuthCalls'
  BY <1>1 DEF AuthInv, Auth!TypeOK, AuthCalls
<1>3. FailuresAhead'
  BY <1>1, QuietAhead
<1> QED BY <1>2, <1>3 DEF AuthInv

LEMMA SpendSound ==
  ASSUME AuthInv, NEW q \in Callers, Auth!SpendChallenge(q)
  PROVE  AuthInv'
<1>1. /\ requestPc[q] = "spending" /\ req[q].user \in Users /\ req[q].session \in SessionIds
      /\ requestPc' = [requestPc EXCEPT ![q] = "session"]
      /\ sessions' \in {sessions, [sessions EXCEPT ![req[q].session] = None]}
      /\ req' = [req EXCEPT ![q].session = None]
      /\ UNCHANGED <<clock, attempts, factor>>
  BY DEF AuthInv, AuthCalls, Auth!SpendChallenge, Auth!Goto
<1>2. /\ requestPc' \in [Callers -> Auth!PCs] /\ req' \in [Callers -> Auth!Reqs]
      /\ requestPc'[q] = "session" /\ req'[q].user \in Users
      /\ \A r \in Callers \ {q} : requestPc'[r] = requestPc[r] /\ req'[r] = req[r]
  BY <1>1 DEF AuthInv, Auth!TypeOK, Auth!PCs, Auth!Reqs
<1>3. Auth!TypeOK' /\ AuthCalls'
  BY <1>1, <1>2 DEF AuthInv, Auth!TypeOK, AuthCalls
<1>4. FailuresAhead'
  BY <1>1, <1>2, QuietAhead
<1> QED BY <1>3, <1>4 DEF AuthInv


\* What a request has in hand once it is accepted, and once it is let through.
LEMMA AcceptedPassword ==
  ASSUME NEW u \in Users, NEW kind \in {"login", "challenge"}
  PROVE  /\ [Auth!NoReq EXCEPT !.user = u, !.kind = kind] \in Auth!Reqs
         /\ [Auth!NoReq EXCEPT !.user = u, !.kind = kind].user = u
<1>1. Auth!NoReq \in Auth!Reqs
  BY ServicesAssumption DEF Auth!NoReq, Auth!Reqs, Auth!AuthAssumption, Auth!Times
<1> QED BY <1>1 DEF Auth!Reqs

LEMMA AcceptedCode ==
  ASSUME NEW u \in Users, NEW i \in SessionIds
  PROVE  /\ [Auth!NoReq EXCEPT !.user = u, !.session = i] \in Auth!Reqs
         /\ [Auth!NoReq EXCEPT !.user = u, !.session = i].user = u
         /\ [Auth!NoReq EXCEPT !.user = u, !.session = i].session = i
<1>1. Auth!NoReq \in Auth!Reqs
  BY ServicesAssumption DEF Auth!NoReq, Auth!Reqs, Auth!AuthAssumption, Auth!Times
<1> QED BY <1>1 DEF Auth!Reqs

LEMMA LetThroughLogin ==
  ASSUME NEW u \in Users, NEW ip \in Ips, NEW now \in Auth!Times
  PROVE  /\ [Auth!NoReq EXCEPT !.user = u, !.ip = ip, !.now = now] \in Auth!Reqs
         /\ [Auth!NoReq EXCEPT !.user = u, !.ip = ip, !.now = now].user = u
         /\ [Auth!NoReq EXCEPT !.user = u, !.ip = ip, !.now = now].ip = ip
BY DEF Auth!NoReq, Auth!Reqs

LEMMA LetThroughCode ==
  ASSUME NEW u \in Users \cup {None}, NEW ip \in Ips, NEW now \in Auth!Times,
         NEW i \in SessionIds \cup {None}
  PROVE  /\ [Auth!NoReq EXCEPT !.user = u, !.ip = ip, !.now = now, !.session = i] \in Auth!Reqs
         /\ [Auth!NoReq EXCEPT !.user = u, !.ip = ip, !.now = now, !.session = i].user = u
         /\ [Auth!NoReq EXCEPT !.user = u, !.ip = ip, !.now = now, !.session = i].ip = ip
         /\ [Auth!NoReq EXCEPT !.user = u, !.ip = ip, !.now = now, !.session = i].session = i
BY DEF Auth!NoReq, Auth!Reqs

\* A counter that moves by Recorded, by Checked, to None or not at all.
LEMMA CountersType ==
  ASSUME AuthInv,
         attempts' \in [Auth!Stores -> [Auth!Keys -> Auth!States \cup {None}]]
  PROVE  \A c \in Asked : /\ Failures(c[1], c[2])' \in Nat
                          /\ OnTheirWay(c[1], c[2])' \in SUBSET Callers
<1> SUFFICES ASSUME NEW c \in Asked
             PROVE  /\ Failures(c[1], c[2])' \in Nat
                    /\ OnTheirWay(c[1], c[2])' \in SUBSET Callers
  OBVIOUS
<1>1. c[1] \in Auth!Stores /\ c[2] \in Auth!Keys
  BY AuthTypes
<1>2. attempts'[c[1]][c[2]] \in Auth!States \cup {None}
  BY <1>1
<1> QED BY <1>2 DEF Failures, OnTheirWay, Auth!States

LEMMA RecordFailure ==
  ASSUME AuthInv, NEW store \in Auth!Stores, NEW keys, NEW now \in Auth!Times,
         Auth!RecordAttemptFailure(store, keys, now)
  PROVE  /\ attempts' \in [Auth!Stores -> [Auth!Keys -> Auth!States \cup {None}]]
         /\ \A s \in Auth!Stores, k \in Auth!Keys :
              IF s = store /\ k \in keys
              THEN Failures(s, k)' <= 1 \/ Failures(s, k)' <= Failures(s, k) + 1
              ELSE attempts'[s][k] = attempts[s][k]
<1> DEFINE counter == [k \in Auth!Keys |-> IF k \in keys
                         THEN Auth!Recorded(attempts[store][k], now) ELSE attempts[store][k]]
<1>1. attempts \in [Auth!Stores -> [Auth!Keys -> Auth!States \cup {None}]]
  BY DEF AuthInv, Auth!TypeOK
<1>2. attempts' = [attempts EXCEPT ![store] = counter]
  BY DEF Auth!RecordAttemptFailure
<1>3. \A k \in Auth!Keys :
        /\ attempts[store][k] \in Auth!States \cup {None}
        /\ Auth!Recorded(attempts[store][k], now) \in Auth!States
        /\ Auth!Recorded(attempts[store][k], now) # None
        /\ \/ Auth!Recorded(attempts[store][k], now).count = 1
           \/ /\ attempts[store][k] # None
              /\ Auth!Recorded(attempts[store][k], now).count = attempts[store][k].count + 1
  BY <1>1, RecordedSound
<1>4. counter \in [Auth!Keys -> Auth!States \cup {None}]
  BY <1>3
<1>5. \A k \in Auth!Keys : counter[k] = IF k \in keys
        THEN Auth!Recorded(attempts[store][k], now) ELSE attempts[store][k]
  OBVIOUS
<1> HIDE DEF counter
<1>6. attempts' \in [Auth!Stores -> [Auth!Keys -> Auth!States \cup {None}]]
  BY <1>1, <1>2, <1>4
<1>7. \A s \in Auth!Stores : attempts'[s] = IF s = store THEN counter ELSE attempts[s]
  BY <1>1, <1>2
<1>8. ASSUME NEW s \in Auth!Stores, NEW k \in Auth!Keys
      PROVE  IF s = store /\ k \in keys
             THEN Failures(s, k)' <= 1 \/ Failures(s, k)' <= Failures(s, k) + 1
             ELSE attempts'[s][k] = attempts[s][k]
  <2>1. CASE s = store /\ k \in keys
    <3>1. attempts'[s][k] = Auth!Recorded(attempts[store][k], now)
      BY <1>5, <1>7, <2>1
    <3>2. Failures(s, k)' = Auth!Recorded(attempts[store][k], now).count
      BY <1>3, <3>1 DEF Failures
    <3>3. Auth!Recorded(attempts[store][k], now).count \in Nat
      BY <1>3 DEF Auth!States
    <3> QED BY <1>3, <2>1, <3>2, <3>3 DEF Failures, Auth!States
  <2>2. CASE ~(s = store /\ k \in keys)
    BY <1>5, <1>7, <2>2
  <2> QED BY <2>1, <2>2
<1> QED BY <1>6, <1>8

LEMMA ClearCounters ==
  ASSUME AuthInv, NEW store \in Auth!Stores, NEW keys, Auth!ClearAttemptState(store, keys)
  PROVE  /\ attempts' \in [Auth!Stores -> [Auth!Keys -> Auth!States \cup {None}]]
         /\ \A s \in Auth!Stores, k \in Auth!Keys :
              Failures(s, k)' = 0 \/ Failures(s, k)' = Failures(s, k)
<1> DEFINE counter == [k \in Auth!Keys |-> IF k \in keys THEN None ELSE attempts[store][k]]
<1>1. attempts \in [Auth!Stores -> [Auth!Keys -> Auth!States \cup {None}]]
  BY DEF AuthInv, Auth!TypeOK
<1>2. attempts' = [attempts EXCEPT ![store] = counter]
  BY DEF Auth!ClearAttemptState
<1>3. /\ counter \in [Auth!Keys -> Auth!States \cup {None}]
      /\ \A k \in Auth!Keys : counter[k] \in {None, attempts[store][k]}
  BY <1>1
<1> HIDE DEF counter
<1>4. attempts' \in [Auth!Stores -> [Auth!Keys -> Auth!States \cup {None}]]
  BY <1>1, <1>2, <1>3
<1>5. \A s \in Auth!Stores : attempts'[s] = IF s = store THEN counter ELSE attempts[s]
  BY <1>1, <1>2
<1> QED BY <1>3, <1>4, <1>5 DEF Failures

\* RefusePassword and RefuseCode: the request that failed is no longer on its way.
LEMMA RefuseSound ==
  ASSUME AuthInv, NEW q \in Callers, Auth!RefusePassword(q) \/ Auth!RefuseCode(q)
  PROVE  AuthInv'
<1>1. PICK store \in Auth!Stores :
        /\ requestPc[q] = IF store = "login" THEN "password" ELSE "code"
        /\ Auth!RecordAttemptFailure(store, {req[q].user, req[q].ip}, req[q].now)
        /\ Auth!Return(q)
        /\ UNCHANGED <<clock, sessions, factor>>
  BY Zenon DEF Auth!Stores, Auth!RefusePassword, Auth!RefuseCode
<1>2. req[q].now \in Auth!Times
  BY AuthTypes
<1>3. attempts' \in [Auth!Stores -> [Auth!Keys -> Auth!States \cup {None}]]
  BY <1>1, <1>2, RecordFailure
<1>4. Auth!TypeOK' /\ AuthCalls'
  BY <1>1, <1>3, AuthReturned DEF AuthInv, Auth!TypeOK
<1>5. ASSUME NEW c \in Asked
      PROVE  \/ /\ OnTheirWay(c[1], c[2])' \subseteq OnTheirWay(c[1], c[2])
                /\ Failures(c[1], c[2])' = Failures(c[1], c[2])
             \/ \E r \in OnTheirWay(c[1], c[2]) :
                  /\ OnTheirWay(c[1], c[2])' \subseteq OnTheirWay(c[1], c[2]) \ {r}
                  /\ \/ Failures(c[1], c[2])' <= 1
                     \/ Failures(c[1], c[2])' <= Failures(c[1], c[2]) + 1
  <2>1. c[1] \in Auth!Stores /\ c[2] \in Auth!Keys
    BY AuthTypes
  <2>2. /\ requestPc'[q] = "idle"
        /\ \A r \in Callers \ {q} : requestPc'[r] = requestPc[r] /\ req'[r] = req[r]
    BY <1>1, AuthReturned
  <2>3. OnTheirWay(c[1], c[2])' \subseteq OnTheirWay(c[1], c[2]) \ {q}
    BY <2>2 DEF OnTheirWay
  <2>4. CASE c[1] = store /\ c[2] \in {req[q].user, req[q].ip}
    <3>1. q \in OnTheirWay(c[1], c[2])
      BY <1>1, <2>4 DEF OnTheirWay
    <3> QED BY <1>1, <1>2, <2>1, <2>3, <2>4, <3>1, RecordFailure
  <2>5. CASE ~(c[1] = store /\ c[2] \in {req[q].user, req[q].ip})
    <3>1. attempts'[c[1]][c[2]] = attempts[c[1]][c[2]]
      BY <1>1, <1>2, <2>1, <2>5, RecordFailure
    <3> QED BY <2>3, <3>1 DEF Failures
  <2> QED BY <2>4, <2>5
<1>6. \A c \in Asked : Failures(c[1], c[2]) \in Nat
  BY AuthTypes
<1>7. FailuresAhead'
  BY <1>3, <1>5, <1>6, CountersType, AheadSound
<1> QED BY <1>4, <1>7 DEF AuthInv

\* AcceptPassword and AcceptCode: the counters start again.
LEMMA AcceptSound ==
  ASSUME AuthInv, NEW q \in Callers, Auth!AcceptPassword(q) \/ Auth!AcceptCode(q)
  PROVE  AuthInv'
<1> USE ServicesAssumption DEF Auth!AuthAssumption
<1>1. PICK store \in Auth!Stores, to \in {"session", "spending"}, r \in Auth!Reqs :
        /\ requestPc[q] \in {"password", "code"}
        /\ requestPc' = [requestPc EXCEPT ![q] = to]
        /\ Auth!ClearAttemptState(store, {req[q].user, req[q].ip})
        /\ req' = [req EXCEPT ![q] = r]
        /\ r.user \in Users
        /\ to = "spending" => r.session \in SessionIds
        /\ UNCHANGED <<clock, sessions, factor>>
  <2>1. CASE Auth!AcceptPassword(q)
    <3> DEFINE kind == IF factor[req[q].user].enabled THEN "challenge" ELSE "login"
               r == [Auth!NoReq EXCEPT !.user = req[q].user, !.kind = kind]
    <3>1. req[q].user \in Users
      BY <2>1 DEF AuthInv, AuthCalls, Auth!AcceptPassword, Auth!Goto
    <3>2. r \in Auth!Reqs /\ r.user \in Users
      <4>1. kind \in {"login", "challenge"}
        OBVIOUS
      <4> HIDE DEF kind
      <4> QED BY Zenon, <3>1, <4>1, AcceptedPassword
    <3>3. /\ requestPc[q] = "password" /\ requestPc' = [requestPc EXCEPT ![q] = "session"]
          /\ Auth!ClearAttemptState("login", {req[q].user, req[q].ip})
          /\ req' = [req EXCEPT ![q] = r]
          /\ UNCHANGED <<clock, sessions, factor>>
      BY <2>1 DEF Auth!AcceptPassword, Auth!Goto
    <3> HIDE DEF r
    <3> QED BY <3>2, <3>3 DEF Auth!Stores
  <2>2. CASE Auth!AcceptCode(q)
    <3> DEFINE r == [Auth!NoReq EXCEPT !.user = req[q].user, !.session = req[q].session]
    <3>1. req[q].user \in Users /\ req[q].session \in SessionIds
      BY <2>2, AuthTypes DEF AuthInv, AuthCalls, Auth!AcceptCode, Auth!Goto, Auth!Reqs
    <3>2. r \in Auth!Reqs /\ r.user \in Users /\ r.session \in SessionIds
      BY Zenon, <3>1, AcceptedCode
    <3>3. /\ requestPc[q] = "code" /\ requestPc' = [requestPc EXCEPT ![q] = "spending"]
          /\ Auth!ClearAttemptState("code", {req[q].user, req[q].ip})
          /\ req' = [req EXCEPT ![q] = r]
          /\ UNCHANGED <<clock, sessions, factor>>
      BY <2>2 DEF Auth!AcceptCode, Auth!Goto
    <3> HIDE DEF r
    <3> QED BY <3>2, <3>3 DEF Auth!Stores
  <2> QED BY <2>1, <2>2
<1>2. attempts' \in [Auth!Stores -> [Auth!Keys -> Auth!States \cup {None}]]
  BY <1>1, ClearCounters
<1>3. /\ requestPc' \in [Callers -> Auth!PCs] /\ req' \in [Callers -> Auth!Reqs]
      /\ requestPc'[q] = to /\ req'[q] = r
      /\ \A p \in Callers \ {q} : requestPc'[p] = requestPc[p] /\ req'[p] = req[p]
  BY <1>1 DEF AuthInv, Auth!TypeOK, Auth!PCs
<1>4. Auth!TypeOK'
  BY <1>1, <1>2, <1>3 DEF AuthInv, Auth!TypeOK
<1>5. AuthCalls'
  BY <1>1, <1>3 DEF AuthInv, AuthCalls
<1>6. ASSUME NEW c \in Asked
      PROVE  /\ OnTheirWay(c[1], c[2])' \subseteq OnTheirWay(c[1], c[2])
             /\ Failures(c[1], c[2])' = 0 \/ Failures(c[1], c[2])' = Failures(c[1], c[2])
  <2>1. OnTheirWay(c[1], c[2])' \subseteq OnTheirWay(c[1], c[2])
    BY <1>1, <1>3 DEF OnTheirWay
  <2>2. c[1] \in Auth!Stores /\ c[2] \in Auth!Keys
    BY AuthTypes
  <2> QED BY <1>1, <2>1, <2>2, ClearCounters
<1>7. \A c \in Asked : /\ Failures(c[1], c[2]) \in Nat
                       /\ Failures(c[1], c[2])' \in Nat
                       /\ OnTheirWay(c[1], c[2])' \in SUBSET Callers
  BY <1>2, AuthTypes, CountersType
<1>8. FailuresAhead'
  BY <1>6, <1>7, AheadSound
<1> QED BY <1>4, <1>5, <1>8 DEF AuthInv

\* A request that was let through, or stopped; the counters it asked are below the limit.
LEMMA AskedSound ==
  ASSUME AuthInv, NEW q \in Callers, requestPc[q] = "idle",
         attempts' \in [Auth!Stores -> [Auth!Keys -> Auth!States \cup {None}]],
         \A s \in Auth!Stores, k \in Auth!Keys :
           Failures(s, k)' = 0 \/ Failures(s, k)' = Failures(s, k),
         \/ UNCHANGED <<requestPc, req>>
         \/ \E to \in {"password", "code"}, r \in Auth!Reqs :
              /\ requestPc' = [requestPc EXCEPT ![q] = to]
              /\ req' = [req EXCEPT ![q] = r]
              /\ r.ip \in Ips
              /\ to = "password" \/ r.session # None => r.user \in Users
              /\ to = "password" => Failures("login", r.user)' < MaxFailures
              /\ to = "password" => Failures("login", r.ip)' < MaxFailures
              /\ to = "code" => Failures("code", r.ip)' < MaxFailures
              /\ to = "code" => r.user \notin Ips,
         UNCHANGED <<clock, sessions, factor>>
  PROVE  AuthInv'
<1> USE ServicesAssumption DEF Auth!AuthAssumption
<1>1. \A c \in Asked : /\ Failures(c[1], c[2]) \in Nat
                       /\ c[1] \in Auth!Stores /\ c[2] \in Auth!Keys
  BY AuthTypes
<1>2. CASE UNCHANGED <<requestPc, req>>
  <2>1. Auth!TypeOK' /\ AuthCalls'
    BY <1>2 DEF AuthInv, Auth!TypeOK, AuthCalls
  <2>2. ASSUME NEW c \in Asked
        PROVE  /\ Failures(c[1], c[2])' \in Nat
               /\ OnTheirWay(c[1], c[2])' \in SUBSET Callers
               /\ OnTheirWay(c[1], c[2])' \subseteq OnTheirWay(c[1], c[2])
               /\ Failures(c[1], c[2])' = 0 \/ Failures(c[1], c[2])' <= Failures(c[1], c[2])
    <3>1. /\ Failures(c[1], c[2]) \in Nat /\ Failures(c[1], c[2])' \in Nat
          /\ OnTheirWay(c[1], c[2])' \in SUBSET Callers
      BY <1>1, CountersType
    <3>2. OnTheirWay(c[1], c[2])' \subseteq OnTheirWay(c[1], c[2])
      BY <1>2 DEF OnTheirWay
    <3> QED BY <1>1, <3>1, <3>2
  <2>3. FailuresAhead'
    BY <2>2, AheadSound
  <2> QED BY <2>1, <2>3 DEF AuthInv
<1>3. ASSUME NEW to \in {"password", "code"}, NEW r \in Auth!Reqs,
             requestPc' = [requestPc EXCEPT ![q] = to],
             req' = [req EXCEPT ![q] = r],
             r.ip \in Ips,
             to = "password" \/ r.session # None => r.user \in Users,
             to = "password" => Failures("login", r.user)' < MaxFailures,
             to = "password" => Failures("login", r.ip)' < MaxFailures,
             to = "code" => Failures("code", r.ip)' < MaxFailures,
             to = "code" => r.user \notin Ips
      PROVE  AuthInv'
  <2>1. /\ requestPc' \in [Callers -> Auth!PCs] /\ req' \in [Callers -> Auth!Reqs]
        /\ requestPc'[q] = to /\ req'[q] = r
        /\ \A p \in Callers \ {q} : requestPc'[p] = requestPc[p] /\ req'[p] = req[p]
    BY <1>3 DEF AuthInv, Auth!TypeOK, Auth!PCs
  <2>2. Auth!TypeOK'
    BY <2>1 DEF AuthInv, Auth!TypeOK
  <2>3. AuthCalls'
    BY <1>3, <2>1 DEF AuthInv, AuthCalls
  <2>4. ASSUME NEW c \in Asked
        PROVE  \/ /\ OnTheirWay(c[1], c[2])' \subseteq OnTheirWay(c[1], c[2])
                  /\ Failures(c[1], c[2])' = 0 \/ Failures(c[1], c[2])' <= Failures(c[1], c[2])
               \/ Failures(c[1], c[2])' < MaxFailures
    <3>1. CASE q \notin OnTheirWay(c[1], c[2])'
      <4>1. OnTheirWay(c[1], c[2])' \subseteq OnTheirWay(c[1], c[2])
        BY <2>1, <3>1 DEF OnTheirWay
      <4> QED BY <1>1, <4>1
    <3>2. CASE q \in OnTheirWay(c[1], c[2])'
      <4>1. /\ to = IF c[1] = "login" THEN "password" ELSE "code"
            /\ c[2] \in {r.user, r.ip}
        BY <2>1, <3>2 DEF OnTheirWay
      <4>2. CASE c[1] = "login"
        BY <1>3, <4>1, <4>2
      <4>3. CASE c[1] = "code" /\ c[2] \in Ips
        BY <1>3, <4>1, <4>3
      <4> QED BY <4>2, <4>3 DEF Asked
    <3> QED BY <3>1, <3>2
  <2>5. FailuresAhead'
    BY <2>4, CountersType, AheadSound
  <2> QED BY <2>2, <2>3, <2>5 DEF AuthInv
<1> QED BY <1>2, <1>3

LEMMA LoginSound ==
  ASSUME AuthInv, NEW q \in Callers, NEW u \in Users, NEW ip \in Ips, Auth!Login(q, u, ip)
  PROVE  AuthInv'
<1>0. MaxFailures \in Nat \ {0} /\ Users \cap Ips = {} /\ None \notin Ips
  BY ServicesAssumption DEF Auth!AuthAssumption
<1> DEFINE login == attempts["login"]
           a == Auth!Checked(login[u], clock)
           b == Auth!Checked(login[ip], clock)
           r == [Auth!NoReq EXCEPT !.user = u, !.ip = ip, !.now = clock]
<1>1. /\ attempts \in [Auth!Stores -> [Auth!Keys -> Auth!States \cup {None}]]
      /\ clock \in Auth!Times
      /\ "login" \in Auth!Stores /\ u \in Auth!Keys /\ ip \in Auth!Keys
      /\ u # ip
  BY <1>0 DEF AuthInv, Auth!TypeOK, Auth!Stores, Auth!Keys
<1>2. /\ login[u] \in Auth!States \cup {None} /\ login[ip] \in Auth!States \cup {None}
  BY <1>1
<1>3. /\ a \in Auth!States \cup {None}
      /\ a # None => login[u] # None /\ a.count = login[u].count
      /\ Auth!Allowed(login[u], clock) /\ a # None => a.count < MaxFailures
      /\ b \in Auth!States \cup {None}
      /\ b # None => login[ip] # None /\ b.count = login[ip].count
      /\ Auth!Allowed(login[ip], clock) /\ b # None => b.count < MaxFailures
  BY <1>1, <1>2, CheckedSound
<1>4. r \in Auth!Reqs /\ r.user = u /\ r.ip = ip
  BY <1>1 DEF Auth!NoReq, Auth!Reqs
<1>5. /\ requestPc[q] = "idle" /\ UNCHANGED <<clock, sessions, factor>>
      /\ IF Auth!Allowed(login[u], clock)
         THEN attempts' = [attempts EXCEPT !["login"] = [@ EXCEPT ![u] = a, ![ip] = b]]
         ELSE attempts' = [attempts EXCEPT !["login"] = [@ EXCEPT ![u] = a]]
      /\ \/ UNCHANGED <<requestPc, req>>
         \/ /\ Auth!Allowed(login[u], clock) /\ Auth!Allowed(login[ip], clock)
            /\ requestPc' = [requestPc EXCEPT ![q] = "password"]
            /\ req' = [req EXCEPT ![q] = r]
  BY <1>1 DEF Auth!Login
<1> HIDE DEF a, b, r
<1> DEFINE row == IF Auth!Allowed(login[u], clock)
                    THEN [login EXCEPT ![u] = a, ![ip] = b] ELSE [login EXCEPT ![u] = a]
<1>5a. /\ row \in [Auth!Keys -> Auth!States \cup {None}]
       /\ \A k \in Auth!Keys :
            \/ row[k] = login[k]
            \/ k = u /\ row[k] = a
            \/ k = ip /\ row[k] = b
       /\ Auth!Allowed(login[u], clock) => row[u] = a /\ row[ip] = b
  BY <1>1, <1>3
<1>5b. attempts' = [attempts EXCEPT !["login"] = row]
  BY <1>5
<1> HIDE DEF row
<1>6. /\ attempts' \in [Auth!Stores -> [Auth!Keys -> Auth!States \cup {None}]]
      /\ \A s \in Auth!Stores, k \in Auth!Keys :
           \/ attempts'[s][k] = attempts[s][k]
           \/ s = "login" /\ k = u /\ attempts'[s][k] = a
           \/ s = "login" /\ k = ip /\ attempts'[s][k] = b
      /\ Auth!Allowed(login[u], clock) => attempts'["login"][u] = a /\ attempts'["login"][ip] = b
  <2>1. \A s \in Auth!Stores : attempts'[s] = IF s = "login" THEN row ELSE attempts[s]
    BY <1>1, <1>5b
  <2>2. attempts' \in [Auth!Stores -> [Auth!Keys -> Auth!States \cup {None}]]
    BY <1>1, <1>5a, <1>5b
  <2>3. ASSUME NEW s \in Auth!Stores, NEW k \in Auth!Keys
        PROVE  \/ attempts'[s][k] = attempts[s][k]
               \/ s = "login" /\ k = u /\ attempts'[s][k] = a
               \/ s = "login" /\ k = ip /\ attempts'[s][k] = b
    <3>1. CASE s = "login"
      <4>1. attempts'[s] = row /\ attempts[s] = login
        BY <2>1, <3>1
      <4> HIDE DEF login
      <4>2. \/ row[k] = login[k]
            \/ k = u /\ row[k] = a
            \/ k = ip /\ row[k] = b
        BY <1>5a
      <4> QED BY Zenon, <3>1, <4>1, <4>2
    <3>2. CASE s # "login"
      BY <2>1, <3>2
    <3> QED BY <3>1, <3>2
  <2> QED BY <1>1, <1>5a, <2>1, <2>2, <2>3
<1>7. \A s \in Auth!Stores, k \in Auth!Keys :
        Failures(s, k)' = 0 \/ Failures(s, k)' = Failures(s, k)
  BY <1>3, <1>6 DEF Failures
<1>8. Auth!Allowed(login[u], clock) /\ Auth!Allowed(login[ip], clock) =>
        Failures("login", u)' < MaxFailures /\ Failures("login", ip)' < MaxFailures
  BY <1>0, <1>3, <1>6 DEF Failures
<1>9. CASE UNCHANGED <<requestPc, req>>
  BY <1>5, <1>6, <1>7, <1>9, AskedSound
<1>10. CASE /\ Auth!Allowed(login[u], clock) /\ Auth!Allowed(login[ip], clock)
            /\ requestPc' = [requestPc EXCEPT ![q] = "password"]
            /\ req' = [req EXCEPT ![q] = r]
  <2>1. PICK x \in Auth!Reqs : /\ requestPc' = [requestPc EXCEPT ![q] = "password"]
                               /\ req' = [req EXCEPT ![q] = x] /\ x.user = u /\ x.ip = ip
    BY <1>4, <1>10
  <2>2. \E to \in {"password", "code"}, y \in Auth!Reqs :
              /\ requestPc' = [requestPc EXCEPT ![q] = to]
              /\ req' = [req EXCEPT ![q] = y]
              /\ y.ip \in Ips
              /\ to = "password" \/ y.session # None => y.user \in Users
              /\ to = "password" => Failures("login", y.user)' < MaxFailures
              /\ to = "password" => Failures("login", y.ip)' < MaxFailures
              /\ to = "code" => Failures("code", y.ip)' < MaxFailures
              /\ to = "code" => y.user \notin Ips
    <3>1. /\ Failures("login", x.user)' < MaxFailures
          /\ Failures("login", x.ip)' < MaxFailures
      BY <1>8, <1>10, <2>1
    <3> QED BY <2>1, <3>1
  <2> QED BY <1>5, <1>6, <1>7, <2>2, AskedSound
<1> QED BY <1>5, <1>9, <1>10

LEMMA VerifySound ==
  ASSUME AuthInv, NEW q \in Callers, NEW i \in SessionIds \cup {None}, NEW ip \in Ips,
         Auth!Verify2FA(q, i, ip)
  PROVE  AuthInv'
<1>0. MaxFailures \in Nat \ {0} /\ Users \cap Ips = {} /\ None \notin Ips
  BY ServicesAssumption DEF Auth!AuthAssumption
<1> DEFINE a == Auth!Checked(attempts["code"][ip], clock)
           user == IF i = None THEN None ELSE sessions[i].user
           r == [Auth!NoReq EXCEPT !.user = user, !.ip = ip, !.now = clock, !.session = i]
<1>1. /\ attempts \in [Auth!Stores -> [Auth!Keys -> Auth!States \cup {None}]]
      /\ sessions \in [SessionIds -> Auth!SessionRows \cup {None}]
      /\ clock \in Auth!Times
      /\ "code" \in Auth!Stores /\ ip \in Auth!Keys
  BY DEF AuthInv, Auth!TypeOK, Auth!Stores, Auth!Keys
<1>2. attempts["code"][ip] \in Auth!States \cup {None}
  BY <1>1
<1>3. /\ a \in Auth!States \cup {None}
      /\ a # None => attempts["code"][ip] # None /\ a.count = attempts["code"][ip].count
      /\ Auth!Allowed(attempts["code"][ip], clock) /\ a # None => a.count < MaxFailures
  BY <1>1, <1>2, CheckedSound
<1>4. i # None /\ sessions[i] # None => user \in Users
  BY <1>1 DEF Auth!SessionRows
<1>5. i = None => user = None
  OBVIOUS
<1>6. /\ requestPc[q] = "idle" /\ UNCHANGED <<clock, sessions, factor>>
      /\ attempts' = [attempts EXCEPT !["code"] = [@ EXCEPT ![ip] = a]]
      /\ \/ UNCHANGED <<requestPc, req>>
         \/ /\ Auth!Allowed(attempts["code"][ip], clock)
            /\ i = None \/ sessions[i] # None
            /\ requestPc' = [requestPc EXCEPT ![q] = "code"]
            /\ req' = [req EXCEPT ![q] = r]
  BY <1>1 DEF Auth!Verify2FA
<1> HIDE DEF a, user
<1>7. user \in Users \cup {None} =>
        r \in Auth!Reqs /\ r.user = user /\ r.ip = ip /\ r.session = i
  BY <1>1 DEF Auth!NoReq, Auth!Reqs
<1> HIDE DEF r
<1> DEFINE row == [attempts["code"] EXCEPT ![ip] = a]
<1>7a. /\ row \in [Auth!Keys -> Auth!States \cup {None}]
       /\ \A k \in Auth!Keys : row[k] = attempts["code"][k] \/ (k = ip /\ row[k] = a)
       /\ row[ip] = a
  BY <1>1, <1>3
<1>7b. attempts' = [attempts EXCEPT !["code"] = row]
  BY <1>6
<1> HIDE DEF row
<1>8. /\ attempts' \in [Auth!Stores -> [Auth!Keys -> Auth!States \cup {None}]]
      /\ \A s \in Auth!Stores, k \in Auth!Keys :
           \/ attempts'[s][k] = attempts[s][k]
           \/ s = "code" /\ k = ip /\ attempts'[s][k] = a
      /\ attempts'["code"][ip] = a
  <2>1. \A s \in Auth!Stores : attempts'[s] = IF s = "code" THEN row ELSE attempts[s]
    BY <1>1, <1>7b
  <2>2. attempts' \in [Auth!Stores -> [Auth!Keys -> Auth!States \cup {None}]]
    BY <1>1, <1>7a, <1>7b
  <2> QED BY <1>1, <1>7a, <2>1, <2>2
<1>9. \A s \in Auth!Stores, k \in Auth!Keys :
        Failures(s, k)' = 0 \/ Failures(s, k)' = Failures(s, k)
  BY <1>3, <1>8 DEF Failures
<1>10. CASE UNCHANGED <<requestPc, req>>
  BY <1>6, <1>8, <1>9, <1>10, AskedSound
<1>11. CASE /\ Auth!Allowed(attempts["code"][ip], clock)
            /\ i = None \/ sessions[i] # None
            /\ requestPc' = [requestPc EXCEPT ![q] = "code"]
            /\ req' = [req EXCEPT ![q] = r]
  <2>1. user \in Users \cup {None} /\ user \notin Ips /\ (i # None => user \in Users)
    BY <1>0, <1>4, <1>5, <1>11
  <2>2. r \in Auth!Reqs /\ r.ip = ip /\ r.user = user /\ r.session = i
    BY <1>7, <2>1
  <2>3. Failures("code", ip)' < MaxFailures
    BY <1>0, <1>3, <1>8, <1>11 DEF Failures
  <2>4. PICK x \in Auth!Reqs : /\ requestPc' = [requestPc EXCEPT ![q] = "code"]
                               /\ req' = [req EXCEPT ![q] = x] /\ x.ip = ip
                               /\ x.user \notin Ips
                               /\ x.session # None => x.user \in Users
    BY <1>11, <2>1, <2>2
  <2>5. \E to \in {"password", "code"}, y \in Auth!Reqs :
              /\ requestPc' = [requestPc EXCEPT ![q] = to]
              /\ req' = [req EXCEPT ![q] = y]
              /\ y.ip \in Ips
              /\ to = "password" \/ y.session # None => y.user \in Users
              /\ to = "password" => Failures("login", y.user)' < MaxFailures
              /\ to = "password" => Failures("login", y.ip)' < MaxFailures
              /\ to = "code" => Failures("code", y.ip)' < MaxFailures
              /\ to = "code" => y.user \notin Ips
    <3>1. Failures("code", x.ip)' < MaxFailures
      <4>1. x.ip = ip
        BY <2>4
      <4> QED BY Zenon, <2>3, <4>1 DEF Failures
    <3> QED BY <2>4, <3>1
  <2> QED BY <1>6, <1>8, <1>9, <2>5, AskedSound
<1> QED BY <1>6, <1>10, <1>11

LEMMA AuthSame ==
  ASSUME AuthInv, UNCHANGED authVars
  PROVE  AuthInv'
<1>1. /\ clock' = clock /\ attempts' = attempts /\ sessions' = sessions
      /\ factor' = factor /\ requestPc' = requestPc /\ req' = req
  BY DEF authVars
<1>2. Auth!TypeOK' /\ AuthCalls'
  BY <1>1 DEF AuthInv, Auth!TypeOK, AuthCalls
<1>3. FailuresAhead'
  BY <1>1, QuietAhead
<1> QED BY <1>2, <1>3 DEF AuthInv

LEMMA AuthNextSound ==
  ASSUME AuthInv, Auth!Next
  PROVE  AuthInv'
<1>1. CASE Auth!Tick
  BY <1>1, TickSound
<1>2. ASSUME NEW q \in Callers, NEW u \in Users, NEW ip \in Ips, Auth!Login(q, u, ip)
      PROVE  AuthInv'
  BY <1>2, LoginSound
<1>3. ASSUME NEW q \in Callers, Auth!RefusePassword(q) \/ Auth!RefuseCode(q)
      PROVE  AuthInv'
  BY <1>3, RefuseSound
<1>4. ASSUME NEW q \in Callers, Auth!AcceptPassword(q) \/ Auth!AcceptCode(q)
      PROVE  AuthInv'
  BY <1>4, AcceptSound
<1>5. ASSUME NEW q \in Callers, NEW i \in SessionIds, Auth!CreateSession(q, i)
      PROVE  AuthInv'
  BY <1>5, CreateSessionSound
<1>6. ASSUME NEW q \in Callers, NEW i \in SessionIds \cup {None}, NEW ip \in Ips,
             Auth!Verify2FA(q, i, ip)
      PROVE  AuthInv'
  BY <1>6, VerifySound
<1>7. ASSUME NEW q \in Callers, Auth!SpendChallenge(q)
      PROVE  AuthInv'
  BY <1>7, SpendSound
<1>8. ASSUME NEW q \in Callers, NEW u \in Users, Auth!Enable2FA(q, u) \/ Auth!Disable2FA(q, u)
      PROVE  AuthInv'
  BY <1>8, FactorSound
<1>9. ASSUME NEW q \in Callers, Auth!StoreSecret(q) \/ Auth!RemoveSecret(q)
      PROVE  AuthInv'
  BY <1>9, SecretSound
<1>10. ASSUME NEW q \in Callers, Auth!Fail(q)
       PROVE  AuthInv'
  BY <1>10, AuthFailSound
<1>11. ASSUME NEW i \in SessionIds, Auth!Logout(i)
       PROVE  AuthInv'
  BY <1>11, LogoutSound
<1>12. ASSUME NEW u \in Users, Auth!Setup2FA(u)
       PROVE  AuthInv'
  BY <1>12, SetupSound
<1> QED
  BY <1>1, <1>2, <1>3, <1>4, <1>5, <1>6, <1>7, <1>8, <1>9, <1>10, <1>11, <1>12 DEF Auth!Next

LEMMA AheadBounds ==
  ASSUME AuthInv
  PROVE  Auth!FailuresBounded
<1>1. ASSUME NEW c \in Asked
      PROVE  Failures(c[1], c[2]) < MaxFailures + Cardinality(Callers)
  <2>1. Failures(c[1], c[2]) \in Nat /\ OnTheirWay(c[1], c[2]) \in SUBSET Callers
    BY AuthTypes
  <2>2. Cardinality(OnTheirWay(c[1], c[2])) \in Nat
    BY <2>1, CallersFinite, FS_Subset, FS_CardinalityType
  <2>3. MaxFailures \in Nat /\ Cardinality(Callers) \in Nat
    BY CallersFinite, ServicesAssumption DEF Auth!AuthAssumption
  <2> QED BY <2>1, <2>2, <2>3 DEF AuthInv, FailuresAhead
<1>2. ASSUME NEW k \in Auth!Keys, attempts["login"][k] # None
      PROVE  attempts["login"][k].count < MaxFailures + Cardinality(Callers)
  <2>1. <<"login", k>> \in Asked
    BY DEF Asked
  <2> QED BY <1>1, <1>2, <2>1 DEF Failures
<1>3. ASSUME NEW k \in Ips, attempts["code"][k] # None
      PROVE  attempts["code"][k].count < MaxFailures + Cardinality(Callers)
  <2>1. <<"code", k>> \in Asked
    BY DEF Asked
  <2> QED BY <1>1, <1>3, <2>1 DEF Failures
<1> QED BY <1>2, <1>3, CallersFinite DEF Auth!FailuresBounded

-----------------------------------------------------------------------------
(* Pay periods and the lines of a shift: what PayrollCalendarProofs and    *)
(* PayrollLinesProofs show of the same definitions                         *)

CalendarProofs == INSTANCE PayrollCalendarProofs WITH pc <- calendarPc
LineProofs == INSTANCE PayrollLinesProofs WITH pc <- walkPc

\* The definitions of PayrollCalendar are the same, whichever module they
\* are reached through.
LEMMA CalendarBridge ==
  /\ Calendar!YearsAssumption <=> CalendarProofs!YearsAssumption
  /\ Calendar!Init <=> CalendarProofs!Init
  /\ Calendar!Next <=> CalendarProofs!Next
  /\ Calendar!TypeOK <=> CalendarProofs!TypeOK
  /\ Calendar!PeriodsPartitionYear <=> CalendarProofs!PeriodsPartitionYear
<1>1. Calendar!YearsAssumption <=> CalendarProofs!YearsAssumption
  BY DEF Calendar!YearsAssumption, CalendarProofs!YearsAssumption
<1>2. Calendar!Init <=> CalendarProofs!Init
  BY DEF Calendar!Init, CalendarProofs!Init
<1>3. Calendar!Next <=> CalendarProofs!Next
  BY DEF Calendar!Next, CalendarProofs!Next, Calendar!AddPeriod, CalendarProofs!AddPeriod,
     Calendar!Return, CalendarProofs!Return,
     Calendar!IsoWeeksInYear, CalendarProofs!IsoWeeksInYear,
     Calendar!IsoYearStart, CalendarProofs!IsoYearStart,
     Calendar!Weekday, CalendarProofs!Weekday, Calendar!Jan4, CalendarProofs!Jan4,
     Calendar!PeriodWeeks, CalendarProofs!PeriodWeeks
<1>4. Calendar!TypeOK <=> CalendarProofs!TypeOK
  BY DEF Calendar!TypeOK, CalendarProofs!TypeOK
<1>5. Calendar!PeriodsPartitionYear <=> CalendarProofs!PeriodsPartitionYear
  BY DEF Calendar!PeriodsPartitionYear, CalendarProofs!PeriodsPartitionYear,
     Calendar!IsoYearStart, CalendarProofs!IsoYearStart, Calendar!PeriodsOf, CalendarProofs!PeriodsOf,
     Calendar!InPeriod, CalendarProofs!InPeriod,
     Calendar!Weekday, CalendarProofs!Weekday, Calendar!Jan4, CalendarProofs!Jan4
<1> QED BY <1>1, <1>2, <1>3, <1>4, <1>5

\* So are the operators of PayrollLines ...
LEMMA RatesBridge ==
  /\ Lines!DayMinutes = LineProofs!DayMinutes
  /\ \A m : Lines!DayOf(m) = LineProofs!DayOf(m)
  /\ \A i, m : Lines!AppliedRate(i, m) = LineProofs!AppliedRate(i, m)
  /\ \A i : Lines!End(i) = LineProofs!End(i)
  /\ \A i, m : Lines!Before(i, m) <=> LineProofs!Before(i, m)
  /\ \A i, m : Lines!IsEnd(i, m) <=> LineProofs!IsEnd(i, m)
  /\ \A i : Lines!TotalMinutes(i) = LineProofs!TotalMinutes(i)
<1>1. Lines!DayMinutes = LineProofs!DayMinutes
  BY DEF Lines!DayMinutes, LineProofs!DayMinutes
<1>2. \A m : Lines!DayOf(m) = LineProofs!DayOf(m) /\ Lines!MinuteOfDay(m) = LineProofs!MinuteOfDay(m)
  BY <1>1 DEF Lines!DayOf, LineProofs!DayOf, Lines!MinuteOfDay, LineProofs!MinuteOfDay
<1>3. \A m : Lines!Night(m) <=> LineProofs!Night(m)
  BY <1>2 DEF Lines!Night, LineProofs!Night
<1>4. \A m, first, last : Lines!Within(m, first, last) <=> LineProofs!Within(m, first, last)
  BY <1>2 DEF Lines!Within, LineProofs!Within
<1>5. \A i, m : Lines!OrtRateForMinute(i, m) = LineProofs!OrtRateForMinute(i, m)
  BY <1>2, <1>3, <1>4 DEF Lines!OrtRateForMinute, LineProofs!OrtRateForMinute
<1>6. \A i, m : Lines!AppliedRate(i, m) = LineProofs!AppliedRate(i, m)
  BY <1>5 DEF Lines!AppliedRate, LineProofs!AppliedRate
<1>7. \A i : Lines!End(i) = LineProofs!End(i)
  BY <1>1, <1>2 DEF Lines!End, LineProofs!End
<1>8. \A i, m : Lines!Before(i, m) <=> LineProofs!Before(i, m)
  BY <1>7 DEF Lines!Before, LineProofs!Before
<1>9. \A i, m : Lines!IsEnd(i, m) <=> LineProofs!IsEnd(i, m)
  BY <1>7 DEF Lines!IsEnd, LineProofs!IsEnd
<1>10. \A i : Lines!TotalMinutes(i) = LineProofs!TotalMinutes(i)
  BY <1>7 DEF Lines!TotalMinutes, LineProofs!TotalMinutes
<1> QED BY <1>1, <1>2, <1>6, <1>7, <1>8, <1>9, <1>10

\* ... and its state machine.
LEMMA LinesBridge ==
  /\ Lines!LinesAssumption <=> LineProofs!LinesAssumption
  /\ Lines!Init <=> LineProofs!Init
  /\ Lines!Next <=> LineProofs!Next
  /\ Lines!TypeOK <=> LineProofs!TypeOK
  /\ Lines!LinesCoverShift <=> LineProofs!LinesCoverShift
<1>1. Lines!LinesAssumption <=> LineProofs!LinesAssumption
  BY DEF Lines!LinesAssumption, LineProofs!LinesAssumption, Lines!DayMinutes, LineProofs!DayMinutes
<1>2. Lines!Init <=> LineProofs!Init
  BY DEF Lines!Init, LineProofs!Init
<1>3. Lines!Next <=> LineProofs!Next
  <2>1. Lines!Refuse <=> LineProofs!Refuse
    BY RatesBridge DEF Lines!Refuse, LineProofs!Refuse
  <2>2. Lines!Begin <=> LineProofs!Begin
    BY RatesBridge DEF Lines!Begin, LineProofs!Begin
  <2>3. Lines!Minute <=> LineProofs!Minute
    <3>1. Lines!NextRate = LineProofs!NextRate /\ Lines!NextDay = LineProofs!NextDay
      BY RatesBridge DEF Lines!NextRate, LineProofs!NextRate, Lines!NextDay, LineProofs!NextDay
    <3>2. Lines!LineEnds <=> LineProofs!LineEnds
      BY RatesBridge, <3>1 DEF Lines!LineEnds, LineProofs!LineEnds
    <3> QED BY RatesBridge, <3>1, <3>2 DEF Lines!Minute, LineProofs!Minute
  <2>4. Lines!Return <=> LineProofs!Return
    BY RatesBridge DEF Lines!Return, LineProofs!Return
  <2> QED BY <2>1, <2>2, <2>3, <2>4 DEF Lines!Next, LineProofs!Next
<1>4. Lines!TypeOK <=> LineProofs!TypeOK
  BY DEF Lines!TypeOK, LineProofs!TypeOK, Lines!Rates, LineProofs!Rates
<1>5. Lines!LinesCoverShift <=> LineProofs!LinesCoverShift
  <2>1. Lines!Covered = LineProofs!Covered
    BY DEF Lines!Covered, LineProofs!Covered
  <2>2. Lines!Consecutive <=> LineProofs!Consecutive
    BY DEF Lines!Consecutive, LineProofs!Consecutive
  <2>3. Lines!Uniform <=> LineProofs!Uniform
    BY RatesBridge DEF Lines!Uniform, LineProofs!Uniform
  <2>4. Lines!WholeMinutes(item) <=> LineProofs!WholeMinutes(item)
    BY DEF Lines!WholeMinutes, LineProofs!WholeMinutes
  <2>5. Lines!AtMostADay(item) <=> LineProofs!AtMostADay(item)
    BY RatesBridge DEF Lines!AtMostADay, LineProofs!AtMostADay
  <2> QED
    BY RatesBridge, <2>1, <2>2, <2>3, <2>4, <2>5 DEF Lines!LinesCoverShift, LineProofs!LinesCoverShift
<1> QED BY <1>1, <1>2, <1>3, <1>4, <1>5

CalendarInv == CalendarProofs!IInv

LEMMA CalendarInit == Calendar!Init => CalendarInv
BY ServicesAssumption, CalendarBridge, CalendarProofs!InitSound DEF ServicesAssumption, CalendarInv

LEMMA CalendarSame ==
  ASSUME CalendarInv, UNCHANGED calendarVars
  PROVE  CalendarInv'
<1>1. CalendarProofs!YearsAssumption
  BY ServicesAssumption, CalendarBridge DEF ServicesAssumption
<1>2. UNCHANGED CalendarProofs!vars
  BY DEF calendarVars, CalendarProofs!vars
<1> QED BY <1>1, <1>2, CalendarProofs!NextSound DEF CalendarInv

LEMMA CalendarNextSound ==
  ASSUME CalendarInv, Calendar!Next
  PROVE  CalendarInv'
<1>1. CalendarProofs!YearsAssumption
  BY ServicesAssumption, CalendarBridge DEF ServicesAssumption
<1>2. CalendarProofs!Next
  BY CalendarBridge
<1> QED BY <1>1, <1>2, CalendarProofs!NextSound DEF CalendarInv

LEMMA CalendarPartitioned ==
  ASSUME CalendarInv
  PROVE  Calendar!TypeOK /\ Calendar!PeriodsPartitionYear
<1>1. CalendarProofs!YearsAssumption
  BY ServicesAssumption, CalendarBridge DEF ServicesAssumption
<1>2. CalendarProofs!PeriodsPartitionYear
  BY <1>1, CalendarProofs!Partitioned DEF CalendarInv
<1>3. CalendarProofs!TypeOK
  BY DEF CalendarInv, CalendarProofs!IInv
<1> QED BY <1>2, <1>3, CalendarBridge

LinesInv == LineProofs!IInv

LEMMA LinesInit == Lines!Init => LinesInv
BY ServicesAssumption, LinesBridge, LineProofs!InitSound DEF ServicesAssumption, LinesInv

LEMMA LinesSame ==
  ASSUME LinesInv, UNCHANGED lineVars
  PROVE  LinesInv'
<1>1. LineProofs!LinesAssumption
  BY ServicesAssumption, LinesBridge DEF ServicesAssumption
<1>2. UNCHANGED LineProofs!vars
  BY DEF lineVars, LineProofs!vars
<1> QED BY <1>1, <1>2, LineProofs!NextSound DEF LinesInv

LEMMA LinesNextSound ==
  ASSUME LinesInv, Lines!Next
  PROVE  LinesInv'
<1>1. LineProofs!LinesAssumption
  BY ServicesAssumption, LinesBridge DEF ServicesAssumption
<1>2. LineProofs!Next
  BY LinesBridge
<1> QED BY <1>1, <1>2, LineProofs!NextSound DEF LinesInv

LEMMA LinesCovered ==
  ASSUME LinesInv
  PROVE  Lines!TypeOK /\ Lines!LinesCoverShift
<1>1. LineProofs!LinesAssumption
  BY ServicesAssumption, LinesBridge DEF ServicesAssumption
<1>2. LineProofs!LinesCoverShift
  BY <1>1, LineProofs!CoveredAtEnd DEF LinesInv
<1>3. LineProofs!TypeOK
  BY DEF LinesInv, LineProofs!IInv
<1> QED BY <1>2, <1>3, LinesBridge

-----------------------------------------------------------------------------
(* Notifications *)

TicketsExpire ==
  \A t \in TicketIds : tickets[t] # None => tickets[t].expires <= tickets[t].token

\* The ticket of a connection is spent.
TicketsSpent ==
  \A c \in Notices!Opened :
    LET ticket == tickets[connections[c].ticket] IN
    ticket # None /\ ~ticket.stored /\ ticket.user = connections[c].user

\* What is still to be pushed is stored.
PushesStored == \A w \in Workers : \A n \in workers[w].notices : notices[n] # None

NoticeInv ==
  /\ Notices!TypeOK
  /\ TicketsExpire
  /\ TicketsSpent
  /\ PushesStored
  /\ Notices!PushesReachTheirUser

LEMMA NoticeInit == Notices!Init => NoticeInv
<1> SUFFICES ASSUME Notices!Init PROVE NoticeInv
  OBVIOUS
<1>1. Notices!TypeOK
  BY ServicesAssumption
     DEF Notices!Init, Notices!TypeOK, Notices!NotificationsAssumption, Notices!Times,
         Notices!WorkerStates, Notices!Idle
<1>2. TicketsExpire /\ TicketsSpent /\ PushesStored /\ Notices!PushesReachTheirUser
  BY DEF Notices!Init, TicketsExpire, TicketsSpent, PushesStored, Notices!PushesReachTheirUser,
         Notices!Opened, Notices!Idle
<1> QED BY <1>1, <1>2 DEF NoticeInv

\* Rows, tickets and connections stay; what is pushed or shown is stored.
LEMMA NoticesKept ==
  ASSUME NoticeInv, Notices!TypeOK',
         \A n \in NoticeIds : notices[n] # None =>
           notices'[n] # None /\ notices'[n].user = notices[n].user,
         \A t \in TicketIds : tickets'[t] # None =>
           tickets[t] # None \/ tickets'[t].expires <= tickets'[t].token,
         \A t \in TicketIds : tickets[t] # None =>
           /\ tickets'[t] # None /\ tickets'[t].user = tickets[t].user
           /\ tickets'[t].token = tickets[t].token /\ tickets'[t].expires = tickets[t].expires
           /\ tickets'[t].stored => tickets[t].stored,
         \A w \in Workers : \A n \in workers'[w].notices : notices'[n] # None,
         \A c \in Connections : connections'[c] # None =>
           /\ connections[c] # None /\ connections'[c].ticket = connections[c].ticket
           /\ connections'[c].user = connections[c].user
           /\ connections'[c].since = connections[c].since
           /\ \A n \in connections'[c].shown :
                \/ n \in connections[c].shown
                \/ notices'[n] # None /\ notices'[n].user = connections[c].user
  PROVE  NoticeInv'
<1>1. TicketsExpire' /\ PushesStored'
  BY DEF NoticeInv, TicketsExpire, PushesStored
<1>2. ASSUME NEW c \in Notices!Opened'
      PROVE  /\ c \in Notices!Opened /\ connections'[c].ticket = connections[c].ticket
             /\ connections'[c].user = connections[c].user
             /\ connections'[c].since = connections[c].since
             /\ connections[c].ticket \in TicketIds
             /\ connections[c].shown \subseteq NoticeIds
             /\ tickets'[connections[c].ticket] # None
             /\ tickets[connections[c].ticket] # None
             /\ tickets'[connections[c].ticket].user = tickets[connections[c].ticket].user
             /\ tickets'[connections[c].ticket].token = tickets[connections[c].ticket].token
             /\ ~tickets'[connections[c].ticket].stored
             /\ tickets[connections[c].ticket].user = connections[c].user
  BY DEF NoticeInv, Notices!TypeOK, Notices!ConnectionRows, Notices!Opened, TicketsSpent
<1>3. TicketsSpent'
  BY <1>2 DEF TicketsSpent
<1>4. ASSUME NEW c \in Notices!Opened'
      PROVE  /\ \A d \in Notices!Opened' : connections'[d].ticket = connections'[c].ticket => d = c
             /\ connections'[c].since <= tickets'[connections'[c].ticket].token
             /\ \A n \in connections'[c].shown :
                  notices'[n] # None
                    /\ notices'[n].user = tickets'[connections'[c].ticket].user
  <2>1. \A d \in Notices!Opened' : connections'[d].ticket = connections'[c].ticket => d = c
    BY <1>2 DEF NoticeInv, Notices!PushesReachTheirUser
  <2>2. connections'[c].since <= tickets'[connections'[c].ticket].token
    BY <1>2 DEF NoticeInv, Notices!PushesReachTheirUser
  <2>3. ASSUME NEW n \in connections'[c].shown
        PROVE  notices'[n] # None /\ notices'[n].user = connections[c].user
    <3>1. CASE n \in connections[c].shown
      BY <1>2, <3>1 DEF NoticeInv, Notices!PushesReachTheirUser
    <3>2. CASE n \notin connections[c].shown
      BY <1>2, <3>2 DEF Notices!Opened
    <3> QED BY <3>1, <3>2
  <2> QED BY <1>2, <2>1, <2>2, <2>3
<1>5. Notices!PushesReachTheirUser'
  BY <1>4 DEF Notices!PushesReachTheirUser
<1> QED BY <1>1, <1>3, <1>5 DEF NoticeInv

LEMMA NoticeTypes ==
  ASSUME NoticeInv
  PROVE  /\ wsClock \in Notices!Times
         /\ notices \in [NoticeIds -> Notices!NoticeRows \cup {None}]
         /\ workers \in [Workers -> Notices!WorkerStates]
         /\ tickets \in [TicketIds -> Notices!TicketRows \cup {None}]
         /\ connections \in [Connections -> Notices!ConnectionRows \cup {None}]
BY DEF NoticeInv, Notices!TypeOK

\* A goroutine moves on: what it is to push is stored.
LEMMA WorkersMove ==
  ASSUME NoticeInv, UNCHANGED <<wsClock, notices, tickets, connections>>,
         workers' \in [Workers -> Notices!WorkerStates],
         \A w \in Workers : \A n \in workers'[w].notices : n \in workers[w].notices
  PROVE  NoticeInv'
<1>1. Notices!TypeOK'
  BY DEF NoticeInv, Notices!TypeOK
<1>2. \A w \in Workers : \A n \in workers'[w].notices : notices'[n] # None
  BY DEF NoticeInv, PushesStored
<1> QED BY <1>1, <1>2, NoticesKept

LEMMA IdleWorker == Notices!Idle \in Notices!WorkerStates /\ Notices!Idle.notices = {}
BY DEF Notices!Idle, Notices!WorkerStates

LEMMA NotifySound ==
  ASSUME NoticeInv, NEW w \in Workers, NEW users \in SUBSET Recipients, NEW lookups \in 0..3,
         Notices!Notify(w, users, lookups)
  PROVE  NoticeInv'
<1> DEFINE row == [Notices!Idle EXCEPT !.pc = "resolving", !.users = users, !.lookups = lookups]
<1>1. row \in Notices!WorkerStates /\ row.notices = {}
  BY IdleWorker DEF Notices!WorkerStates
<1>2. workers' = [workers EXCEPT ![w] = row] /\ UNCHANGED <<wsClock, notices, tickets, connections>>
  BY DEF Notices!Notify
<1> HIDE DEF row
<1> QED BY <1>1, <1>2, NoticeTypes, WorkersMove

LEMMA ResolveSound ==
  ASSUME NoticeInv, NEW w \in Workers, Notices!ResolveRecipients(w)
  PROVE  NoticeInv'
<1>1. PICK found \in SUBSET Recipients :
        workers' = [workers EXCEPT ![w].users = @ \cup found, ![w].lookups = @ - 1]
  BY DEF Notices!ResolveRecipients
<1> DEFINE row == [workers[w] EXCEPT !.users = @ \cup found, !.lookups = @ - 1]
<1>2. workers[w] \in Notices!WorkerStates /\ workers[w].lookups > 0
  BY NoticeTypes DEF Notices!ResolveRecipients
<1>3. row \in Notices!WorkerStates /\ row.notices = workers[w].notices
  <2>1. workers[w].lookups - 1 \in 0..3 /\ workers[w].users \cup found \in SUBSET Recipients
    BY <1>2 DEF Notices!WorkerStates
  <2> QED BY <1>2, <2>1 DEF Notices!WorkerStates
<1>4. workers' = [workers EXCEPT ![w] = row] /\ UNCHANGED <<wsClock, notices, tickets, connections>>
  BY <1>1, NoticeTypes DEF Notices!ResolveRecipients
<1> HIDE DEF row
<1> QED BY <1>3, <1>4, NoticeTypes, WorkersMove

LEMMA NoticeFailSound ==
  ASSUME NoticeInv, NEW w \in Workers, Notices!Fail(w)
  PROVE  NoticeInv'
<1>1. workers' = [workers EXCEPT ![w] = Notices!Idle]
        /\ UNCHANGED <<wsClock, notices, tickets, connections>>
  BY DEF Notices!Fail
<1> QED BY <1>1, IdleWorker, NoticeTypes, WorkersMove

\* A row that is pushed, or dropped.
LEMMA DeliveredSound ==
  ASSUME NoticeInv, NEW w \in Workers, NEW n, Notices!Delivered(w, n)
  PROVE  /\ workers' \in [Workers -> Notices!WorkerStates]
         /\ \A v \in Workers : workers'[v].notices \subseteq workers[v].notices
<1> DEFINE left == workers[w].notices \ {n}
           rest == [workers[w] EXCEPT !.notices = left]
           row == IF left = {} THEN Notices!Idle ELSE rest
<1>1. workers[w] \in Notices!WorkerStates
  BY NoticeTypes
<1>2. rest \in Notices!WorkerStates /\ rest.notices \subseteq workers[w].notices
  BY <1>1 DEF Notices!WorkerStates
<1>3. workers' = [workers EXCEPT ![w] = row]
  BY DEF Notices!Delivered
<1> HIDE DEF rest
<1>4. row \in Notices!WorkerStates /\ row.notices \subseteq workers[w].notices
  BY <1>2, IdleWorker
<1> HIDE DEF row
<1> QED BY <1>3, <1>4, NoticeTypes

LEMMA DropSound ==
  ASSUME NoticeInv, NEW w \in Workers, NEW n \in NoticeIds, Notices!DropMessage(w, n)
  PROVE  NoticeInv'
BY DeliveredSound, WorkersMove DEF Notices!DropMessage

LEMMA CreateNoticesSound ==
  ASSUME NoticeInv, NEW w \in Workers, Notices!CreateNotifications(w)
  PROVE  NoticeInv'
<1>1. PICK ids \in SUBSET {n \in NoticeIds : notices[n] = None},
           owner \in [NoticeIds -> Recipients] :
        /\ notices' = [n \in NoticeIds |->
             IF n \in ids THEN [user |-> owner[n], read |-> FALSE] ELSE notices[n]]
        /\ workers' = [workers EXCEPT ![w] =
             IF ids = {} THEN Notices!Idle
             ELSE [Notices!Idle EXCEPT !.pc = "delivering", !.notices = ids]]
        /\ UNCHANGED <<wsClock, tickets, connections>>
  BY DEF Notices!CreateNotifications
<1> DEFINE pushing == [Notices!Idle EXCEPT !.pc = "delivering", !.notices = ids]
           row == IF ids = {} THEN Notices!Idle ELSE pushing
<1>2. pushing \in Notices!WorkerStates /\ pushing.notices = ids
  BY IdleWorker DEF Notices!WorkerStates
<1>3. workers' = [workers EXCEPT ![w] = row]
  BY <1>1
<1> HIDE DEF pushing
<1>4. row \in Notices!WorkerStates /\ row.notices \subseteq ids
  BY <1>2, IdleWorker
<1> HIDE DEF row
<1>5. \A n \in NoticeIds : [user |-> owner[n], read |-> FALSE] \in Notices!NoticeRows
  BY DEF Notices!NoticeRows
<1>6. /\ notices' \in [NoticeIds -> Notices!NoticeRows \cup {None}]
      /\ \A n \in ids : notices'[n] # None
      /\ \A n \in NoticeIds : notices[n] # None => notices'[n] = notices[n]
  BY <1>1, <1>5, NoticeTypes, ServicesAssumption DEF Notices!NotificationsAssumption
<1>7. /\ workers' \in [Workers -> Notices!WorkerStates]
      /\ \A v \in Workers : workers'[v].notices \subseteq workers[v].notices \cup ids
  BY <1>3, <1>4, NoticeTypes
<1>8. Notices!TypeOK'
  BY <1>1, <1>6, <1>7 DEF NoticeInv, Notices!TypeOK
<1>9. \A v \in Workers : workers[v].notices \subseteq NoticeIds
  BY NoticeTypes DEF Notices!WorkerStates
<1>10. \A v \in Workers : \A n \in workers'[v].notices : notices'[n] # None
  BY <1>6, <1>7, <1>9 DEF NoticeInv, PushesStored
<1> QED BY <1>1, <1>6, <1>8, <1>10, NoticesKept

\* MarkAsRead and MarkAllAsRead.
LEMMA ReadSound ==
  ASSUME NoticeInv, UNCHANGED <<wsClock, workers, tickets, connections>>,
         notices' \in [NoticeIds -> Notices!NoticeRows \cup {None}],
         \A n \in NoticeIds : notices[n] # None =>
           notices'[n] # None /\ notices'[n].user = notices[n].user
  PROVE  NoticeInv'
<1>1. Notices!TypeOK'
  BY DEF NoticeInv, Notices!TypeOK
<1>2. \A w \in Workers : workers[w].notices \subseteq NoticeIds
  BY NoticeTypes DEF Notices!WorkerStates
<1>3. \A w \in Workers : \A n \in workers'[w].notices : notices'[n] # None
  BY <1>2 DEF NoticeInv, PushesStored
<1> QED BY <1>1, <1>3, NoticesKept

LEMMA ReadRow ==
  ASSUME NEW x \in Notices!NoticeRows
  PROVE  /\ [x EXCEPT !.read = TRUE] \in Notices!NoticeRows
         /\ [x EXCEPT !.read = TRUE] # None
         /\ [x EXCEPT !.read = TRUE].user = x.user
<1>1. [x EXCEPT !.read = TRUE] \in Notices!NoticeRows /\ [x EXCEPT !.read = TRUE].user = x.user
  BY DEF Notices!NoticeRows
<1> QED BY <1>1, ServicesAssumption DEF Notices!NotificationsAssumption

LEMMA MarkSound ==
  ASSUME NoticeInv, NEW n \in NoticeIds, NEW u, Notices!MarkAsRead(n, u)
  PROVE  NoticeInv'
<1> DEFINE row == [notices[n] EXCEPT !.read = TRUE]
<1>1. notices[n] \in Notices!NoticeRows
  BY NoticeTypes DEF Notices!MarkAsRead
<1>2. row \in Notices!NoticeRows /\ row # None /\ row.user = notices[n].user
  BY <1>1, ReadRow
<1>3. notices' = [notices EXCEPT ![n] = row] /\ UNCHANGED <<wsClock, workers, tickets, connections>>
  BY NoticeTypes DEF Notices!MarkAsRead
<1> HIDE DEF row
<1> QED BY <1>2, <1>3, NoticeTypes, ReadSound

LEMMA MarkAllSound ==
  ASSUME NoticeInv, NEW u, Notices!MarkAllAsRead(u)
  PROVE  NoticeInv'
<1>1. ASSUME NEW n \in NoticeIds
      PROVE  /\ notices'[n] \in Notices!NoticeRows \cup {None}
             /\ notices[n] # None => notices'[n] # None /\ notices'[n].user = notices[n].user
  <2>1. notices[n] \in Notices!NoticeRows \cup {None}
    BY NoticeTypes
  <2>2. notices'[n] = notices[n]
          \/ (notices[n] # None /\ notices'[n] = [notices[n] EXCEPT !.read = TRUE])
    BY DEF Notices!MarkAllAsRead
  <2> QED BY <2>1, <2>2, ReadRow
<1>2. notices' \in [NoticeIds -> Notices!NoticeRows \cup {None}]
  BY <1>1 DEF Notices!MarkAllAsRead
<1>3. UNCHANGED <<wsClock, workers, tickets, connections>>
  BY DEF Notices!MarkAllAsRead
<1> QED BY <1>1, <1>2, <1>3, ReadSound

\* IssueTicket and Evict.
LEMMA IssueSound ==
  ASSUME NoticeInv, NEW t \in TicketIds, NEW u \in Recipients, NEW token \in Notices!Times,
         Notices!IssueTicket(t, u, token)
  PROVE  NoticeInv'
<1> DEFINE expires == Notices!Earlier(wsClock + Ttl, token)
           row == [user |-> u, token |-> token, expires |-> expires, stored |-> TRUE]
<1>1. expires \in Notices!Times /\ expires <= token
  BY NoticeTypes, ServicesAssumption
     DEF Notices!Earlier, Notices!Times, Notices!NotificationsAssumption, Notices!IssueTicket
<1>2. tickets[t] = None /\ tickets' = [tickets EXCEPT ![t] = row]
        /\ UNCHANGED <<wsClock, notices, workers, connections>>
  BY DEF Notices!IssueTicket
<1> HIDE DEF expires
<1>3. row \in Notices!TicketRows /\ row.expires <= row.token
  BY <1>1 DEF Notices!TicketRows
<1> HIDE DEF row
<1>4. Notices!TypeOK'
  BY <1>2, <1>3 DEF NoticeInv, Notices!TypeOK
<1>5. /\ \A s \in TicketIds : tickets[s] # None => tickets'[s] = tickets[s]
      /\ \A s \in TicketIds : tickets'[s] # None =>
           tickets[s] # None \/ tickets'[s].expires <= tickets'[s].token
  BY <1>2, <1>3, NoticeTypes
<1>6. \A w \in Workers : \A n \in workers'[w].notices : notices'[n] # None
  BY <1>2 DEF NoticeInv, PushesStored
<1> QED BY <1>2, <1>4, <1>5, <1>6, NoticesKept

\* A ticket that Redis no longer has.
LEMMA SpentRow ==
  ASSUME NEW x \in Notices!TicketRows
  PROVE  /\ [x EXCEPT !.stored = FALSE] \in Notices!TicketRows
         /\ [x EXCEPT !.stored = FALSE] # None
         /\ ~[x EXCEPT !.stored = FALSE].stored
         /\ [x EXCEPT !.stored = FALSE].user = x.user
         /\ [x EXCEPT !.stored = FALSE].token = x.token
         /\ [x EXCEPT !.stored = FALSE].expires = x.expires
<1>1. /\ [x EXCEPT !.stored = FALSE] \in Notices!TicketRows
      /\ ~[x EXCEPT !.stored = FALSE].stored
      /\ [x EXCEPT !.stored = FALSE].user = x.user
      /\ [x EXCEPT !.stored = FALSE].token = x.token
      /\ [x EXCEPT !.stored = FALSE].expires = x.expires
  BY DEF Notices!TicketRows
<1> QED BY <1>1, ServicesAssumption DEF Notices!NotificationsAssumption

LEMMA SpentTickets ==
  ASSUME NoticeInv, NEW t \in TicketIds, tickets[t] # None,
         tickets' = [tickets EXCEPT ![t].stored = FALSE]
  PROVE  /\ tickets' \in [TicketIds -> Notices!TicketRows \cup {None}]
         /\ ~tickets'[t].stored
         /\ \A s \in TicketIds : s # t => tickets'[s] = tickets[s]
         /\ \A s \in TicketIds : (tickets'[s] = None) = (tickets[s] = None)
         /\ \A s \in TicketIds : tickets[s] # None =>
              /\ tickets'[s].user = tickets[s].user /\ tickets'[s].token = tickets[s].token
              /\ tickets'[s].expires = tickets[s].expires
              /\ tickets'[s].stored => tickets[s].stored
<1> DEFINE row == [tickets[t] EXCEPT !.stored = FALSE]
<1>1. tickets[t] \in Notices!TicketRows
  BY NoticeTypes
<1>2. /\ row \in Notices!TicketRows /\ row # None /\ ~row.stored
      /\ row.user = tickets[t].user /\ row.token = tickets[t].token
      /\ row.expires = tickets[t].expires
  BY <1>1, SpentRow
<1>3. tickets' = [tickets EXCEPT ![t] = row]
  BY NoticeTypes
<1> HIDE DEF row
<1> QED BY <1>2, <1>3, NoticeTypes

LEMMA EvictSound ==
  ASSUME NoticeInv, NEW t \in TicketIds, Notices!Evict(t)
  PROVE  NoticeInv'
<1>1. tickets[t] # None /\ tickets' = [tickets EXCEPT ![t].stored = FALSE]
        /\ UNCHANGED <<wsClock, notices, workers, connections>>
  BY DEF Notices!Evict
<1>2. Notices!TypeOK'
  BY <1>1, SpentTickets DEF NoticeInv, Notices!TypeOK
<1>3. \A w \in Workers : \A n \in workers'[w].notices : notices'[n] # None
  BY <1>1 DEF NoticeInv, PushesStored
<1>4. /\ \A s \in TicketIds : tickets'[s] # None => tickets[s] # None
      /\ \A s \in TicketIds : tickets[s] # None =>
           /\ tickets'[s] # None
           /\ tickets'[s].user = tickets[s].user /\ tickets'[s].token = tickets[s].token
           /\ tickets'[s].expires = tickets[s].expires
           /\ tickets'[s].stored => tickets[s].stored
  BY <1>1, SpentTickets
<1> QED BY <1>1, <1>2, <1>3, <1>4, NoticesKept

\* The ticket was stored, so that no connection has it.
LEMMA ConsumeSound ==
  ASSUME NoticeInv, NEW c \in Connections, NEW t \in TicketIds, Notices!ConsumeTicket(c, t)
  PROVE  NoticeInv'
<1>1. /\ connections[c] = None /\ tickets[t] # None /\ tickets[t].stored
      /\ tickets' = [tickets EXCEPT ![t].stored = FALSE]
      /\ Notices!Accept(c, t)
      /\ UNCHANGED <<wsClock, notices, workers>>
  BY DEF Notices!ConsumeTicket
<1>2. /\ tickets' \in [TicketIds -> Notices!TicketRows \cup {None}]
      /\ \A s \in TicketIds : tickets'[s] # None => tickets[s] # None
      /\ \A s \in TicketIds : tickets[s] # None =>
           /\ tickets'[s] # None
           /\ tickets'[s].user = tickets[s].user /\ tickets'[s].token = tickets[s].token
           /\ tickets'[s].expires = tickets[s].expires
           /\ tickets'[s].stored => tickets[s].stored
      /\ ~tickets'[t].stored
  BY <1>1, SpentTickets
<1>3. \A w \in Workers : \A n \in workers'[w].notices : notices'[n] # None
  BY <1>1 DEF NoticeInv, PushesStored
<1>4. CASE wsClock > tickets[t].expires
  <2>1. connections' = connections
    BY <1>1, <1>4 DEF Notices!Accept
  <2>2. Notices!TypeOK'
    BY <1>1, <1>2, <2>1 DEF NoticeInv, Notices!TypeOK
  <2> QED BY <1>1, <1>2, <1>3, <2>1, <2>2, NoticesKept
<1>5. CASE ~(wsClock > tickets[t].expires)
  <2> DEFINE row == [ticket |-> t, user |-> tickets[t].user, since |-> wsClock,
                     state |-> "accepted", shown |-> {}]
  <2>1. connections' = [connections EXCEPT ![c] = row]
    BY <1>1, <1>5 DEF Notices!Accept
  <2>2. /\ tickets[t].user \in Recipients /\ tickets[t].token \in Notices!Times
        /\ tickets[t].expires \in Notices!Times /\ wsClock \in Notices!Times
    BY <1>1, NoticeTypes DEF Notices!TicketRows
  <2>3. wsClock <= tickets[t].token
    BY <1>1, <1>5, <2>2, ServicesAssumption
       DEF NoticeInv, TicketsExpire, Notices!Times, Notices!NotificationsAssumption
  <2>4. /\ row \in Notices!ConnectionRows /\ row # None /\ row.ticket = t
        /\ row.user = tickets[t].user /\ row.since = wsClock /\ row.shown = {}
    <3>1. row \in Notices!ConnectionRows
      BY <2>2 DEF Notices!ConnectionRows
    <3> QED BY <3>1, ServicesAssumption DEF Notices!NotificationsAssumption
  <2> HIDE DEF row
  <2>5. /\ connections' \in [Connections -> Notices!ConnectionRows \cup {None}]
        /\ connections'[c] = row
        /\ \A d \in Connections : d # c => connections'[d] = connections[d]
    BY <2>1, <2>4, NoticeTypes
  <2>6. Notices!TypeOK'
    BY <1>1, <1>2, <2>5 DEF NoticeInv, Notices!TypeOK
  <2>7. TicketsExpire' /\ PushesStored'
    BY <1>2, <1>3 DEF NoticeInv, TicketsExpire, PushesStored
  <2>8. ASSUME NEW d \in Notices!Opened', d # c
        PROVE  /\ d \in Notices!Opened /\ connections'[d] = connections[d]
               /\ connections[d].ticket \in TicketIds
               /\ connections[d].ticket # t
               /\ tickets'[connections[d].ticket] # None
               /\ ~tickets'[connections[d].ticket].stored
               /\ tickets'[connections[d].ticket].user = connections[d].user
               /\ tickets'[connections[d].ticket].user = tickets[connections[d].ticket].user
               /\ tickets'[connections[d].ticket].token = tickets[connections[d].ticket].token
    <3>1. d \in Notices!Opened /\ connections'[d] = connections[d]
      BY <2>5, <2>8 DEF Notices!Opened
    <3>2. /\ connections[d].ticket \in TicketIds
          /\ tickets[connections[d].ticket] # None
          /\ ~tickets[connections[d].ticket].stored
          /\ tickets[connections[d].ticket].user = connections[d].user
      BY <3>1, NoticeTypes DEF NoticeInv, TicketsSpent, Notices!Opened, Notices!ConnectionRows
    <3> QED BY <1>1, <1>2, <3>1, <3>2
  <2>9. TicketsSpent'
    <3>1. ASSUME NEW d \in Notices!Opened'
          PROVE  /\ tickets'[connections'[d].ticket] # None
                 /\ ~tickets'[connections'[d].ticket].stored
                 /\ tickets'[connections'[d].ticket].user = connections'[d].user
      BY <1>1, <1>2, <2>4, <2>5, <2>8
    <3> QED BY <3>1 DEF TicketsSpent
  <2>10. ASSUME NEW d \in Notices!Opened'
         PROVE  /\ \A e \in Notices!Opened' : connections'[e].ticket = connections'[d].ticket => e = d
                /\ connections'[d].since <= tickets'[connections'[d].ticket].token
                /\ \A n \in connections'[d].shown :
                     notices'[n] # None
                       /\ notices'[n].user = tickets'[connections'[d].ticket].user
    <3>1. CASE d = c
      BY <1>1, <1>2, <2>3, <2>4, <2>5, <2>8, <3>1
    <3>2. CASE d # c
      <4>1. /\ d \in Notices!Opened /\ connections'[d] = connections[d]
            /\ connections[d].ticket # t
        BY <2>8, <3>2
      <4>2. \A e \in Notices!Opened' : connections'[e].ticket = connections'[d].ticket => e = d
        BY <2>4, <2>5, <2>8, <4>1 DEF NoticeInv, Notices!PushesReachTheirUser
      <4>3. connections'[d].since <= tickets'[connections'[d].ticket].token
        BY <2>8, <3>2, <4>1 DEF NoticeInv, Notices!PushesReachTheirUser
      <4>4. \A n \in connections'[d].shown :
              notices'[n] # None /\ notices'[n].user = tickets'[connections'[d].ticket].user
        BY <1>1, <2>8, <3>2, <4>1 DEF NoticeInv, Notices!PushesReachTheirUser
      <4> QED BY <4>2, <4>3, <4>4
    <3> QED BY <3>1, <3>2
  <2>11. Notices!PushesReachTheirUser'
    BY <2>10 DEF Notices!PushesReachTheirUser
  <2> QED BY <2>6, <2>7, <2>9, <2>11 DEF NoticeInv
<1> QED BY <1>4, <1>5

\* Steps that change what connections are and show, and let workers move on.
LEMMA ConnectionsMove ==
  ASSUME NoticeInv, UNCHANGED <<wsClock, notices, tickets>>,
         workers' \in [Workers -> Notices!WorkerStates],
         \A w \in Workers : \A n \in workers'[w].notices : n \in workers[w].notices,
         connections' \in [Connections -> Notices!ConnectionRows \cup {None}],
         \A c \in Connections : connections'[c] # None =>
           /\ connections[c] # None /\ connections'[c].ticket = connections[c].ticket
           /\ connections'[c].user = connections[c].user
           /\ connections'[c].since = connections[c].since
           /\ \A n \in connections'[c].shown :
                \/ n \in connections[c].shown
                \/ notices[n] # None /\ notices[n].user = connections[c].user
  PROVE  NoticeInv'
<1>1. Notices!TypeOK'
  BY DEF NoticeInv, Notices!TypeOK
<1>2. \A w \in Workers : \A n \in workers'[w].notices : notices'[n] # None
  BY DEF NoticeInv, PushesStored
<1> QED BY <1>1, <1>2, NoticesKept

LEMMA MovedRow ==
  ASSUME NEW x \in Notices!ConnectionRows, NEW to \in {"accepted", "open", "closed"}
  PROVE  /\ [x EXCEPT !.state = to] \in Notices!ConnectionRows
         /\ [x EXCEPT !.state = to].ticket = x.ticket
         /\ [x EXCEPT !.state = to].user = x.user
         /\ [x EXCEPT !.state = to].since = x.since
         /\ [x EXCEPT !.state = to].shown = x.shown
BY DEF Notices!ConnectionRows

\* Connect and Disconnect.
LEMMA NoticeGotoSound ==
  ASSUME NoticeInv, NEW c \in Connections, NEW from, NEW to \in {"open", "closed"},
         Notices!Goto(c, from, to)
  PROVE  NoticeInv'
<1> DEFINE row == [connections[c] EXCEPT !.state = to]
<1>1. connections[c] # None /\ connections[c] \in Notices!ConnectionRows
  BY NoticeTypes DEF Notices!Goto
<1>2. /\ row \in Notices!ConnectionRows /\ row.ticket = connections[c].ticket
      /\ row.user = connections[c].user /\ row.since = connections[c].since
      /\ row.shown = connections[c].shown
  BY <1>1, MovedRow
<1>3. connections' = [connections EXCEPT ![c] = row]
        /\ UNCHANGED <<wsClock, notices, workers, tickets>>
  BY NoticeTypes DEF Notices!Goto
<1> HIDE DEF row
<1> QED BY <1>1, <1>2, <1>3, NoticeTypes, ConnectionsMove

LEMMA NoticeCrashSound ==
  ASSUME NoticeInv, Notices!Crash
  PROVE  NoticeInv'
<1>1. /\ workers' \in [Workers -> Notices!WorkerStates]
      /\ \A w \in Workers : \A n \in workers'[w].notices : n \in workers[w].notices
      /\ UNCHANGED <<wsClock, notices, tickets>>
  BY IdleWorker DEF Notices!Crash
<1>2. \A c \in Connections :
        connections'[c] = IF connections[c] = None THEN None
                          ELSE [connections[c] EXCEPT !.state = "closed"]
  BY DEF Notices!Crash
<1>3. ASSUME NEW c \in Connections
      PROVE  /\ connections'[c] \in Notices!ConnectionRows \cup {None}
             /\ connections'[c] # None =>
                  /\ connections[c] # None /\ connections'[c].ticket = connections[c].ticket
                  /\ connections'[c].user = connections[c].user
                  /\ connections'[c].since = connections[c].since
                  /\ connections'[c].shown = connections[c].shown
  <2>1. connections[c] \in Notices!ConnectionRows \cup {None}
    BY NoticeTypes
  <2> QED BY <1>2, <2>1, MovedRow
<1>4. connections' \in [Connections -> Notices!ConnectionRows \cup {None}]
  BY <1>3 DEF Notices!Crash
<1> QED BY <1>1, <1>3, <1>4, ConnectionsMove

LEMMA DeliverSound ==
  ASSUME NoticeInv, NEW w \in Workers, NEW n \in NoticeIds, Notices!Deliver(w, n)
  PROVE  NoticeInv'
<1>1. /\ n \in workers[w].notices /\ notices[n] # None
      /\ Notices!Delivered(w, n) /\ UNCHANGED <<wsClock, notices, tickets>>
  BY DEF NoticeInv, PushesStored, Notices!Deliver
<1>2. PICK slow \in SUBSET Notices!OpenFor(notices[n].user) :
        connections' = [c \in Connections |->
         CASE c \in slow -> [connections[c] EXCEPT !.state = "closed"]
           [] c \in Notices!OpenFor(notices[n].user) \ slow ->
                [connections[c] EXCEPT !.shown = @ \cup {n}]
           [] OTHER -> connections[c]]
  BY DEF Notices!Deliver
<1>3. ASSUME NEW c \in Connections
      PROVE  /\ connections'[c] \in Notices!ConnectionRows \cup {None}
             /\ connections'[c] # None =>
                  /\ connections[c] # None /\ connections'[c].ticket = connections[c].ticket
                  /\ connections'[c].user = connections[c].user
                  /\ connections'[c].since = connections[c].since
                  /\ \A m \in connections'[c].shown :
                       \/ m \in connections[c].shown
                       \/ m = n /\ notices[n].user = connections[c].user
  <2>1. connections[c] \in Notices!ConnectionRows \cup {None}
    BY NoticeTypes
  <2>2. CASE c \in slow
    <3>1. connections[c] \in Notices!ConnectionRows
      BY <2>1, <2>2 DEF Notices!OpenFor
    <3>2. connections'[c] = [connections[c] EXCEPT !.state = "closed"]
      BY <1>2, <2>2
    <3>3. connections[c] # None
      BY <3>1, ServicesAssumption DEF Notices!NotificationsAssumption
    <3> QED BY <3>1, <3>2, <3>3, MovedRow
  <2>3. CASE c \in Notices!OpenFor(notices[n].user) \ slow
    <3>1. /\ connections[c] \in Notices!ConnectionRows /\ connections[c] # None
          /\ connections[c].user = notices[n].user
      BY <2>1, <2>3 DEF Notices!OpenFor
    <3> DEFINE row == [connections[c] EXCEPT !.shown = @ \cup {n}]
    <3>2. connections'[c] = row
      BY <1>2, <2>3
    <3>3. /\ row \in Notices!ConnectionRows /\ row.ticket = connections[c].ticket
          /\ row.user = connections[c].user /\ row.since = connections[c].since
          /\ row.shown = connections[c].shown \cup {n}
      BY <3>1 DEF Notices!ConnectionRows
    <3> HIDE DEF row
    <3> QED BY <3>1, <3>2, <3>3
  <2>4. CASE c \notin slow /\ c \notin Notices!OpenFor(notices[n].user)
    <3>1. connections'[c] = connections[c]
      BY <1>2, <2>4
    <3> QED BY <2>1, <3>1
  <2> QED BY <2>2, <2>3, <2>4
<1>4. connections' \in [Connections -> Notices!ConnectionRows \cup {None}]
  BY <1>2, <1>3
<1>5. /\ workers' \in [Workers -> Notices!WorkerStates]
      /\ \A v \in Workers : \A m \in workers'[v].notices : m \in workers[v].notices
  BY <1>1, DeliveredSound
<1> QED BY <1>1, <1>3, <1>4, <1>5, ConnectionsMove

LEMMA NoticeSame ==
  ASSUME NoticeInv, UNCHANGED noticeVars
  PROVE  NoticeInv'
BY DEF noticeVars, NoticeInv, Notices!TypeOK, TicketsExpire, TicketsSpent, PushesStored,
       Notices!PushesReachTheirUser, Notices!Opened

LEMMA NoticeTickSound ==
  ASSUME NoticeInv, Notices!Tick
  PROVE  NoticeInv'
<1>1. Notices!TypeOK'
  BY ServicesAssumption
     DEF NoticeInv, Notices!Tick, Notices!TypeOK, Notices!Times, Notices!NotificationsAssumption
<1>2. TicketsExpire' /\ TicketsSpent' /\ PushesStored' /\ Notices!PushesReachTheirUser'
  BY DEF Notices!Tick, NoticeInv, TicketsExpire, TicketsSpent, PushesStored,
         Notices!PushesReachTheirUser, Notices!Opened
<1> QED BY <1>1, <1>2 DEF NoticeInv

LEMMA NoticeNextSound ==
  ASSUME NoticeInv, Notices!Next
  PROVE  NoticeInv'
<1>1. CASE Notices!Tick
  BY <1>1, NoticeTickSound
<1>2. ASSUME NEW w \in Workers, NEW users \in SUBSET Recipients, NEW lookups \in 0..3,
             Notices!Notify(w, users, lookups)
      PROVE  NoticeInv'
  BY <1>2, NotifySound
<1>3. ASSUME NEW w \in Workers,
             \/ Notices!ResolveRecipients(w) \/ Notices!CreateNotifications(w)
             \/ Notices!Fail(w)
             \/ \E n \in NoticeIds : Notices!Deliver(w, n) \/ Notices!DropMessage(w, n)
      PROVE  NoticeInv'
  BY <1>3, ResolveSound, CreateNoticesSound, NoticeFailSound, DeliverSound, DropSound
<1>4. ASSUME NEW u \in Recipients,
             Notices!MarkAllAsRead(u) \/ \E n \in NoticeIds : Notices!MarkAsRead(n, u)
      PROVE  NoticeInv'
  BY <1>4, MarkAllSound, MarkSound
<1>5. ASSUME NEW t \in TicketIds,
             \/ \E u \in Recipients, token \in Notices!Times : Notices!IssueTicket(t, u, token)
             \/ Notices!Evict(t)
             \/ \E c \in Connections : Notices!ConsumeTicket(c, t)
      PROVE  NoticeInv'
  BY <1>5, IssueSound, EvictSound, ConsumeSound
<1>6. ASSUME NEW c \in Connections, Notices!Connect(c) \/ Notices!Disconnect(c)
      PROVE  NoticeInv'
  BY <1>6, NoticeGotoSound DEF Notices!Connect, Notices!Disconnect
<1>7. CASE Notices!Crash
  BY <1>7, NoticeCrashSound
<1> QED BY <1>1, <1>2, <1>3, <1>4, <1>5, <1>6, <1>7 DEF Notices!Next

-----------------------------------------------------------------------------
(* Contracts *)

\* What a change under way rests on: the contract it starts from, on an earlier
\* day, and a salary of that contract or of none.
ChangeSound(step, new) ==
  /\ step = "ending" => new.base \in Employments!Made
  /\ step \in {"inserting", "looking", "assigning"} /\ new.base # None =>
       new.base \in Employments!Made /\ contracts[new.base].start < new.start
  /\ step = "assigning" /\ new.previous # None =>
       /\ new.base # None /\ new.previous \in Employments!Assigned
       /\ salaries[new.previous].contract \in {new.base, None}

ChangesSound == \A s \in Callers : ChangeSound(changePc[s], change[s])

\* s is a salary of c from its start until it was first cut off.
Pays(s, c) ==
  /\ salaries[s].contract = c /\ salaries[s].from <= contracts[c].start
  /\ salaries[s].to # None => firstCut[c] # None /\ salaries[s].to > firstCut[c]

AllPaid == \A c \in Employments!Made \ unpaid : \E s \in Employments!Assigned : Pays(s, c)

ContractInv ==
  /\ Employments!TypeOK
  /\ ChangesSound
  /\ AllPaid

LEMMA ContractTypes ==
  ASSUME ContractInv
  PROVE  /\ contracts \in [Employments!ContractIds -> Employments!ContractRows \cup {None}]
         /\ salaries \in [Employments!SalaryIds -> Employments!SalaryRows \cup {None}]
         /\ changePc \in [Callers -> Employments!PCs]
         /\ change \in [Callers -> Employments!Changes]
         /\ edits \in 0..MaxEdits
         /\ firstCut \in [Employments!ContractIds -> Employments!Dates]
         /\ unpaid \subseteq Employments!ContractIds
BY DEF ContractInv, Employments!TypeOK

LEMMA ContractsAre ==
  /\ LastDay \in Nat /\ MaxContracts \in Nat \ {0} /\ MaxSalaries \in Nat \ {0}
  /\ MaxEdits \in Nat
  /\ Ends \subseteq Employments!Days /\ Starts \subseteq Employments!Days
  /\ Employments!Days \subseteq Int
  /\ Employments!ContractIds \subseteq Int /\ Employments!SalaryIds \subseteq Int
  /\ None \notin Int /\ None \notin Callers
  /\ None \notin Employments!ContractRows /\ None \notin Employments!SalaryRows
BY ServicesAssumption
   DEF Employments!ContractsAssumption, Employments!Days, Employments!ContractIds,
       Employments!SalaryIds

\* The rows that are there.
LEMMA ContractRow ==
  ASSUME ContractInv, NEW c \in Employments!Made
  PROVE  /\ c \in Employments!ContractIds /\ c # None
         /\ contracts[c] \in Employments!ContractRows
         /\ contracts[c].start \in Employments!Days /\ contracts[c].start \in Int
         /\ contracts[c].start >= 1
         /\ firstCut[c] \in Employments!Dates
<1>1. c \in Employments!ContractIds /\ contracts[c] # None
  BY DEF Employments!Made
<1>2. contracts[c] \in Employments!ContractRows /\ firstCut[c] \in Employments!Dates
  BY <1>1, ContractTypes
<1>3. contracts[c].start \in Employments!Days
  BY <1>2 DEF Employments!ContractRows
<1>4. contracts[c].start \in Int /\ contracts[c].start >= 1
  BY <1>3, ContractsAre DEF Employments!Days
<1> QED BY <1>1, <1>2, <1>3, <1>4, ContractsAre

LEMMA SalaryRow ==
  ASSUME ContractInv, NEW s \in Employments!Assigned
  PROVE  /\ s \in Employments!SalaryIds
         /\ salaries[s] \in Employments!SalaryRows
         /\ salaries[s].from \in Int /\ salaries[s].to \in Employments!Dates
<1>1. s \in Employments!SalaryIds /\ salaries[s] \in Employments!SalaryRows
  BY ContractTypes DEF Employments!Assigned
<1>2. salaries[s].from \in Employments!Days /\ salaries[s].to \in Employments!Dates
  BY <1>1 DEF Employments!SalaryRows
<1> QED BY <1>1, <1>2, ContractsAre

LEMMA ContractInit == Employments!Init => ContractInv
<1> SUFFICES ASSUME Employments!Init PROVE ContractInv
  OBVIOUS
<1>1. PICK start \in Starts, end \in Employments!EndDates, from \in Starts,
           to \in Employments!EndDates, contract \in {1, None}, salary \in {1, None} :
        /\ Employments!Reaches(end, start) /\ Employments!After(to, from)
        /\ contracts = [c \in Employments!ContractIds |->
             IF c = contract THEN [start |-> start, end |-> end, cut |-> None] ELSE None]
        /\ salaries = [s \in Employments!SalaryIds |->
             IF s = salary THEN [contract |-> contract, from |-> from, to |-> to] ELSE None]
        /\ unpaid = IF contract = None \/ (salary # None /\ from <= start /\ to = None)
                    THEN {} ELSE {contract}
  BY DEF Employments!Init
<1>2. /\ changePc = [s \in Callers |-> "idle"] /\ edits = 0
      /\ change = [s \in Callers |-> Employments!NoChange]
      /\ firstCut = [c \in Employments!ContractIds |-> None]
  BY DEF Employments!Init
<1>3. /\ start \in Employments!Days /\ from \in Employments!Days /\ 1 \in Employments!Days
      /\ end \in Employments!Dates /\ to \in Employments!Dates /\ None \in Employments!Dates
      /\ 1 \in Employments!ContractIds /\ 1 \in Employments!SalaryIds
  BY ContractsAre
     DEF Employments!Days, Employments!ContractIds, Employments!SalaryIds,
         Employments!EndDates, Employments!Dates
<1> DEFINE row == [start |-> start, end |-> end, cut |-> None]
           paid == [contract |-> contract, from |-> from, to |-> to]
<1>4. row \in Employments!ContractRows /\ row.start = start /\ row # None
  <2>1. row \in Employments!ContractRows
    BY <1>3 DEF Employments!ContractRows
  <2> QED BY <2>1, ContractsAre
<1>5. /\ paid \in Employments!SalaryRows /\ paid # None
      /\ paid.contract = contract /\ paid.from = from /\ paid.to = to
  <2>1. paid \in Employments!SalaryRows
    BY <1>3 DEF Employments!SalaryRows
  <2> QED BY <2>1, ContractsAre
<1>6. /\ contracts = [c \in Employments!ContractIds |-> IF c = contract THEN row ELSE None]
      /\ salaries = [s \in Employments!SalaryIds |-> IF s = salary THEN paid ELSE None]
  BY <1>1
<1> HIDE DEF row, paid
<1>7. Employments!NoChange \in Employments!Changes
  BY <1>3 DEF Employments!NoChange, Employments!Changes
<1>8. Employments!TypeOK
  <2>1. contracts \in [Employments!ContractIds -> Employments!ContractRows \cup {None}]
    BY <1>4, <1>6
  <2>2. salaries \in [Employments!SalaryIds -> Employments!SalaryRows \cup {None}]
    BY <1>5, <1>6
  <2>3. changePc \in [Callers -> Employments!PCs]
    BY <1>2 DEF Employments!PCs
  <2>4. change \in [Callers -> Employments!Changes]
    BY <1>2, <1>7
  <2>5. edits \in 0..MaxEdits
    BY <1>2, ContractsAre
  <2>6. firstCut \in [Employments!ContractIds -> Employments!Dates]
    BY <1>2, <1>3
  <2>7. unpaid \subseteq Employments!ContractIds
    BY <1>1, <1>3
  <2> QED BY <2>1, <2>2, <2>3, <2>4, <2>5, <2>6, <2>7 DEF Employments!TypeOK
<1>9. ChangesSound
  BY <1>2 DEF ChangesSound, ChangeSound
<1>10. ASSUME NEW c \in Employments!Made \ unpaid
       PROVE  \E s \in Employments!Assigned : Pays(s, c)
  <2>1. c = contract /\ c \in Employments!ContractIds
    BY <1>6 DEF Employments!Made
  <2>2. c # None
    BY <2>1, ContractsAre
  <2>3. salary # None /\ from <= start /\ to = None
    BY <1>1, <1>10, <2>1, <2>2
  <2>4. salary \in Employments!SalaryIds /\ salaries[salary] = paid /\ contracts[c] = row
    BY <1>3, <1>6, <2>1, <2>3
  <2>5. salary \in Employments!Assigned
    BY <1>5, <2>4 DEF Employments!Assigned
  <2>6. Pays(salary, c)
    BY <1>4, <1>5, <2>1, <2>3, <2>4 DEF Pays
  <2> QED BY <2>5, <2>6
<1> QED BY <1>8, <1>9, <1>10 DEF ContractInv, AllPaid

\* A change begins, goes on or ends; no row changes, and one may be inserted.
LEMMA ChangeMoves ==
  ASSUME ContractInv, NEW s \in Callers, NEW to \in Employments!PCs,
         NEW new \in Employments!Changes,
         changePc' = [changePc EXCEPT ![s] = to],
         change' = [change EXCEPT ![s] = new],
         ChangeSound(to, new),
         UNCHANGED <<contracts, firstCut, unpaid>>,
         edits' \in 0..MaxEdits,
         salaries' \in [Employments!SalaryIds -> Employments!SalaryRows \cup {None}],
         \A r \in Employments!Assigned : salaries'[r] = salaries[r]
  PROVE  ContractInv'
<1>1. /\ changePc' \in [Callers -> Employments!PCs] /\ change' \in [Callers -> Employments!Changes]
      /\ changePc'[s] = to /\ change'[s] = new
      /\ \A r \in Callers \ {s} : changePc'[r] = changePc[r] /\ change'[r] = change[r]
  BY ContractTypes
<1>2. Employments!TypeOK'
  BY <1>1, ContractTypes DEF Employments!TypeOK
<1>3. Employments!Made' = Employments!Made
  BY DEF Employments!Made
<1>4. Employments!Assigned \subseteq Employments!Assigned'
  BY DEF Employments!Assigned
<1>5. ASSUME NEW step, NEW other, ChangeSound(step, other)
      PROVE  ChangeSound(step, other)'
  BY <1>3, <1>4, <1>5 DEF ChangeSound
<1>6. ChangesSound'
  <2>1. ASSUME NEW r \in Callers
        PROVE  ChangeSound(changePc'[r], change'[r])
    BY <1>1 DEF ContractInv, ChangesSound
  <2> QED BY <1>3, <1>4, <2>1 DEF ChangesSound, ChangeSound
<1>7. AllPaid'
  <2>1. ASSUME NEW c \in Employments!Made \ unpaid
        PROVE  \E r \in Employments!Assigned' : Pays(r, c)'
    <3>1. PICK r \in Employments!Assigned : Pays(r, c)
      BY DEF ContractInv, AllPaid
    <3>2. Pays(r, c)'
      BY <3>1 DEF Pays
    <3> QED BY <1>4, <3>1, <3>2
  <2> QED BY <1>3, <2>1 DEF AllPaid
<1> QED BY <1>2, <1>6, <1>7 DEF ContractInv

\* The next statement of a change that keeps what it carries.
LEMMA GotoSound ==
  ASSUME ContractInv, NEW s \in Callers, NEW to \in Employments!PCs,
         Employments!Goto(s, to), ChangeSound(to, change[s])
  PROVE  ContractInv'
<1>1. change[s] \in Employments!Changes /\ change' = [change EXCEPT ![s] = change[s]]
  BY ContractTypes DEF Employments!Goto
<1>2. /\ changePc' = [changePc EXCEPT ![s] = to]
      /\ UNCHANGED <<contracts, firstCut, unpaid, edits, salaries>>
  BY DEF Employments!Goto
<1>3. edits' \in 0..MaxEdits
        /\ salaries' \in [Employments!SalaryIds -> Employments!SalaryRows \cup {None}]
  BY <1>2, ContractTypes
<1>4. \A r \in Employments!Assigned : salaries'[r] = salaries[r]
  BY <1>2
<1> QED BY <1>1, <1>2, <1>3, <1>4, ChangeMoves

LEMMA EndSegmentSound ==
  ASSUME ContractInv, NEW s \in Callers, Employments!EndEmployeeContractSegment(s)
  PROVE  ContractInv'
<1>1. /\ changePc[s] = "ending" /\ change[s].start - 1 >= contracts[change[s].base].start
      /\ Employments!Goto(s, "inserting")
  BY DEF Employments!EndEmployeeContractSegment
<1>2. change[s].base \in Employments!Made
  BY <1>1 DEF ContractInv, ChangesSound, ChangeSound
<1>3. change[s].start \in Int
  BY ContractTypes, ContractsAre DEF Employments!Changes
<1>4. contracts[change[s].base].start < change[s].start
  BY <1>1, <1>2, <1>3, ContractRow
<1>5. ChangeSound("inserting", change[s]) /\ "inserting" \in Employments!PCs
  BY <1>2, <1>4 DEF ChangeSound, Employments!PCs
<1> QED BY <1>1, <1>5, GotoSound

LEMMA AddContractSound ==
  ASSUME ContractInv, NEW s \in Callers, Employments!AddContract(s)
  PROVE  ContractInv'
<1>1. changePc[s] = "inserting" /\ Employments!Goto(s, "looking")
  BY DEF Employments!AddContract
<1>2. ChangeSound("looking", change[s]) /\ "looking" \in Employments!PCs
  BY <1>1 DEF ContractInv, ChangesSound, ChangeSound, Employments!PCs
<1> QED BY <1>1, <1>2, GotoSound

LEMMA ActiveSalarySound ==
  ASSUME ContractInv, NEW s \in Callers, Employments!GetActiveSalary(s)
  PROVE  ContractInv'
<1> DEFINE base == change[s].base
           found == IF base = None THEN {}
                    ELSE Employments!PreviousSalary(base, change[s].start)
<1>1. PICK previous \in IF found = {} THEN {None} ELSE found :
        change' = [change EXCEPT ![s].previous = previous]
  BY DEF Employments!GetActiveSalary
<1>2. /\ changePc[s] = "looking" /\ changePc' = [changePc EXCEPT ![s] = "assigning"]
      /\ UNCHANGED <<contracts, salaries, edits, firstCut, unpaid>>
  BY DEF Employments!GetActiveSalary
<1>3. previous # None =>
        /\ base # None /\ previous \in Employments!Assigned
        /\ salaries[previous].contract \in {base, None}
  BY <1>1 DEF Employments!PreviousSalary, Employments!ActiveSalaries
<1> HIDE DEF found, base
<1> DEFINE new == [change[s] EXCEPT !.previous = previous]
<1>4. change[s] \in Employments!Changes /\ change' = [change EXCEPT ![s] = new]
  BY <1>1, ContractTypes
<1>5. previous \in Employments!SalaryIds \cup {None}
  BY <1>3 DEF Employments!Assigned
<1>6. /\ new \in Employments!Changes /\ new.base = base
      /\ new.start = change[s].start /\ new.previous = previous
  BY <1>4, <1>5 DEF Employments!Changes, base
<1> HIDE DEF new
<1>7. ChangeSound("looking", change[s])
  BY <1>2 DEF ContractInv, ChangesSound
<1>8. ChangeSound("assigning", new) /\ "assigning" \in Employments!PCs
  BY <1>3, <1>6, <1>7 DEF ChangeSound, Employments!PCs, base
<1>9. /\ edits' \in 0..MaxEdits /\ \A r \in Employments!Assigned : salaries'[r] = salaries[r]
      /\ salaries' \in [Employments!SalaryIds -> Employments!SalaryRows \cup {None}]
  BY <1>2, ContractTypes
<1> QED BY <1>2, <1>4, <1>6, <1>8, <1>9, ChangeMoves

LEMMA NoChangeType ==
  ASSUME ContractInv, NEW s \in Callers
  PROVE  /\ Employments!NoChange \in Employments!Changes /\ "idle" \in Employments!PCs
         /\ ChangeSound("idle", Employments!NoChange)
<1>1. change[s].start \in Employments!Days
  BY ContractTypes DEF Employments!Changes
<1>2. 1 \in Employments!Days
  BY <1>1, ContractsAre DEF Employments!Days
<1> QED BY <1>2
        DEF Employments!NoChange, Employments!Changes, Employments!Dates, Employments!PCs,
            ChangeSound

LEMMA ContractFailSound ==
  ASSUME ContractInv, NEW s \in Callers, Employments!Fail(s)
  PROVE  ContractInv'
<1>1. /\ changePc' = [changePc EXCEPT ![s] = "idle"]
      /\ change' = [change EXCEPT ![s] = Employments!NoChange]
      /\ UNCHANGED <<contracts, salaries, edits, firstCut, unpaid>>
  BY DEF Employments!Fail
<1>2. /\ edits' \in 0..MaxEdits /\ \A r \in Employments!Assigned : salaries'[r] = salaries[r]
      /\ salaries' \in [Employments!SalaryIds -> Employments!SalaryRows \cup {None}]
  BY <1>1, ContractTypes
<1> QED BY <1>1, <1>2, NoChangeType, ChangeMoves

LEMMA BeginSound ==
  ASSUME ContractInv, NEW s \in Callers,
         NEW next \in {"ending", "inserting", "updating", "filling"},
         NEW base \in Employments!Made \cup {None},
         NEW start \in Employments!Days, NEW end \in Employments!EndDates,
         Employments!Begin(s, next, base, start, end),
         edits' \in 0..MaxEdits,
         next = "ending" => base \in Employments!Made,
         next = "inserting" => base = None
  PROVE  ContractInv'
<1> DEFINE new == [base |-> base, start |-> start, end |-> end, previous |-> None]
<1>1. /\ changePc' = [changePc EXCEPT ![s] = next]
      /\ change' = [change EXCEPT ![s] = new]
      /\ UNCHANGED <<contracts, salaries, firstCut, unpaid>>
  BY DEF Employments!Begin
<1>2. new \in Employments!Changes /\ new.base = base
  <2>1. end \in Employments!Dates /\ base \in Employments!ContractIds \cup {None}
    BY ContractsAre, ContractRow DEF Employments!EndDates, Employments!Dates
  <2> QED BY <2>1 DEF Employments!Changes
<1> HIDE DEF new
<1>3. ChangeSound(next, new) /\ next \in Employments!PCs
  BY <1>2 DEF ChangeSound, Employments!PCs
<1>4. /\ \A r \in Employments!Assigned : salaries'[r] = salaries[r]
      /\ salaries' \in [Employments!SalaryIds -> Employments!SalaryRows \cup {None}]
  BY <1>1, ContractTypes
<1> QED BY <1>1, <1>2, <1>3, <1>4, ChangeMoves

LEMMA NewContractSound ==
  ASSUME ContractInv, NEW s \in Callers, NEW start \in Starts, NEW end \in Employments!EndDates,
         Employments!CreateNewContract(s, start, end)
  PROVE  ContractInv'
<1>1. start \in Employments!Days /\ edits' \in 0..MaxEdits
  BY ContractsAre, ContractTypes DEF Employments!CreateNewContract
<1>2. CASE Employments!ContractAt(start) = {}
  <2>1. Employments!Begin(s, "inserting", None, start, end)
    BY <1>2 DEF Employments!CreateNewContract
  <2> QED BY <1>1, <2>1, BeginSound
<1>3. CASE Employments!ContractAt(start) # {}
  <2>1. PICK c \in Employments!ContractAt(start) : Employments!Begin(s, "ending", c, start, end)
    BY <1>3 DEF Employments!CreateNewContract
  <2>2. c \in Employments!Made
    BY DEF Employments!ContractAt
  <2> QED BY <1>1, <2>1, <2>2, BeginSound
<1> QED BY <1>2, <1>3

LEMMA AmendmentSound ==
  ASSUME ContractInv, NEW s \in Callers, NEW base \in Employments!ContractIds,
         NEW start \in Starts, NEW end \in Employments!EndDates,
         Employments!CreateContractAmendment(s, base, start, end)
  PROVE  ContractInv'
<1>1. base \in Employments!Made /\ Employments!Begin(s, "ending", base, start, end)
  BY DEF Employments!CreateContractAmendment
<1>2. start \in Employments!Days /\ edits' \in 0..MaxEdits
  BY ContractsAre, ContractTypes DEF Employments!CreateContractAmendment
<1> QED BY <1>1, <1>2, BeginSound

LEMMA RaiseSound ==
  ASSUME ContractInv, NEW s \in Callers, NEW from \in Starts, NEW to \in Employments!EndDates,
         Employments!UpdateEmployee(s, from, to)
  PROVE  ContractInv'
<1>1. PICK c \in IF Employments!ContractAt(from) = {} THEN {None}
                 ELSE Employments!ContractAt(from) :
        Employments!Begin(s, "updating", c, from, to)
  BY DEF Employments!UpdateEmployee
<1>2. c \in Employments!Made \cup {None}
  BY DEF Employments!ContractAt
<1>3. from \in Employments!Days
  BY ContractsAre
<1>4. edits' \in 0..MaxEdits
  <2>1. edits < MaxEdits /\ edits' = edits + 1
    BY DEF Employments!UpdateEmployee
  <2> QED BY <2>1, ContractTypes, ContractsAre
<1> QED BY <1>1, <1>2, <1>3, <1>4, BeginSound

LEMMA FillSound ==
  ASSUME ContractInv, NEW s \in Callers, NEW c \in Employments!ContractIds,
         Employments!UpdateEmployeeContractSalary(s, c)
  PROVE  ContractInv'
<1>1. /\ c \in Employments!Made
      /\ Employments!Begin(s, "filling", c, contracts[c].start, None)
      /\ edits' = edits
  BY DEF Employments!UpdateEmployeeContractSalary
<1>2. contracts[c].start \in Employments!Days /\ edits' \in 0..MaxEdits
  BY <1>1, ContractRow, ContractTypes
<1>3. None \in Employments!EndDates
  BY DEF Employments!EndDates
<1> QED BY <1>1, <1>2, <1>3, BeginSound

LEMMA AssignmentSound ==
  ASSUME ContractInv, NEW s \in Callers, NEW salary \in Employments!SalaryIds,
         Employments!CreateEmployeeSalaryAssignment(s, salary)
  PROVE  ContractInv'
<1> DEFINE new == [contract |-> change[s].base, from |-> change[s].start, to |-> change[s].end]
<1>1. /\ salaries[salary] = None /\ salaries' = [salaries EXCEPT ![salary] = new]
      /\ changePc' = [changePc EXCEPT ![s] = "idle"]
      /\ change' = [change EXCEPT ![s] = Employments!NoChange]
      /\ UNCHANGED <<contracts, edits, firstCut, unpaid>>
  BY DEF Employments!CreateEmployeeSalaryAssignment, Employments!NextSalary
<1>2. new \in Employments!SalaryRows
  BY ContractTypes DEF Employments!Changes, Employments!SalaryRows
<1> HIDE DEF new
<1>3. /\ edits' \in 0..MaxEdits
      /\ salaries' \in [Employments!SalaryIds -> Employments!SalaryRows \cup {None}]
  BY <1>1, <1>2, ContractTypes
<1>4. \A r \in Employments!Assigned : salaries'[r] = salaries[r]
  BY <1>1, ContractTypes DEF Employments!Assigned
<1> QED BY <1>1, <1>3, <1>4, NoChangeType, ChangeMoves

\* An edit leaves the salaries; a contract that starts earlier is no longer paid
\* from its start.
LEMMA ContractEditSound ==
  ASSUME ContractInv, NEW c \in Employments!ContractIds, NEW start \in Starts,
         NEW end \in Employments!EndDates, Employments!UpdateEmployeeContract(c, start, end)
  PROVE  ContractInv'
<1> DEFINE row == [contracts[c] EXCEPT !.start = start, !.end = end]
<1>1. /\ c \in Employments!Made /\ edits < MaxEdits /\ edits' = edits + 1
      /\ \A r \in Callers : ~Employments!Holds(r, c)
      /\ contracts' = [contracts EXCEPT ![c] = row]
      /\ unpaid' = IF start < contracts[c].start THEN unpaid \cup {c} ELSE unpaid
      /\ UNCHANGED <<salaries, changePc, change, firstCut>>
  BY DEF Employments!UpdateEmployeeContract
<1>2. /\ start \in Employments!Days /\ start \in Int /\ end \in Employments!Dates
      /\ contracts[c] \in Employments!ContractRows /\ contracts[c].start \in Int
  BY <1>1, ContractsAre, ContractRow DEF Employments!EndDates, Employments!Dates
<1>3. row \in Employments!ContractRows /\ row.start = start /\ row # None
  <2>1. row \in Employments!ContractRows /\ row.start = start
    BY <1>2 DEF Employments!ContractRows
  <2> QED BY <2>1, ContractsAre
<1> HIDE DEF row
<1>4. /\ contracts'[c] = row
      /\ \A b \in Employments!ContractIds \ {c} : contracts'[b] = contracts[b]
  BY <1>1, ContractTypes
<1>5. Employments!Made' = Employments!Made /\ Employments!Assigned' = Employments!Assigned
  <2>1. contracts[c] # None
    BY <1>1 DEF Employments!Made
  <2> QED BY <1>1, <1>3, <1>4, <2>1 DEF Employments!Made, Employments!Assigned
<1>6. Employments!TypeOK'
  <2>1. contracts' \in [Employments!ContractIds -> Employments!ContractRows \cup {None}]
    BY <1>1, <1>3, ContractTypes
  <2>2. edits' \in 0..MaxEdits
    BY <1>1, ContractTypes, ContractsAre
  <2>3. unpaid' \subseteq Employments!ContractIds
    BY <1>1, ContractTypes
  <2> QED BY <1>1, <2>1, <2>2, <2>3, ContractTypes DEF Employments!TypeOK
<1>7. ChangesSound'
  <2> SUFFICES ASSUME NEW r \in Callers PROVE ChangeSound(changePc[r], change[r])'
    BY <1>1 DEF ChangesSound
  <2>1. ChangeSound(changePc[r], change[r])
    BY DEF ContractInv, ChangesSound
  <2>2. changePc[r] \in {"inserting", "looking", "assigning"} => change[r].base # c
    BY <1>1 DEF Employments!Holds
  <2>3. change[r].base \in Employments!Made => change[r].base \in Employments!ContractIds
    BY DEF Employments!Made
  <2> QED BY <1>1, <1>4, <1>5, <2>1, <2>2, <2>3 DEF ChangeSound
<1>8. AllPaid'
  <2> SUFFICES ASSUME NEW b \in Employments!Made' \ unpaid'
               PROVE  \E s \in Employments!Assigned' : Pays(s, b)'
    BY DEF AllPaid
  <2>1. b \in Employments!Made \ unpaid /\ b \in Employments!ContractIds
    BY <1>1, <1>5 DEF Employments!Made
  <2>2. PICK s \in Employments!Assigned : Pays(s, b)
    BY <2>1 DEF ContractInv, AllPaid
  <2>3. salaries[s].from \in Int /\ contracts[b].start \in Int
    BY <2>1, SalaryRow, ContractRow
  <2>4. b = c => contracts[c].start <= start
    BY <1>1, <1>2
  <2>5. contracts'[b].start >= contracts[b].start /\ contracts'[b].start \in Int
    BY <1>2, <1>3, <1>4, <2>1, <2>3, <2>4
  <2>6. salaries[s].from <= contracts'[b].start
    BY <2>2, <2>3, <2>5 DEF Pays
  <2>7. Pays(s, b)'
    BY <1>1, <2>2, <2>6 DEF Pays
  <2> QED BY <1>5, <2>7
<1> QED BY <1>6, <1>7, <1>8 DEF ContractInv

\* The earlier of two days is neither.
LEMMA EarlierDay ==
  ASSUME NEW date \in Employments!Dates, NEW day \in Employments!Days
  PROVE  /\ Employments!Earlier(date, day) \in Employments!Days
         /\ Employments!Earlier(date, day) # None
         /\ Employments!Earlier(date, day) <= day
         /\ date # None => Employments!Earlier(date, day) <= date
<1>1. day \in Int /\ date \in Int \cup {None}
  BY ContractsAre DEF Employments!Dates
<1>2. date # None => date \in Employments!Days
  BY DEF Employments!Dates
<1> QED BY <1>1, <1>2, ContractsAre DEF Employments!Earlier

\* The commit of a change of contract.
LEMMA CreateSalarySound ==
  ASSUME ContractInv, NEW s \in Callers, NEW id \in Employments!ContractIds,
         NEW salary \in Employments!SalaryIds, NEW requested \in BOOLEAN,
         Employments!CreateSalaryForContractSegment(s, id, salary, requested)
  PROVE  ContractInv'
<1> DEFINE base == change[s].base
           start == change[s].start
           previous == change[s].previous
           ends == previous # None /\ Employments!After(salaries[previous].to, start)
           new == [start |-> start, end |-> change[s].end, cut |-> None]
           cutoff == [contracts[base] EXCEPT !.cut = start - 1]
           paid == [contract |-> id, from |-> start, to |-> None]
           ended == [salaries[previous] EXCEPT !.to = start]
<1>1. /\ changePc[s] = "assigning" /\ contracts[id] = None /\ salaries[salary] = None
      /\ changePc' = [changePc EXCEPT ![s] = "idle"]
      /\ change' = [change EXCEPT ![s] = Employments!NoChange]
      /\ UNCHANGED <<edits, unpaid>>
  BY DEF Employments!CreateSalaryForContractSegment, Employments!NextContract,
         Employments!NextSalary
<1>2. /\ salaries' = [r \in Employments!SalaryIds |->
           CASE r = salary -> paid [] ends /\ r = previous -> ended [] OTHER -> salaries[r]]
      /\ contracts' = [c \in Employments!ContractIds |->
           CASE c = id -> new [] c = base -> cutoff [] OTHER -> contracts[c]]
      /\ firstCut' = [c \in Employments!ContractIds |->
           IF c = base THEN Employments!Earlier(firstCut[c], start - 1) ELSE firstCut[c]]
  BY DEF Employments!CreateSalaryForContractSegment, Employments!DayBefore
<1>3. /\ start \in Employments!Days /\ start \in Int /\ change[s].end \in Employments!Dates
      /\ None \in Employments!Dates
  BY ContractTypes, ContractsAre DEF Employments!Changes, Employments!Dates
<1>4. /\ base # None => base \in Employments!Made /\ contracts[base].start < start
      /\ previous # None => /\ base # None /\ previous \in Employments!Assigned
                            /\ salaries[previous].contract \in {base, None}
  BY <1>1 DEF ContractInv, ChangesSound, ChangeSound
<1>5. new \in Employments!ContractRows /\ new.start = start /\ new # None
  <2>1. new \in Employments!ContractRows
    BY <1>3 DEF Employments!ContractRows
  <2> QED BY <2>1, ContractsAre
<1>6. base # None => start - 1 \in Employments!Days
  BY <1>3, <1>4, ContractRow, ContractsAre DEF Employments!Days
<1>7. base # None => /\ cutoff \in Employments!ContractRows /\ cutoff # None
                     /\ cutoff.start = contracts[base].start
  <2> SUFFICES ASSUME base # None
               PROVE  /\ cutoff \in Employments!ContractRows /\ cutoff # None
                      /\ cutoff.start = contracts[base].start
    OBVIOUS
  <2>1. contracts[base] \in Employments!ContractRows /\ start - 1 \in Employments!Dates
    BY <1>4, <1>6, ContractRow DEF Employments!Dates
  <2>2. cutoff \in Employments!ContractRows /\ cutoff.start = contracts[base].start
    BY <2>1 DEF Employments!ContractRows
  <2> QED BY <2>2, ContractsAre
<1>8. /\ paid \in Employments!SalaryRows /\ paid # None
      /\ paid.contract = id /\ paid.from = start /\ paid.to = None
  <2>1. paid \in Employments!SalaryRows
    BY <1>3 DEF Employments!SalaryRows
  <2> QED BY <2>1, ContractsAre
<1>9. ends => /\ previous \in Employments!Assigned
              /\ ended \in Employments!SalaryRows /\ ended # None
              /\ ended.contract = salaries[previous].contract
              /\ ended.from = salaries[previous].from /\ ended.to = start
  <2> SUFFICES ASSUME ends
               PROVE  /\ previous \in Employments!Assigned
                      /\ ended \in Employments!SalaryRows /\ ended # None
                      /\ ended.contract = salaries[previous].contract
                      /\ ended.from = salaries[previous].from /\ ended.to = start
    OBVIOUS
  <2>1. previous \in Employments!Assigned
    BY <1>4
  <2>2. salaries[previous] \in Employments!SalaryRows /\ start \in Employments!Dates
    BY <1>3, <2>1, SalaryRow DEF Employments!Dates
  <2>3. /\ ended \in Employments!SalaryRows
        /\ ended.contract = salaries[previous].contract
        /\ ended.from = salaries[previous].from /\ ended.to = start
    BY <2>2 DEF Employments!SalaryRows
  <2> QED BY <2>1, <2>3, ContractsAre
<1> HIDE DEF base, start, previous, ends, new, cutoff, paid, ended
<1>10. id \notin Employments!Made /\ id # base
  <2>1. id \notin Employments!Made
    BY <1>1 DEF Employments!Made
  <2>2. id # None
    BY ContractsAre
  <2> QED BY <1>4, <2>1, <2>2
<1>11. /\ contracts'[id] = new
       /\ base # None => contracts'[base] = cutoff
       /\ \A c \in Employments!ContractIds : c # id /\ c # base => contracts'[c] = contracts[c]
  <2>1. base # None => base \in Employments!ContractIds
    BY <1>4 DEF Employments!Made
  <2> QED BY <1>2, <1>10, <2>1
<1>12. /\ salary \notin Employments!Assigned /\ salaries'[salary] = paid
       /\ \A r \in Employments!SalaryIds \ {salary} :
            salaries'[r] = IF ends /\ r = previous THEN ended ELSE salaries[r]
  <2>1. salary \notin Employments!Assigned
    BY <1>1 DEF Employments!Assigned
  <2>2. salaries'[salary] = paid
    <3>1. ~(ends /\ salary = previous)
      BY <1>9, <2>1
    <3> QED BY <1>2, <3>1
  <2>3. ASSUME NEW r \in Employments!SalaryIds \ {salary}
        PROVE  salaries'[r] = IF ends /\ r = previous THEN ended ELSE salaries[r]
    <3>1. CASE ends /\ r = previous
      BY <1>2, <2>3, <3>1
    <3>2. CASE ~(ends /\ r = previous)
      BY <1>2, <2>3, <3>2
    <3> QED BY <3>1, <3>2
  <2> QED BY <2>1, <2>2, <2>3
<1>13. /\ Employments!Made' = Employments!Made \cup {id}
       /\ Employments!Assigned' = Employments!Assigned \cup {salary}
  <2>1. base # None => base \in Employments!ContractIds /\ contracts[base] # None
    BY <1>4 DEF Employments!Made
  <2>2. \A c \in Employments!ContractIds :
          contracts'[c] # None <=> c = id \/ contracts[c] # None
    <3>1. ASSUME NEW c \in Employments!ContractIds, c = base
          PROVE  contracts'[c] # None /\ contracts[c] # None
      BY <1>7, <1>11, <2>1, <3>1, ContractsAre
    <3> QED BY <1>5, <1>11, <3>1
  <2>3. ends => salaries[previous] # None
    BY <1>9 DEF Employments!Assigned
  <2>4. \A r \in Employments!SalaryIds :
          salaries'[r] # None <=> r = salary \/ salaries[r] # None
    BY <1>8, <1>9, <1>12, <2>3
  <2> QED BY <2>2, <2>4 DEF Employments!Made, Employments!Assigned
<1>14. Employments!TypeOK'
  <2>1. contracts' \in [Employments!ContractIds -> Employments!ContractRows \cup {None}]
    <3>1. \A c \in Employments!ContractIds : contracts'[c] \in Employments!ContractRows \cup {None}
      BY <1>5, <1>7, <1>11, ContractTypes, ContractsAre
    <3> QED BY <1>2, <3>1
  <2>2. salaries' \in [Employments!SalaryIds -> Employments!SalaryRows \cup {None}]
    <3>1. \A r \in Employments!SalaryIds : salaries'[r] \in Employments!SalaryRows \cup {None}
      BY <1>8, <1>9, <1>12, ContractTypes
    <3> QED BY <1>2, <3>1
  <2>3. firstCut' \in [Employments!ContractIds -> Employments!Dates]
    <3>1. ASSUME NEW c \in Employments!ContractIds
          PROVE  firstCut'[c] \in Employments!Dates
      <4>1. c = base => base # None
        BY ContractsAre
      <4>2. firstCut[c] \in Employments!Dates
        BY ContractTypes
      <4>3. c = base => Employments!Earlier(firstCut[c], start - 1) \in Employments!Days
        BY <1>6, <4>1, <4>2, EarlierDay
      <4> QED BY <1>2, <4>2, <4>3 DEF Employments!Dates
    <3> QED BY <1>2, <3>1
  <2>4. changePc' \in [Callers -> Employments!PCs] /\ change' \in [Callers -> Employments!Changes]
    BY <1>1, NoChangeType, ContractTypes
  <2> QED BY <1>1, <2>1, <2>2, <2>3, <2>4, ContractTypes DEF Employments!TypeOK
<1>15. \A c \in Employments!Made : contracts'[c].start = contracts[c].start
  <2>1. ASSUME NEW c \in Employments!Made
        PROVE  contracts'[c].start = contracts[c].start
    <3>1. c \in Employments!ContractIds /\ c # None /\ c # id
      BY <1>10, ContractRow
    <3> QED BY <1>7, <1>11, <3>1
  <2> QED BY <2>1
<1>16. \A r \in Employments!Assigned :
         /\ salaries'[r].contract = salaries[r].contract
         /\ salaries'[r].from = salaries[r].from
         /\ salaries'[r].to = IF ends /\ r = previous THEN start ELSE salaries[r].to
  <2>1. ASSUME NEW r \in Employments!Assigned
        PROVE  r \in Employments!SalaryIds \ {salary}
    BY <1>12 DEF Employments!Assigned
  <2> QED BY <1>9, <1>12, <2>1
<1>17. ChangesSound'
  <2> SUFFICES ASSUME NEW r \in Callers PROVE ChangeSound(changePc[r], change[r])'
    BY DEF ChangesSound
  <2>1. CASE r = s
    <3>1. changePc'[r] = "idle"
      BY <1>1, <2>1, ContractTypes
    <3> QED BY <3>1 DEF ChangeSound
  <2>2. CASE r # s
    <3>1. changePc'[r] = changePc[r] /\ change'[r] = change[r]
      BY <1>1, <2>2, ContractTypes
    <3>2. ChangeSound(changePc[r], change[r])
      BY DEF ContractInv, ChangesSound
    <3> QED BY <1>13, <1>15, <1>16, <3>1, <3>2 DEF ChangeSound
  <2> QED BY <2>1, <2>2
<1>18. AllPaid'
  <2> SUFFICES ASSUME NEW c \in Employments!Made' \ unpaid
               PROVE  \E r \in Employments!Assigned' : Pays(r, c)'
    BY <1>1 DEF AllPaid
  <2>1. CASE c = id
    <3>1. contracts'[c].start = start
      BY <1>5, <1>11, <2>1
    <3>2. Pays(salary, c)'
      BY <1>3, <1>8, <1>12, <2>1, <3>1 DEF Pays
    <3> QED BY <1>13, <3>2
  <2>2. CASE c # id
    <3>1. c \in Employments!Made /\ contracts'[c].start = contracts[c].start
      BY <1>13, <1>15, <2>2
    <3>2. c \in Employments!ContractIds /\ c # None /\ firstCut[c] \in Employments!Dates
      BY <3>1, ContractRow
    <3>3. PICK r \in Employments!Assigned : Pays(r, c)
      BY <3>1 DEF ContractInv, AllPaid
    <3>4. salaries'[r].contract = c /\ salaries'[r].from <= contracts'[c].start
      BY <1>16, <3>1, <3>3 DEF Pays
    <3>5. salaries'[r].to # None => firstCut'[c] # None /\ salaries'[r].to > firstCut'[c]
      <4>1. CASE c # base
        <5>1. ~(ends /\ r = previous)
          <6>1. salaries[r].contract = c
            BY <3>3 DEF Pays
          <6> QED BY <1>4, <1>9, <3>2, <4>1, <6>1 DEF ends
        <5>2. firstCut'[c] = firstCut[c] /\ salaries'[r].to = salaries[r].to
          BY <1>2, <1>16, <3>2, <4>1, <5>1
        <5> QED BY <3>3, <5>2 DEF Pays
      <4>2. CASE c = base
        <5>1. /\ firstCut'[c] = Employments!Earlier(firstCut[c], start - 1)
              /\ start - 1 \in Employments!Days
          BY <1>2, <1>6, <3>2, <4>2
        <5>2. /\ firstCut'[c] \in Employments!Days /\ firstCut'[c] # None
              /\ firstCut'[c] <= start - 1
              /\ firstCut[c] # None => firstCut'[c] <= firstCut[c]
          BY <3>2, <5>1, EarlierDay
        <5>3. firstCut'[c] \in Int
          BY <5>2, ContractsAre
        <5>4. CASE ends /\ r = previous
          BY <1>3, <1>16, <5>2, <5>3, <5>4
        <5>5. CASE ~(ends /\ r = previous)
          <6>1. salaries'[r].to = salaries[r].to
            BY <1>16, <5>5
          <6>2. salaries[r].to # None => salaries[r].to \in Int
            BY SalaryRow, ContractsAre DEF Employments!Dates
          <6>3. firstCut[c] # None => firstCut[c] \in Int
            BY <3>2, ContractsAre DEF Employments!Dates
          <6>4. salaries[r].to # None => firstCut[c] # None /\ salaries[r].to > firstCut[c]
            BY <3>3 DEF Pays
          <6> QED BY <5>2, <5>3, <6>1, <6>2, <6>3, <6>4
        <5> QED BY <5>4, <5>5
      <4> QED BY <4>1, <4>2
    <3>6. Pays(r, c)'
      BY <3>4, <3>5 DEF Pays
    <3> QED BY <1>13, <3>6
  <2> QED BY <2>1, <2>2
<1> QED BY <1>14, <1>17, <1>18 DEF ContractInv

LEMMA ContractSame ==
  ASSUME ContractInv, UNCHANGED contractVars
  PROVE  ContractInv'
BY DEF contractVars, ContractInv, Employments!TypeOK, ChangesSound, ChangeSound, AllPaid, Pays,
       Employments!Made, Employments!Assigned

LEMMA ContractNextSound ==
  ASSUME ContractInv, Employments!Next
  PROVE  ContractInv'
<1>1. ASSUME NEW s \in Callers, NEW start \in Starts, NEW end \in Employments!EndDates,
             \/ Employments!CreateNewContract(s, start, end)
             \/ \E base \in Employments!ContractIds :
                  Employments!CreateContractAmendment(s, base, start, end)
             \/ Employments!UpdateEmployee(s, start, end)
      PROVE  ContractInv'
  BY <1>1, NewContractSound, AmendmentSound, RaiseSound
<1>2. ASSUME NEW s \in Callers,
             \/ Employments!EndEmployeeContractSegment(s) \/ Employments!AddContract(s)
             \/ Employments!GetActiveSalary(s) \/ Employments!Fail(s)
      PROVE  ContractInv'
  BY <1>2, EndSegmentSound, AddContractSound, ActiveSalarySound, ContractFailSound
<1>3. ASSUME NEW s \in Callers, NEW id \in Employments!ContractIds,
             NEW salary \in Employments!SalaryIds, NEW requested \in BOOLEAN,
             Employments!CreateSalaryForContractSegment(s, id, salary, requested)
      PROVE  ContractInv'
  BY <1>3, CreateSalarySound
<1>4. ASSUME NEW s \in Callers, NEW c \in Employments!ContractIds,
             Employments!UpdateEmployeeContractSalary(s, c)
      PROVE  ContractInv'
  BY <1>4, FillSound
<1>5. ASSUME NEW s \in Callers, NEW salary \in Employments!SalaryIds,
             Employments!CreateEmployeeSalaryAssignment(s, salary)
      PROVE  ContractInv'
  BY <1>5, AssignmentSound
<1>6. ASSUME NEW c \in Employments!ContractIds, NEW start \in Starts,
             NEW end \in Employments!EndDates,
             Employments!UpdateEmployeeContract(c, start, end)
      PROVE  ContractInv'
  BY <1>6, ContractEditSound
<1> QED BY <1>1, <1>2, <1>3, <1>4, <1>5, <1>6 DEF Employments!Next

LEMMA PaidWhileInForce ==
  ASSUME ContractInv
  PROVE  Employments!ContractsPaid
<1> SUFFICES ASSUME NEW c \in Employments!Made \ unpaid, NEW d \in Employments!Days,
                    Employments!InForce(c, d), Employments!Reaches(firstCut[c], d)
             PROVE  \E s \in Employments!Assigned :
                      salaries[s].contract = c /\ Employments!Active(s, d)
  BY DEF Employments!ContractsPaid
<1>1. PICK s \in Employments!Assigned : Pays(s, c)
  BY DEF ContractInv, AllPaid
<1>2. /\ d \in Int /\ contracts[c].start \in Int /\ salaries[s].from \in Int
      /\ firstCut[c] # None => firstCut[c] \in Int
      /\ salaries[s].to # None => salaries[s].to \in Int
  BY ContractRow, SalaryRow, ContractsAre DEF Employments!Dates
<1>3. contracts[c].start <= d
  BY DEF Employments!InForce
<1>4. salaries[s].from <= d
  BY <1>1, <1>2, <1>3 DEF Pays
<1>5. salaries[s].to # None => salaries[s].to > d
  BY <1>1, <1>2 DEF Pays, Employments!Reaches
<1>6. salaries[s].contract = c
  BY <1>1 DEF Pays
<1> QED BY <1>4, <1>5, <1>6 DEF Employments!Active

-----------------------------------------------------------------------------
(* All of them *)

IInv ==
  /\ HandbookInv
  /\ LocationInv
  /\ AuthInv
  /\ LinesInv
  /\ CalendarInv
  /\ NoticeInv
  /\ ContractInv

LEMMA InitSound == Init => IInv
BY HandbookInit, LocationInit, AuthInit, LinesInit, CalendarInit, NoticeInit, ContractInit
   DEF Init, IInv

LEMMA SameSound ==
  ASSUME IInv, UNCHANGED vars
  PROVE  IInv'
<1>1. /\ UNCHANGED handbookVars /\ UNCHANGED locationVars /\ UNCHANGED authVars
      /\ UNCHANGED lineVars /\ UNCHANGED calendarVars /\ UNCHANGED noticeVars
      /\ UNCHANGED contractVars
  BY DEF vars
<1> QED
  BY <1>1, HandbookSame, LocationSame, AuthSame, LinesSame, CalendarSame, NoticeSame,
     ContractSame
  DEF IInv

LEMMA NextSound == IInv /\ [Next]_vars => IInv'
<1> SUFFICES ASSUME IInv, [Next]_vars PROVE IInv'
  OBVIOUS
<1>1. CASE HandbookNext
  <2>1. /\ Handbooks!Next /\ UNCHANGED locationVars /\ UNCHANGED authVars
        /\ UNCHANGED lineVars /\ UNCHANGED calendarVars /\ UNCHANGED noticeVars
        /\ UNCHANGED contractVars
    BY <1>1 DEF HandbookNext
  <2> QED
    BY <2>1, HandbookNextSound, LocationSame, AuthSame, LinesSame, CalendarSame, NoticeSame,
       ContractSame
    DEF IInv
<1>2. CASE LocationNext
  <2>1. /\ UNCHANGED handbookVars /\ Locations!Next /\ UNCHANGED authVars
        /\ UNCHANGED lineVars /\ UNCHANGED calendarVars /\ UNCHANGED noticeVars
        /\ UNCHANGED contractVars
    BY <1>2 DEF LocationNext
  <2> QED
    BY <2>1, HandbookSame, LocationNextSound, AuthSame, LinesSame, CalendarSame, NoticeSame,
       ContractSame
    DEF IInv
<1>3. CASE AuthNext
  <2>1. /\ UNCHANGED handbookVars /\ UNCHANGED locationVars /\ Auth!Next
        /\ UNCHANGED lineVars /\ UNCHANGED calendarVars /\ UNCHANGED noticeVars
        /\ UNCHANGED contractVars
    BY <1>3 DEF AuthNext
  <2> QED
    BY <2>1, HandbookSame, LocationSame, AuthNextSound, LinesSame, CalendarSame, NoticeSame,
       ContractSame
    DEF IInv
<1>4. CASE LinesNext
  <2>1. /\ UNCHANGED handbookVars /\ UNCHANGED locationVars /\ UNCHANGED authVars
        /\ Lines!Next /\ UNCHANGED calendarVars /\ UNCHANGED noticeVars
        /\ UNCHANGED contractVars
    BY <1>4 DEF LinesNext
  <2> QED
    BY <2>1, HandbookSame, LocationSame, AuthSame, LinesNextSound, CalendarSame, NoticeSame,
       ContractSame
    DEF IInv
<1>5. CASE CalendarNext
  <2>1. /\ UNCHANGED handbookVars /\ UNCHANGED locationVars /\ UNCHANGED authVars
        /\ UNCHANGED lineVars /\ Calendar!Next /\ UNCHANGED noticeVars
        /\ UNCHANGED contractVars
    BY <1>5 DEF CalendarNext
  <2> QED
    BY <2>1, HandbookSame, LocationSame, AuthSame, LinesSame, CalendarNextSound, NoticeSame,
       ContractSame
    DEF IInv
<1>6. CASE NotificationNext
  <2>1. /\ UNCHANGED handbookVars /\ UNCHANGED locationVars /\ UNCHANGED authVars
        /\ UNCHANGED lineVars /\ UNCHANGED calendarVars /\ Notices!Next
        /\ UNCHANGED contractVars
    BY <1>6 DEF NotificationNext
  <2> QED
    BY <2>1, HandbookSame, LocationSame, AuthSame, LinesSame, CalendarSame, NoticeNextSound,
       ContractSame
    DEF IInv
<1>7. CASE ContractNext
  <2>1. /\ UNCHANGED handbookVars /\ UNCHANGED locationVars /\ UNCHANGED authVars
        /\ UNCHANGED lineVars /\ UNCHANGED calendarVars /\ UNCHANGED noticeVars
        /\ Employments!Next
    BY <1>7 DEF ContractNext
  <2> QED
    BY <2>1, HandbookSame, LocationSame, AuthSame, LinesSame, CalendarSame, NoticeSame,
       ContractNextSound
    DEF IInv
<1>8. CASE UNCHANGED vars
  BY <1>8, SameSound
<1> QED BY <1>1, <1>2, <1>3, <1>4, <1>5, <1>6, <1>7, <1>8 DEF Next

LEMMA Inductive == Spec => []IInv
BY InitSound, NextSound, PTL DEF Spec

\* Every component keeps its type, whatever the others do: what a request holds
\* in hand between its statements is of its type too.
THEOREM TypeCorrect == Spec => []ServicesTypeOK
<1>1. IInv => ServicesTypeOK
  BY CalendarPartitioned, LinesCovered
  DEF IInv, HandbookInv, LocationInv, AuthInv, NoticeInv, ContractInv, ServicesTypeOK
<1> QED BY <1>1, Inductive, PTL

\* A completed handbook has every required step done, whatever calls ran at once
\* (CompleteMyHandbookStep counts what remains in its transaction and finishes it
\* at the end), unless its template was still being edited.
THEOREM CompletedHandbooksDone == Spec => []CompletedMeansDone
<1>1. IInv => CompletedMeansDone
  BY DEF IInv, HandbookInv, CompletedMeansDone
<1> QED BY <1>1, Inductive, PTL

\* A handbook whose required steps are all done is not open any more: the call
\* of the last step saw that it was the last, when no other call held the
\* handbook (CompleteMyHandbookStep, StartMyHandbook).
THEOREM DoneHandbooksFinished == Spec => []AllDoneMeansFinished
<1>1. IInv => AllDoneMeansFinished
  BY DEF IInv, HandbookInv, AllDoneMeansFinished
<1> QED BY <1>1, Inductive, PTL

\* A waived or completed handbook keeps its status, when no two calls held it at
\* once: the updates by id have no condition on the status, but the call read an
\* active handbook.
THEOREM FinishedHandbooksStay == Spec => FinishedStaysFinished
<1> DEFINE Stays == \A h \in Handbooks!Assigned :
                      handbooks[h].status \in {"completed", "waived"} /\ ~handbooks[h].raced
                        => handbooks'[h].status = handbooks[h].status
<1>1. IInv /\ [Next]_vars => [Stays]_(Handbooks!vars)
  <2> SUFFICES ASSUME IInv, [Next]_vars PROVE [Stays]_(Handbooks!vars)
    OBVIOUS
  <2>1. CASE Handbooks!Next
    BY <2>1, FinishedStays DEF IInv
  <2>2. CASE UNCHANGED handbookVars
    BY <2>2 DEF handbookVars, Handbooks!vars
  <2> QED
    BY <2>1, <2>2 DEF Next, vars, HandbookNext, LocationNext, AuthNext, LinesNext,
       CalendarNext, NotificationNext, ContractNext
<1> QED
  BY <1>1, Inductive, PTL DEF Spec, FinishedStaysFinished, Handbooks!FinishedStaysFinished

\* A counter of failed attempts passes the limit by less than the number of
\* requests served at once: those that were let through before it was reached.
\* The check comes before the password, the count after (auth_service.go:952,
\* 977).
THEOREM FailuresStop == Spec => []FailuresBounded
<1>1. IInv => FailuresBounded
  BY AheadBounds DEF IInv, FailuresBounded
<1> QED BY <1>1, Inductive, PTL

\* The lines of a shift follow on one another, each with one rate and one day,
\* and cover it but for what the loop of buildPayrollPreviewLineItems loses.
THEOREM ShiftsCovered == Spec => []LinesCoverShift
<1>1. IInv => LinesCoverShift
  BY LinesCovered DEF IInv, LinesCoverShift
<1> QED BY <1>1, Inductive, PTL

\* The pay periods of a year partition it (payrollPeriodOptionsForYear).
THEOREM YearsPartitioned == Spec => []PeriodsPartitionYear
<1>1. IInv => PeriodsPartitionYear
  BY CalendarPartitioned DEF IInv, PeriodsPartitionYear
<1> QED BY <1>1, Inductive, PTL

\* A ticket opens one connection, while its access token is valid, and what that
\* connection is shown is stored and addressed to the token's user, however
\* workers, ticks and crashes interleave.
THEOREM PushesAddressed == Spec => []PushesReachTheirUser
<1>1. IInv => PushesReachTheirUser
  BY DEF IInv, NoticeInv, PushesReachTheirUser
<1> QED BY <1>1, Inductive, PTL

\* A contract that had a salary of its own from the start has one on every day
\* it is in force, up to where it was first cut off, whatever changes, raises and
\* edits run at once (employee_service.go:739, 815).
THEOREM ContractsKeepTheirSalary == Spec => []ContractsPaid
<1>1. IInv => ContractsPaid
  BY PaidWhileInForce DEF IInv, ContractsPaid
<1> QED BY <1>1, Inductive, PTL
=============================================================================
