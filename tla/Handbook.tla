------------------------------ MODULE Handbook ------------------------------
(***************************************************************************)
(* Onboarding handbooks (internal/service/handbook_service.go): the        *)
(* templates of one department with their steps, the handbooks assigned to *)
(* employees, and the progress of every step.                              *)
(*                                                                         *)
(* A call first reads on the pool, checks what it read, and then writes in *)
(* a transaction or a statement of its own, so a call is two steps or      *)
(* more.  The assignment history, an audit log that no handler reads, the  *)
(* order and the content of the steps are left out.                        *)
(***************************************************************************)
EXTENDS Integers, FiniteSets

CONSTANTS
  Sessions,
  Editors,         \* bound: the sessions that edit templates
  Employees,
  Templates,       \* bound: versions of the department's template
  Steps,           \* bound: rows of handbook_steps
  HandbookIds,     \* bound: handbooks ever assigned
  InitialDrafts,   \* the drafts there may be to begin with, and their steps
  None             \* no value

VARIABLES
  templates,   \* status of every version, and whether steps changed later
  steps,       \* handbook_steps: the template and whether it is required
  handbooks,   \* employee_handbooks
  progress,    \* the steps each handbook has, and those that are completed
  pc,          \* what each session's call does next
  call         \* what the call has in hand

vars == <<templates, steps, handbooks, progress, pc, call>>

\* edited and raced are history: a step of the template was added, changed or
\* removed when it was no draft any more; two calls held the handbook at once.
TemplateRows == [status : {"none", "draft", "published", "archived"}, edited : BOOLEAN]
StepRows == [template : Templates \cup {None}, required : BOOLEAN]
HandbookRows == [employee : Employees, template : Templates,
                 status : {"not_started", "in_progress", "completed", "waived"},
                 raced : BOOLEAN]

PCs == {"idle", "starting", "completing", "counting", "finishing", "waiving",
        "assigning", "publishing", "creating", "updating", "deleting"}

Calls == [handbook : HandbookIds \cup {None}, employee : Employees \cup {None},
          step : Steps \cup {None}, template : Templates \cup {None},
          done : BOOLEAN]
NoCall == [handbook |-> None, employee |-> None, step |-> None,
           template |-> None, done |-> FALSE]

HandbookAssumption ==
  /\ Editors \subseteq Sessions
  /\ InitialDrafts \subseteq [template : Templates, steps : SUBSET Steps]
  /\ None \notin Steps /\ None \notin Templates /\ None \notin HandbookIds
  /\ None \notin Employees /\ None \notin HandbookRows

StepsOf(t) == {x \in Steps : steps[x].template = t}

Init ==
  /\ \E d \in InitialDrafts :
       /\ templates = [t \in Templates |->
                         [status |-> IF t = d.template THEN "draft" ELSE "none",
                          edited |-> FALSE]]
       /\ steps = [x \in Steps |->
                     [template |-> IF x \in d.steps THEN d.template ELSE None,
                      required |-> TRUE]]
  /\ handbooks = [h \in HandbookIds |-> None]
  /\ progress = [h \in HandbookIds |-> [has |-> {}, completed |-> {}]]
  /\ pc = [s \in Sessions |-> "idle"]
  /\ call = [s \in Sessions |-> NoCall]

-----------------------------------------------------------------------------
(* Calls *)

Begin(s, to, c) ==
  /\ pc[s] = "idle"
  /\ pc' = [pc EXCEPT ![s] = to]
  /\ call' = [call EXCEPT ![s] = c]

Return(s) ==
  /\ pc' = [pc EXCEPT ![s] = "idle"]
  /\ call' = [call EXCEPT ![s] = NoCall]

\* Any check or statement of a call may fail; its transaction leaves nothing.
Fail(s) ==
  /\ pc[s] # "idle"
  /\ Return(s)
  /\ UNCHANGED <<templates, steps, handbooks, progress>>

Assigned == {h \in HandbookIds : handbooks[h] # None}

\* Mutant: any handbook of the employee is taken for the active one.
IsAssigned(h) == h \in Assigned

IsActive(h) ==
  /\ h \in Assigned
  /\ handbooks[h].status \in {"not_started", "in_progress"}

Held(h) == \E s \in Sessions : call[s].handbook = h

Touch(h) == [handbooks EXCEPT ![h].raced = @ \/ Held(h)]

-----------------------------------------------------------------------------
(* The employee's calls: GetActiveEmployeeHandbookByEmployeeID comes first *)

StartMyHandbook(s, h) ==
  /\ IsActive(h)
  /\ Begin(s, "starting", [NoCall EXCEPT !.handbook = h])
  /\ handbooks' = Touch(h)
  /\ UNCHANGED <<templates, steps, progress>>

\* MarkEmployeeHandbookStarted does not ask what the handbook is by now; only
\* the unique index on active handbooks does.
MarkEmployeeHandbookStarted(s) ==
  LET h == call[s].handbook IN
  /\ pc[s] = "starting"
  /\ \A g \in HandbookIds \ {h} :
       IsActive(g) => handbooks[g].employee # handbooks[h].employee
  /\ handbooks' = [handbooks EXCEPT ![h].status = "in_progress"]
  /\ Return(s)
  /\ UNCHANGED <<templates, steps, progress>>

CompleteMyHandbookStep(s, h, x) ==
  /\ IsActive(h)
  /\ Begin(s, "completing", [NoCall EXCEPT !.handbook = h, !.step = x])
  /\ handbooks' = Touch(h)
  /\ UNCHANGED <<templates, steps, progress>>

\* The update holds the step's progress row until the transaction ends.
CompleteEmployeeHandbookStep(s) ==
  LET h == call[s].handbook
      x == call[s].step IN
  /\ pc[s] = "completing"
  /\ x \in progress[h].has
  /\ \A r \in Sessions \ {s} :
       pc[r] \in {"counting", "finishing"} => call[r].handbook # h \/ call[r].step # x
  /\ pc' = [pc EXCEPT ![s] = "counting"]
  /\ UNCHANGED <<templates, steps, handbooks, progress, call>>

Required(h) == {x \in progress[h].has : steps[x].required}

\* Mutant: the step that is being completed still counts.
RemainingBefore(s) == Required(call[s].handbook) \ progress[call[s].handbook].completed

\* What is committed, and the call's own step.
Remaining(s) ==
  Required(call[s].handbook) \ (progress[call[s].handbook].completed \cup {call[s].step})

CountRemainingRequiredHandbookSteps(s) ==
  /\ pc[s] = "counting"
  /\ pc' = [pc EXCEPT ![s] = "finishing"]
  /\ call' = [call EXCEPT ![s].done = Remaining(s) = {}]
  /\ UNCHANGED <<templates, steps, handbooks, progress>>

\* Mutant: a step completes the handbook whatever remains.
FinishAnyway(s) ==
  LET h == call[s].handbook IN
  /\ pc[s] = "finishing"
  /\ progress' = [progress EXCEPT ![h].completed = @ \cup {call[s].step}]
  /\ handbooks' = [handbooks EXCEPT ![h].status = "completed"]
  /\ Return(s)
  /\ UNCHANGED <<templates, steps>>

\* MarkEmployeeHandbookCompleted, when nothing remained, and the commit.
FinishStep(s) ==
  LET h == call[s].handbook IN
  /\ pc[s] = "finishing"
  /\ progress' = [progress EXCEPT ![h].completed = @ \cup {call[s].step}]
  /\ handbooks' = [handbooks EXCEPT ![h].status =
                     IF call[s].done THEN "completed" ELSE @]
  /\ Return(s)
  /\ UNCHANGED <<templates, steps>>

-----------------------------------------------------------------------------
(* The administrator's calls on handbooks *)

WaiveEmployeeHandbook(s, h) ==
  /\ IsActive(h)
  /\ Begin(s, "waiving", [NoCall EXCEPT !.handbook = h])
  /\ handbooks' = Touch(h)
  /\ UNCHANGED <<templates, steps, progress>>

\* This update does ask for an active handbook; without one the call fails.
WaiveEmployeeHandbookByID(s) ==
  /\ pc[s] = "waiving"
  /\ IsActive(call[s].handbook)
  /\ handbooks' = [handbooks EXCEPT ![call[s].handbook].status = "waived"]
  /\ Return(s)
  /\ UNCHANGED <<templates, steps, progress>>

AssignTemplateToEmployee(s, e, t) ==
  /\ templates[t].status = "published"
  /\ Begin(s, "assigning", [NoCall EXCEPT !.employee = e, !.template = t])
  /\ UNCHANGED <<templates, steps, handbooks, progress>>

\* The active handbook is waived and a new one made from the template as it
\* is now.
CreateEmployeeHandbookFromTemplate(s, h) ==
  LET e == call[s].employee
      t == call[s].template IN
  /\ pc[s] = "assigning"
  /\ h \notin Assigned
  /\ handbooks' = [g \in HandbookIds |->
       IF g = h THEN [employee |-> e, template |-> t, status |-> "not_started",
                      raced |-> FALSE]
       ELSE IF IsActive(g) /\ handbooks[g].employee = e
       THEN [handbooks[g] EXCEPT !.status = "waived", !.raced = @ \/ Held(g)]
       ELSE handbooks[g]]
  /\ progress' = [progress EXCEPT ![h] = [has |-> StepsOf(t), completed |-> {}]]
  /\ Return(s)
  /\ UNCHANGED <<templates, steps>>

-----------------------------------------------------------------------------
(* Templates: each call on one reads that it is a draft, then writes *)

OneDraft == \A t \in Templates : templates[t].status # "draft"

CreateTemplateForDepartment(t) ==
  /\ OneDraft
  /\ templates[t].status = "none"
  /\ templates' = [templates EXCEPT ![t].status = "draft"]
  /\ UNCHANGED <<steps, handbooks, progress, pc, call>>

\* The clone has a step for every step of its source.
CloneTemplateToDraft(source, t, copies) ==
  /\ OneDraft
  /\ templates[source].status # "none" /\ templates[t].status = "none"
  /\ copies \subseteq StepsOf(None)
  /\ \E copyOf \in [copies -> StepsOf(source)] :
       /\ {copyOf[x] : x \in copies} = StepsOf(source)
       /\ Cardinality(copies) = Cardinality(StepsOf(source))
       /\ steps' = [x \in Steps |-> IF x \in copies
                      THEN [template |-> t, required |-> steps[copyOf[x]].required]
                      ELSE steps[x]]
  /\ templates' = [templates EXCEPT ![t].status = "draft"]
  /\ UNCHANGED <<handbooks, progress, pc, call>>

PublishTemplate(s, t) ==
  /\ templates[t].status = "draft"
  /\ StepsOf(t) # {}
  /\ Begin(s, "publishing", [NoCall EXCEPT !.template = t])
  /\ UNCHANGED <<templates, steps, handbooks, progress>>

\* One statement archives the published version and publishes the draft.  The
\* database may write them in the wrong order for the unique index on published
\* versions, and then refuses (Fail).
PublishHandbookTemplate(s) ==
  LET t == call[s].template IN
  /\ pc[s] = "publishing"
  /\ templates[t].status = "draft"
  /\ templates' = [u \in Templates |->
       IF u = t THEN [templates[u] EXCEPT !.status = "published"]
       ELSE IF templates[u].status = "published"
       THEN [templates[u] EXCEPT !.status = "archived"]
       ELSE templates[u]]
  /\ Return(s)
  /\ UNCHANGED <<steps, handbooks, progress>>

BeginEdit(s, t, to, x) ==
  /\ templates[t].status = "draft"
  /\ Begin(s, to, [NoCall EXCEPT !.template = t, !.step = x])
  /\ UNCHANGED <<templates, steps, handbooks, progress>>

CreateStep(s, t, x) == steps[x].template = None /\ BeginEdit(s, t, "creating", x)
UpdateStep(s, x) ==
  \E t \in Templates : x \in StepsOf(t) /\ BeginEdit(s, t, "updating", x)
DeleteStep(s, x) ==
  \E t \in Templates : x \in StepsOf(t) /\ BeginEdit(s, t, "deleting", x)

\* The write of an edit, which looks at the template no more.
Edit(s, row) ==
  LET t == call[s].template IN
  /\ steps' = [steps EXCEPT ![call[s].step] = row]
  /\ templates' = [templates EXCEPT ![t].edited = @ \/ templates[t].status # "draft"]
  /\ Return(s)
  /\ UNCHANGED <<handbooks, progress>>

CreateHandbookStep(s, required) ==
  /\ pc[s] = "creating"
  /\ steps[call[s].step].template = None
  /\ Edit(s, [template |-> call[s].template, required |-> required])

UpdateHandbookStepByID(s, required) ==
  /\ pc[s] = "updating"
  /\ steps[call[s].step].template = call[s].template
  /\ Edit(s, [steps[call[s].step] EXCEPT !.required = required])

\* Progress keeps its step: the foreign key refuses.
DeleteHandbookStepByID(s) ==
  /\ pc[s] = "deleting"
  /\ \A h \in HandbookIds : call[s].step \notin progress[h].has
  /\ Edit(s, [template |-> None, required |-> TRUE])

-----------------------------------------------------------------------------

EmployeeCalls(s) ==
  \/ \E h \in HandbookIds : \/ StartMyHandbook(s, h)
                            \/ \E x \in Steps : CompleteMyHandbookStep(s, h, x)
  \/ MarkEmployeeHandbookStarted(s)
  \/ CompleteEmployeeHandbookStep(s)
  \/ CountRemainingRequiredHandbookSteps(s)
  \/ FinishStep(s)

AdminCalls(s) ==
  \/ \E h \in HandbookIds : \/ WaiveEmployeeHandbook(s, h)
                            \/ CreateEmployeeHandbookFromTemplate(s, h)
  \/ WaiveEmployeeHandbookByID(s)
  \/ \E e \in Employees, t \in Templates : AssignTemplateToEmployee(s, e, t)

TemplateCalls(s) ==
  \/ \E t \in Templates : PublishTemplate(s, t)
  \/ PublishHandbookTemplate(s)
  \/ \E x \in Steps : \/ \E t \in Templates : CreateStep(s, t, x)
                      \/ UpdateStep(s, x)
                      \/ DeleteStep(s, x)
  \/ \E required \in BOOLEAN : \/ CreateHandbookStep(s, required)
                               \/ UpdateHandbookStepByID(s, required)
  \/ DeleteHandbookStepByID(s)

Next ==
  \/ \E s \in Sessions : EmployeeCalls(s) \/ AdminCalls(s) \/ Fail(s)
  \/ \E s \in Editors : TemplateCalls(s)
  \/ \E t \in Templates : CreateTemplateForDepartment(t)
  \/ \E source, t \in Templates, copies \in SUBSET Steps :
       CloneTemplateToDraft(source, t, copies)

Spec == Init /\ [][Next]_vars

-----------------------------------------------------------------------------
(* Properties *)

\* Every variable keeps its type.
TypeOK ==
  /\ templates \in [Templates -> TemplateRows]
  /\ steps \in [Steps -> StepRows]
  /\ handbooks \in [HandbookIds -> HandbookRows \cup {None}]
  /\ progress \in [HandbookIds -> [has : SUBSET Steps, completed : SUBSET Steps]]
  /\ pc \in [Sessions -> PCs]
  /\ call \in [Sessions -> Calls]

\* A completed handbook has every required step done, whatever calls ran at
\* once, unless its template was edited by a call that began before it was
\* published (CompleteMyHandbookStep counts inside its transaction).
CompletedMeansDone ==
  \A h \in Assigned :
    handbooks[h].status = "completed" /\ ~templates[handbooks[h].template].edited
      => Required(h) \subseteq progress[h].completed

\* A handbook whose required steps are all done is not open any more, unless
\* two calls held it at once: two last steps each count the other as remaining
\* (handbook_service.go:141), and a late start reopens it (:69).
AllDoneMeansFinished ==
  \A h \in Assigned :
    /\ Required(h) # {} /\ Required(h) \subseteq progress[h].completed
    /\ ~handbooks[h].raced /\ ~templates[handbooks[h].template].edited
    => handbooks[h].status \in {"completed", "waived"}

\* A waived or completed handbook stays what it is; only calls that held it at
\* once can change it (its updates by id have no condition on the status).
FinishedStaysFinished ==
  [][\A h \in Assigned :
       handbooks[h].status \in {"completed", "waived"} /\ ~handbooks[h].raced
         => handbooks'[h].status = handbooks[h].status]_vars
=============================================================================
