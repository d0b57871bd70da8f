------------------------------ MODULE MCServices ------------------------------
(***************************************************************************)
(* A small instance of Services.  The components share nothing, so the     *)
(* runs exercise one at a time: "component" says which, and the others     *)
(* stay where they start.                                                  *)
(***************************************************************************)
EXTENDS Services, TLC

CONSTANTS t1, t2, x1, x2

VARIABLE component

\* One draft with two steps or with one.
Drafts == {[template |-> t1, steps |-> {x1, x2}], [template |-> t1, steps |-> {x1}]}

\* An hour of one minute, a minute of two seconds; work dates around a weekend.
Shifts ==
  [weekday : {0, 5, 6}, holidays : {{}, {1}}, profile : {"none", "roster", "non_roster"},
   contract : {"permanent", "on_call"}, from : {5, 18, 23}, fromSecond : {0, 1},
   to : {7, 20, 23, 24, 29, 47}, toSecond : {0, 1}]
WorkItems == {i \in Shifts : i.from < i.to \/ (i.from = i.to /\ i.fromSecond < i.toSecond)}

Century == 1999..2040

-----------------------------------------------------------------------------

\* The components that stay where they are start in one state only.  The first
\* contract and the first salary begin on the first day and have no end.
MCInit ==
  /\ component \in {"handbooks", "locations", "auth", "lines", "calendar", "notifications",
                    "contracts"}
  /\ item \in IF component = "lines" THEN Items ELSE {CHOOSE i \in Items : TRUE}
  /\ year \in IF component = "calendar" THEN Years ELSE {CHOOSE y \in Years : TRUE}
  /\ Init
  /\ component # "handbooks" => templates[t1].status = "draft" /\ steps[x2].template = t1
  /\ IF component = "contracts"
     THEN /\ contracts[1] # None => contracts[1].start = 1 /\ contracts[1].end = None
          /\ salaries[1] # None => salaries[1].from = 1 /\ salaries[1].to = None
     ELSE /\ salaries[1] = None
          /\ contracts[1] = [start |-> 1, end |-> None, cut |-> None]

MCNext ==
  /\ \/ component = "handbooks" /\ HandbookNext
     \/ component = "locations" /\ LocationNext
     \/ component = "auth" /\ AuthNext
     \/ component = "lines" /\ LinesNext
     \/ component = "calendar" /\ CalendarNext
     \/ component = "notifications" /\ NotificationNext
     \/ component = "contracts" /\ ContractNext
  /\ UNCHANGED component

MCSpec == MCInit /\ [][MCNext]_<<vars, component>> /\ Locations!Fairness
=============================================================================
