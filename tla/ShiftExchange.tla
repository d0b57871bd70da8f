--------------------------- MODULE ShiftExchange ---------------------------
(***************************************************************************)
(* What a shift swap promises: two employees trade two shifts they hold at *)
(* that moment, both shifts in one step, and only after the recipient has  *)
(* agreed or because an administrator imposes the trade.  A deal that was  *)
(* carried out, refused or has lapsed is never carried out again.          *)
(***************************************************************************)
CONSTANTS Employees, Shifts, Deals, Terms, Nobody

VARIABLES
  holder,  \* who works each shift, Nobody when it is not on the rota
  deal,    \* none, proposed, agreed, done or closed
  terms    \* the two employees and the two shifts of each deal

TypeOK ==
  /\ holder \in [Shifts -> Employees \cup {Nobody}]
  /\ deal \in [Deals -> {"none", "proposed", "agreed", "done", "closed"}]
  /\ terms \in [Deals -> Terms \cup {Nobody}]

Init ==
  /\ holder \in [Shifts -> Employees \cup {Nobody}]
  /\ deal = [d \in Deals |-> "none"]
  /\ terms = [d \in Deals |-> Nobody]

Open(d) == deal[d] \in {"proposed", "agreed"}

Concerns(d, shift) ==
  /\ deal[d] \notin {"none", "closed"}
  /\ shift \in {terms[d].requesterSchedule, terms[d].recipientSchedule}

Propose(d, t) ==
  /\ deal[d] = "none"
  /\ deal' = [deal EXCEPT ![d] = "proposed"]
  /\ terms' = [terms EXCEPT ![d] = t]
  /\ UNCHANGED holder

Agree(d) ==
  /\ deal[d] = "proposed"
  /\ deal' = [deal EXCEPT ![d] = "agreed"]
  /\ UNCHANGED <<holder, terms>>

\* Refused by either side, or lapsed.
Close(D) ==
  /\ \A d \in D : Open(d)
  /\ deal' = [d \in Deals |-> IF d \in D THEN "closed" ELSE deal[d]]
  /\ UNCHANGED <<holder, terms>>

\* Both shifts change hands at once, between the people who hold them.
Trade(t) ==
  /\ holder[t.requesterSchedule] = t.requester
  /\ holder[t.recipientSchedule] = t.recipient
  /\ holder' = [holder EXCEPT ![t.requesterSchedule] = t.recipient,
                              ![t.recipientSchedule] = t.requester]

Execute(d) ==
  /\ deal[d] = "agreed"
  /\ deal' = [deal EXCEPT ![d] = "done"]
  /\ Trade(terms[d])
  /\ UNCHANGED terms

Impose(d, t) ==
  /\ deal[d] = "none"
  /\ deal' = [deal EXCEPT ![d] = "done"]
  /\ terms' = [terms EXCEPT ![d] = t]
  /\ Trade(t)

\* The planner gives one shift to somebody, without a deal.
Assign(shift, e) ==
  /\ holder' = [holder EXCEPT ![shift] = e]
  /\ UNCHANGED <<deal, terms>>

\* A shift leaves the rota and takes its deals with it.
Remove(shift) ==
  /\ holder[shift] # Nobody
  /\ holder' = [holder EXCEPT ![shift] = Nobody]
  /\ deal' = [d \in Deals |-> IF Concerns(d, shift) THEN "closed" ELSE deal[d]]
  /\ UNCHANGED terms

Next ==
  \/ \E d \in Deals : Agree(d) \/ Execute(d)
  \/ \E d \in Deals, t \in Terms : Propose(d, t) \/ Impose(d, t)
  \/ \E D \in SUBSET Deals : Close(D)
  \/ \E shift \in Shifts :
       Remove(shift) \/ \E e \in Employees : Assign(shift, e)

Spec == Init /\ [][Next]_<<holder, deal, terms>>
=============================================================================
