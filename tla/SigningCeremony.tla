-------------------------- MODULE SigningCeremony --------------------------
(***************************************************************************)
(* What signing a document promises: recipients sign one at a time, in the *)
(* order they were given, only while the document is open; a document that *)
(* is completed carries everybody's signature; a completed or cancelled    *)
(* document is closed for good.                                            *)
(***************************************************************************)
EXTENDS Naturals

CONSTANT Employees

VARIABLES
  status,  \* none, draft, open, completed or cancelled
  order,   \* the signing order of each recipient, 0 for anybody else
  signed   \* the recipients who have signed

Recipients == {e \in Employees : order[e] > 0}

Init ==
  /\ status = "none"
  /\ order = [e \in Employees |-> 0]
  /\ signed = {}

Create ==
  /\ status = "none"
  /\ status' = "draft"
  /\ order' \in [Employees -> Nat]
  /\ UNCHANGED signed

Send == status = "draft" /\ status' = "open" /\ UNCHANGED <<order, signed>>

Sign(e) ==
  /\ status = "open"
  /\ e \in Recipients \ signed
  /\ \A r \in Recipients : order[r] < order[e] => r \in signed
  /\ signed' = signed \cup {e}
  /\ status' \in {"open", "completed"}
  /\ status' = "completed" => signed' = Recipients
  /\ UNCHANGED order

Cancel ==
  /\ status \in {"draft", "open"}
  /\ status' = "cancelled"
  /\ UNCHANGED <<order, signed>>

Next == Create \/ Send \/ Cancel \/ \E e \in Employees : Sign(e)

Spec == Init /\ [][Next]_<<status, order, signed>>
=============================================================================
