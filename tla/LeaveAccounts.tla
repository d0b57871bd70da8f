--------------------------- MODULE LeaveAccounts ---------------------------
(***************************************************************************)
(* What the leave ledger promises: every employee and year is an account   *)
(* with a cap that time only raises, and every approval charges one        *)
(* account, at once, within its cap.  Only accounts that were changed      *)
(* behind the balance check, or charged more than an integer holds, may    *)
(* exceed it (waived).                                                     *)
(***************************************************************************)
EXTENDS Integers

CONSTANTS Accounts, MaxInt

VARIABLES spent, cap, waived

Init ==
  /\ spent = [a \in Accounts |-> 0]
  /\ cap \in [Accounts -> Nat]
  /\ waived = {}

Approve(a) ==
  /\ spent'[a] > spent[a]
  /\ spent'[a] =< cap[a] \/ a \in waived
  /\ \A b \in Accounts \ {a} : spent'[b] = spent[b]
  /\ UNCHANGED <<cap, waived>>

\* An approved payout is rewritten in place: it may leave one account and
\* burden another, which is waived if that costs it more than before.
Rewrite(a) ==
  /\ \A b \in Accounts \ {a} : spent'[b] =< spent[b]
  /\ spent'[a] > spent[a] => a \in waived'
  /\ waived' \in {waived, waived \cup {a}}
  /\ UNCHANGED cap

\* The one approval that no cap stops: it costs more than an integer holds, and
\* leaves an account whose sum is out of range.
Overflow(a) ==
  /\ spent'[a] > spent[a] + MaxInt
  /\ waived' = waived \cup {a}
  /\ \A b \in Accounts \ {a} : spent'[b] = spent[b]
  /\ UNCHANGED cap

\* Days pass and contracts are revised.
Entitle ==
  /\ \A a \in Accounts : cap'[a] < cap[a] => a \in waived'
  /\ waived \subseteq waived'
  /\ UNCHANGED spent

Next == Entitle \/ \E a \in Accounts : Approve(a) \/ Overflow(a) \/ Rewrite(a)

Spec == Init /\ [][Next]_<<spent, cap, waived>>
=============================================================================
