-------------------------- MODULE MCSignDocument --------------------------
(***************************************************************************)
(* Small instances of SignDocument.                                        *)
(***************************************************************************)
EXTENDS SignDocument, TLC

CONSTANTS e1, e2, s1, s2

TwoSessions == {s1, s2}
SessionSymmetry == Permutations(TwoSessions)

\* Two recipients in any order (0 is normalised to 1), or one alone.
OrderedLists == {e1 :> 1 @@ e2 :> 2, e1 :> 1 @@ e2 :> 0, e1 :> 1}

\* Two recipients who may sign at the same time.
ParallelList == {e1 :> 1 @@ e2 :> 1}

\* One recipient.
SingleList == {e1 :> 1}

Field(e, signature, required) ==
  [recipient |-> e, signature |-> signature, required |-> required]

\* A text for one recipient, or a signature of each.
TextOrSignatures ==
  {{Field(e1, FALSE, TRUE)}, {Field(e1, TRUE, TRUE), Field(e2, TRUE, FALSE)}}

OneField == {{Field(e1, TRUE, TRUE)}}
=============================================================================
