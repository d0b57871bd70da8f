------------------------- MODULE SignDocumentProofs -------------------------
(***************************************************************************)
(* What holds of a document however its recipients' and its creator's      *)
(* calls interleave.                                                       *)
(***************************************************************************)
EXTENDS SignDocument, TLAPS

PriorPassed == TxSteps \cup {"fields", "profile"}
Signing == PriorPassed \cup {"recipient", "prior"}

\* What a call that has come this far knows of the committed rows.
CallOK(c) ==
  /\ c \in Calls \cup {Idle}
  /\ c.pc \in Signing => \E e \in Employees : c.employee = {e}
  /\ c.pc \in Signing \ {"recipient"} => c.employee \subseteq Recipients
  /\ c.pc \in PriorPassed =>
       \A e \in c.employee, r \in Recipients :
         recipients[r].order < recipients[e].order => r \in Signed
  /\ c.pc \in AfterValues => c.values \subseteq Listed
  /\ c.last => Recipients \subseteq Signed \cup c.employee
  /\ c.pc = "partial" => ~c.last
  /\ c.pc = "stamp" => c.file.names \subseteq Recipients
  /\ c.pc \in {"complete", "commit"} /\ c.last =>
       c.file.names \ c.employee \subseteq c.file.signatures
  /\ c.pc = "commit" => doc.status \in OpenStatus
  /\ doc.status = "none" => c = Idle

CallsOK == \A s \in Sessions : CallOK(call[s])

\* The document row is locked by one transaction at a time.
OneCommit ==
  \A s, t \in Sessions : call[s].pc = "commit" /\ call[t].pc = "commit" => s = t

RowsOK ==
  /\ doc.status = "none" => \A e \in Employees : recipients[e] = NoRecipient
  /\ signatures = Signed

IInv == /\ TypeOK /\ CallsOK /\ OneCommit /\ RowsOK
        /\ SigningOrder /\ CompletedBySigners /\ FileMissesAtMostOne

LEMMA IdleFields ==
  /\ Idle.pc = "idle" /\ Idle.last = FALSE /\ Idle.employee = {} /\ Idle.values = {}
BY DEF Idle

LEMMA NoFileType == NoFile \in SignedFile
BY DEF NoFile, SignedFile

LEMMA Steps ==
  /\ TxSteps = {"signature", "values", "mark", "count", "partial", "place", "stamp",
                 "complete", "commit"}
  /\ AfterSignature = {"values", "mark", "count", "partial", "place", "stamp", "complete", "commit"}
  /\ AfterValues = {"mark", "count", "partial", "place", "stamp", "complete", "commit"}
  /\ AfterMark = {"count", "partial", "place", "stamp", "complete", "commit"}
BY DEF TxSteps, AfterSignature, AfterValues, AfterMark

LEMMA CallTypes ==
  ASSUME NEW c, c \in Calls \cup {Idle}, c.pc # "idle"
  PROVE  /\ c \in Calls
         /\ c = [pc |-> c.pc, employee |-> c.employee, specs |-> c.specs,
                 values |-> c.values, last |-> c.last, file |-> c.file]
         /\ c.employee \subseteq Employees /\ c.specs \subseteq FieldSpec
         /\ c.values \subseteq FieldIds /\ c.last \in BOOLEAN
         /\ c.file \in SignedFile
BY IdleFields DEF Calls

LEMMA IdleOK == IInv => CallOK(Idle)
BY IdleFields, Steps DEF CallOK, Signing, PriorPassed

\* A statement that writes nothing yet.
LEMMA StepSound ==
  ASSUME IInv, UNCHANGED tables, NEW s \in Sessions, NEW c, CallOK(c),
         c.pc = "commit" => DocumentFree(s),
         call' = [call EXCEPT ![s] = c]
  PROVE  IInv'
<1>1. UNCHANGED <<doc, recipients, fields, signatures>>
  BY DEF tables
<1>2. \A t \in Sessions : call'[t] = IF t = s THEN c ELSE call[t]
  BY DEF IInv, TypeOK
<1>3. TypeOK'
  BY <1>1 DEF IInv, TypeOK, CallOK
<1>4. Recipients' = Recipients /\ Signed' = Signed /\ Listed' = Listed
  BY <1>1 DEF Recipients, Signed, Listed
<1>5. ASSUME NEW t \in Sessions PROVE CallOK(call[t])'
  <2>1. CallOK(call'[t])
    BY <1>2 DEF IInv, CallsOK
  <2> QED BY <1>1, <1>4, <2>1 DEF CallOK
<1>6. OneCommit'
  BY <1>2 DEF IInv, OneCommit, DocumentFree
<1>7. RowsOK' /\ SigningOrder' /\ CompletedBySigners' /\ FileMissesAtMostOne'
  BY <1>1, <1>4 DEF IInv, RowsOK, SigningOrder, CompletedBySigners, FileMissesAtMostOne
<1> QED BY <1>3, <1>5, <1>6, <1>7 DEF IInv, CallsOK

LEMMA ReturnSound ==
  ASSUME IInv, UNCHANGED tables, NEW s \in Sessions, Return(s)
  PROVE  IInv'
BY StepSound, IdleOK, IdleFields DEF Return

LEMMA StartSound ==
  ASSUME IInv, NEW s \in Sessions,
         \/ \E specs \in FieldForms : SetFields(s, specs)
         \/ SendDocument(s)
         \/ \E e \in Employees, values \in SUBSET FieldIds : Sign(s, e, values)
  PROVE  IInv'
<1>1. ASSUME NEW specs \in FieldForms, SetFields(s, specs) PROVE IInv'
  <2> DEFINE c == [Idle EXCEPT !.pc = "delete", !.specs = specs]
  <2>1. /\ c \in Calls /\ c.pc = "delete" /\ c.last = FALSE
    BY NoFileType, SigningAssumption DEF Calls, Idle
  <2>2. /\ call' = [call EXCEPT ![s] = c] /\ UNCHANGED tables /\ doc.status = "draft"
    BY <1>1 DEF SetFields, Start
  <2> HIDE DEF c
  <2>3. CallOK(c)
    BY <2>1, <2>2, Steps DEF CallOK, Signing, PriorPassed
  <2> QED BY <2>1, <2>2, <2>3, StepSound
<1>2. ASSUME SendDocument(s) PROVE IInv'
  <2> DEFINE c == [Idle EXCEPT !.pc = "listFields"]
  <2>1. /\ c \in Calls /\ c.pc = "listFields" /\ c.last = FALSE
    BY NoFileType DEF Calls, Idle
  <2>2. /\ call' = [call EXCEPT ![s] = c] /\ UNCHANGED tables /\ doc.status = "draft"
    BY <1>2 DEF SendDocument, Start
  <2> HIDE DEF c
  <2>3. CallOK(c)
    BY <2>1, <2>2, Steps DEF CallOK, Signing, PriorPassed
  <2> QED BY <2>1, <2>2, <2>3, StepSound
<1>3. ASSUME NEW e \in Employees, NEW values \in SUBSET FieldIds, Sign(s, e, values)
      PROVE  IInv'
  <2> DEFINE c == [Idle EXCEPT !.pc = "recipient", !.employee = {e}, !.values = values]
  <2>1. /\ c \in Calls /\ c.pc = "recipient" /\ c.last = FALSE /\ c.employee = {e}
    BY NoFileType DEF Calls, Idle
  <2>2. /\ call' = [call EXCEPT ![s] = c] /\ UNCHANGED tables /\ doc.status \in OpenStatus
    BY <1>3 DEF Sign, Start
  <2> HIDE DEF c
  <2>3. CallOK(c)
    BY <2>1, <2>2, Steps DEF CallOK, Signing, PriorPassed, OpenStatus
  <2> QED BY <2>1, <2>2, <2>3, StepSound
<1> QED BY <1>1, <1>2, <1>3

PCs == TxSteps \cup {"delete", "insert", "listFields", "send",
                     "recipient", "prior", "fields", "profile"}

\* A call that goes on to its next statement keeps what it has.
LEMMA Onward ==
  ASSUME TypeOK, NEW s \in Sessions, call[s].pc # "idle", NEW p \in PCs
  PROVE  LET d == [call[s] EXCEPT !.pc = p] IN
         /\ d \in Calls /\ d.pc = p /\ d.employee = call[s].employee
         /\ d.values = call[s].values /\ d.last = call[s].last /\ d.file = call[s].file
<1>1. call[s] \in Calls
  BY CallTypes DEF TypeOK
<1> QED BY <1>1 DEF Calls, PCs

LEMMA OnwardSound ==
  ASSUME IInv, UNCHANGED tables, NEW s \in Sessions, call[s].pc # "idle", NEW p \in PCs,
         call' = [call EXCEPT ![s] = [call[s] EXCEPT !.pc = p]],
         p \in Signing \ {"recipient"} => call[s].employee \subseteq Recipients,
         p \in PriorPassed =>
           \A e \in call[s].employee, r \in Recipients :
             recipients[r].order < recipients[e].order => r \in Signed,
         p \in Signing => call[s].pc \in Signing,
         p \in AfterValues => call[s].values \subseteq Listed,
         p \notin {"partial", "stamp", "complete"},
         p = "commit" =>
           /\ call[s].pc \in {"partial", "complete"}
           /\ doc.status \in OpenStatus /\ DocumentFree(s)
  PROVE  IInv'
<1> DEFINE d == [call[s] EXCEPT !.pc = p]
<1>1. /\ d \in Calls /\ d.pc = p /\ d.employee = call[s].employee
      /\ d.values = call[s].values /\ d.last = call[s].last /\ d.file = call[s].file
  BY Onward DEF IInv
<1>2. CallOK(call[s])
  BY DEF IInv, CallsOK
<1>3. doc.status # "none"
  BY <1>2, IdleFields DEF CallOK
<1> HIDE DEF d
<1>4. CallOK(d)
  BY <1>1, <1>2, <1>3 DEF CallOK
<1> QED BY <1>1, <1>4, StepSound DEF d

LEMMA QuerySound ==
  ASSUME IInv, NEW s \in Sessions,
         \/ ListFields(s) \/ GetRecipient(s) \/ CountUnsignedPriorRecipients(s)
         \/ ListFieldsForRecipient(s) \/ GetSignatureProfile(s)
  PROVE  IInv'
<1>1. CallOK(call[s])
  BY DEF IInv, CallsOK
<1>2. CASE ListFields(s)
  <2>1. CASE Return(s)
    BY <1>2, <2>1, ReturnSound DEF ListFields, Query
  <2>2. CASE ~Return(s)
    BY <1>2, <2>2, OnwardSound, Steps
       DEF ListFields, Query, Goto, PCs, Signing, PriorPassed
  <2> QED BY <2>1, <2>2
<1>3. CASE GetRecipient(s)
  <2>1. CASE Return(s)
    BY <1>3, <2>1, ReturnSound DEF GetRecipient, Query
  <2>2. CASE ~Return(s)
    BY <1>3, <2>2, OnwardSound, Steps
       DEF GetRecipient, Query, Goto, PCs, Signing, PriorPassed
  <2> QED BY <2>1, <2>2
<1>4. CASE CountUnsignedPriorRecipients(s)
  <2>1. CASE Return(s)
    BY <1>4, <2>1, ReturnSound DEF CountUnsignedPriorRecipients, Query
  <2>2. CASE ~Return(s)
    BY <1>1, <1>4, <2>2, OnwardSound, Steps
       DEF CountUnsignedPriorRecipients, Query, Goto, PCs, Signing, PriorPassed, CallOK
  <2> QED BY <2>1, <2>2
<1>5. CASE ListFieldsForRecipient(s)
  <2>1. CASE Return(s)
    BY <1>5, <2>1, ReturnSound DEF ListFieldsForRecipient, Query
  <2>2. CASE ~Return(s)
    BY <1>1, <1>5, <2>2, OnwardSound, Steps
       DEF ListFieldsForRecipient, Query, Goto, PCs, Signing, PriorPassed, CallOK
  <2> QED BY <2>1, <2>2
<1>6. CASE GetSignatureProfile(s)
  <2>1. CASE Return(s)
    BY <1>6, <2>1, ReturnSound DEF GetSignatureProfile, Query
  <2>2. CASE ~Return(s)
    BY <1>1, <1>6, <2>2, OnwardSound, Steps
       DEF GetSignatureProfile, Query, Goto, PCs, Signing, PriorPassed, CallOK
  <2> QED BY <2>1, <2>2
<1> QED BY <1>2, <1>3, <1>4, <1>5, <1>6

LEMMA StatementSound ==
  ASSUME IInv, NEW s \in Sessions,
         CreateSignature(s) \/ UpdateFieldValues(s) \/ MarkRecipientSigned(s) \/ MarkDocument(s)
  PROVE  IInv'
<1>1. CallOK(call[s])
  BY DEF IInv, CallsOK
<1>2. CASE CreateSignature(s)
  <2>1. CASE Return(s)
    BY <1>2, <2>1, ReturnSound DEF CreateSignature, Statement
  <2>2. CASE ~Return(s)
    BY <1>1, <1>2, <2>2, OnwardSound, Steps
       DEF CreateSignature, Statement, Goto, PCs, Signing, PriorPassed, CallOK
  <2> QED BY <2>1, <2>2
<1>3. CASE UpdateFieldValues(s)
  <2>1. CASE Return(s)
    BY <1>3, <2>1, ReturnSound DEF UpdateFieldValues, Statement
  <2>2. CASE ~Return(s)
    <3>1. /\ call[s].pc = "values" /\ UNCHANGED tables
          /\ call' = [call EXCEPT ![s] = [call[s] EXCEPT !.pc = "mark"]]
          /\ \A e \in call[s].employee : call[s].values \subseteq FieldsOf(e)
      BY <1>3, <2>2 DEF UpdateFieldValues, Statement, Goto
    <3>2. call[s].values \subseteq Listed
      BY <1>1, <3>1, Steps DEF CallOK, FieldsOf, Signing, PriorPassed
    <3>3. /\ call[s].pc \in Signing /\ call[s].employee \subseteq Recipients
          /\ \A e \in call[s].employee, r \in Recipients :
               recipients[r].order < recipients[e].order => r \in Signed
      BY <1>1, <3>1, Steps DEF Signing, PriorPassed, CallOK
    <3>4. "mark" \in PCs /\ "mark" \notin {"partial", "complete", "commit"}
      BY Steps DEF PCs
    <3> QED BY <3>1, <3>2, <3>3, <3>4, OnwardSound
  <2> QED BY <2>1, <2>2
<1>4. CASE MarkRecipientSigned(s)
  <2>1. CASE Return(s)
    BY <1>4, <2>1, ReturnSound DEF MarkRecipientSigned, Statement
  <2>2. CASE ~Return(s)
    BY <1>1, <1>4, <2>2, OnwardSound, Steps
       DEF MarkRecipientSigned, Statement, Goto, PCs, Signing, PriorPassed, CallOK
  <2> QED BY <2>1, <2>2
<1>5. CASE MarkDocument(s)
  <2>1. CASE Return(s)
    BY <1>5, <2>1, ReturnSound DEF MarkDocument, Statement
  <2>2. CASE ~Return(s)
    <3>1. /\ call[s].pc \in {"partial", "complete"} /\ UNCHANGED tables
          /\ call' = [call EXCEPT ![s] = [call[s] EXCEPT !.pc = "commit"]]
          /\ doc.status \in OpenStatus /\ DocumentFree(s)
      BY <1>5, <2>2 DEF MarkDocument, Statement, Goto
    <3>2. /\ call[s].pc \in Signing /\ call[s].employee \subseteq Recipients
          /\ \A e \in call[s].employee, r \in Recipients :
               recipients[r].order < recipients[e].order => r \in Signed
          /\ call[s].values \subseteq Listed
      BY <1>1, <3>1, Steps DEF Signing, PriorPassed, CallOK
    <3>3. "commit" \in PCs /\ "commit" \notin {"partial", "complete"}
      BY Steps DEF PCs
    <3> QED BY <3>1, <3>2, <3>3, OnwardSound
  <2> QED BY <2>1, <2>2
<1> QED BY <1>2, <1>3, <1>4, <1>5

LEMMA CountSound ==
  ASSUME IInv, NEW s \in Sessions, CountUnsignedRecipients(s)
  PROVE  IInv'
<1> DEFINE last == Recipients \subseteq Signed \cup call[s].employee
<1> DEFINE p == IF last THEN "place" ELSE "partial"
<1> DEFINE d == [call[s] EXCEPT !.last = last, !.pc = p]
<1>1. /\ call[s].pc = "count" /\ UNCHANGED tables /\ call' = [call EXCEPT ![s] = d]
  BY DEF CountUnsignedRecipients, Statement, Goto
<1>2. CallOK(call[s]) /\ call[s] \in Calls
  BY <1>1, CallTypes DEF IInv, CallsOK, TypeOK
<1>3. /\ d \in Calls /\ d.pc = p /\ d.employee = call[s].employee
      /\ d.values = call[s].values /\ d.last = last
  BY <1>2, Steps DEF Calls
<1>4. doc.status # "none"
  BY <1>1, <1>2, IdleFields DEF CallOK
<1>5. p \in {"place", "partial"} /\ (p = "partial" => ~last)
  OBVIOUS
<1>6. last => Recipients \subseteq Signed \cup call[s].employee
  OBVIOUS
<1> HIDE DEF d, p, last
<1>7. CallOK(d)
  BY <1>1, <1>2, <1>3, <1>4, <1>5, <1>6, Steps DEF CallOK, Signing, PriorPassed
<1>8. d.pc # "commit"
  BY <1>3, <1>5
<1> QED BY <1>1, <1>7, <1>8, StepSound

LEMMA PlaceSound ==
  ASSUME IInv, NEW s \in Sessions, PlaceFields(s)
  PROVE  IInv'
<1> DEFINE names == {r \in Recipients : SignatureFields(r) # {}}
<1> DEFINE d == [call[s] EXCEPT !.file.names = names, !.pc = "stamp"]
<1>1. /\ call[s].pc = "place" /\ UNCHANGED tables /\ call' = [call EXCEPT ![s] = d]
  BY DEF PlaceFields, Statement, Goto
<1>2. CallOK(call[s]) /\ call[s] \in Calls
  BY <1>1, CallTypes DEF IInv, CallsOK, TypeOK
<1>3. names \subseteq Recipients /\ names \subseteq Employees
  BY DEF Recipients
<1> HIDE DEF names
<1>4. /\ d \in Calls /\ d.pc = "stamp" /\ d.employee = call[s].employee
      /\ d.values = call[s].values /\ d.last = call[s].last /\ d.file.names = names
  BY <1>2, <1>3, Steps DEF Calls, SignedFile
<1>5. doc.status # "none"
  BY <1>1, <1>2, IdleFields DEF CallOK
<1> HIDE DEF d
<1>6. CallOK(d)
  BY <1>1, <1>2, <1>3, <1>4, <1>5, Steps DEF CallOK, Signing, PriorPassed
<1> QED BY <1>1, <1>4, <1>6, StepSound

LEMMA StampSound ==
  ASSUME IInv, NEW s \in Sessions, CreateSignedPDF(s)
  PROVE  IInv'
<1> DEFINE stamped == signatures \cap call[s].file.names
<1> DEFINE d == [call[s] EXCEPT !.file.signatures = stamped, !.pc = "complete"]
<1>1. /\ call[s].pc = "stamp" /\ UNCHANGED tables /\ call' = [call EXCEPT ![s] = d]
  BY DEF CreateSignedPDF, Statement, Goto
<1>2. CallOK(call[s]) /\ call[s] \in Calls
  BY <1>1, CallTypes DEF IInv, CallsOK, TypeOK
<1>3. stamped \subseteq Employees
  BY DEF IInv, TypeOK
<1>4. call[s].last => call[s].file.names \ call[s].employee \subseteq stamped
  BY <1>1, <1>2 DEF CallOK, IInv, RowsOK
<1> HIDE DEF stamped
<1>5. /\ d \in Calls /\ d.pc = "complete" /\ d.employee = call[s].employee
      /\ d.values = call[s].values /\ d.last = call[s].last
      /\ d.file.names = call[s].file.names /\ d.file.signatures = stamped
  BY <1>2, <1>3, Steps DEF Calls, SignedFile
<1>6. doc.status # "none"
  BY <1>1, <1>2, IdleFields DEF CallOK
<1> HIDE DEF d
<1>7. CallOK(d)
  BY <1>1, <1>2, <1>4, <1>5, <1>6, Steps DEF CallOK, Signing, PriorPassed
<1> QED BY <1>1, <1>5, <1>7, StepSound

-----------------------------------------------------------------------------
(* The statements that write *)

\* A statement of SetFields.
LEMMA FieldsSound ==
  ASSUME IInv, UNCHANGED <<doc, recipients, signatures>>, NEW s \in Sessions, NEW c,
         call' = [call EXCEPT ![s] = c], CallOK(c), c.pc \in {"idle", "insert"},
         fields' \in [FieldIds -> FieldRows \cup {NoField, DeletedField}],
         \A f \in Listed : fields'[f] = fields[f] \/ FieldFree(s, f)
  PROVE  IInv'
<1>1. \A t \in Sessions : call'[t] = IF t = s THEN c ELSE call[t]
  BY DEF IInv, TypeOK
<1>2. TypeOK'
  BY DEF IInv, TypeOK, CallOK
<1>3. Recipients' = Recipients /\ Signed' = Signed
  BY DEF Recipients, Signed
<1>4. ASSUME NEW t \in Sessions PROVE CallOK(call[t])'
  <2>1. CallOK(call'[t])
    BY <1>1 DEF IInv, CallsOK
  <2>2. ASSUME call'[t].pc \in AfterValues PROVE call'[t].values \subseteq Listed'
    <3>1. t # s /\ call[t].pc \in AfterValues /\ call'[t] = call[t]
      BY <1>1, <2>2, Steps
    <3>2. call[t].values \subseteq Listed
      BY <2>1, <3>1 DEF CallOK
    <3>3. \A f \in call[t].values : fields'[f] = fields[f]
      BY <3>1, <3>2 DEF FieldFree
    <3> QED BY <3>1, <3>2, <3>3 DEF Listed
  <2> QED BY <1>3, <2>1, <2>2 DEF CallOK
<1>5. OneCommit'
  BY <1>1 DEF IInv, OneCommit
<1>6. RowsOK' /\ SigningOrder' /\ CompletedBySigners' /\ FileMissesAtMostOne'
  BY <1>3 DEF IInv, RowsOK, SigningOrder, CompletedBySigners, FileMissesAtMostOne
<1> QED BY <1>2, <1>4, <1>5, <1>6 DEF IInv, CallsOK

LEMMA SetFieldsSound ==
  ASSUME IInv, NEW s \in Sessions, DeleteFields(s) \/ InsertField(s)
  PROVE  IInv'
<1>1. CallOK(call[s]) /\ call[s].pc \in {"delete", "insert"} /\ call[s] \in Calls
  BY CallTypes DEF IInv, CallsOK, DeleteFields, InsertField, TypeOK
<1>2. doc.status # "none"
  BY <1>1, IdleFields DEF CallOK
<1>3. CASE DeleteFields(s)
  <2> DEFINE c == [call[s] EXCEPT !.pc = "insert"]
  <2>1. /\ c \in Calls /\ c.pc = "insert" /\ c.last = call[s].last
        /\ c.employee = call[s].employee
    BY <1>1 DEF Calls
  <2>2. /\ call' = [call EXCEPT ![s] = c] /\ UNCHANGED <<doc, recipients, signatures>>
        /\ \A f \in Listed : FieldFree(s, f)
        /\ fields' = [f \in FieldIds |-> IF f \in Listed THEN DeletedField ELSE fields[f]]
    BY <1>3 DEF DeleteFields, Goto
  <2> HIDE DEF c
  <2>3. CallOK(c)
    BY <1>1, <1>2, <2>1, Steps DEF CallOK, Signing, PriorPassed
  <2>4. fields' \in [FieldIds -> FieldRows \cup {NoField, DeletedField}]
    BY <2>2 DEF IInv, TypeOK
  <2> QED BY <2>1, <2>2, <2>3, <2>4, FieldsSound
<1>4. CASE InsertField(s)
  <2>1. PICK f \in FieldIds, spec \in call[s].specs :
          /\ fields[f] = NoField
          /\ fields' = [fields EXCEPT ![f] = FieldRow(spec, FALSE)]
          /\ IF call[s].specs = {spec}
             THEN Return(s)
             ELSE Goto(s, [call[s] EXCEPT !.specs = @ \ {spec}])
    BY <1>4 DEF InsertField
  <2>2. FieldRow(spec, FALSE) \in FieldRows
    <3>1. spec \in FieldSpec
      BY <1>1 DEF Calls
    <3> QED BY <3>1 DEF FieldSpec, FieldRow, FieldRows
  <2>3. fields' \in [FieldIds -> FieldRows \cup {NoField, DeletedField}]
    BY <2>1, <2>2 DEF IInv, TypeOK
  <2>4. \A g \in Listed : fields'[g] = fields[g]
    <3>1. f \notin Listed
      BY <2>1 DEF Listed, NoField
    <3>2. \A g \in FieldIds : g # f => fields'[g] = fields[g]
      BY <2>1 DEF IInv, TypeOK
    <3> QED BY <3>1, <3>2 DEF Listed
  <2> DEFINE d == [call[s] EXCEPT !.specs = @ \ {spec}]
  <2>5. d \in Calls /\ d.pc = "insert" /\ d.last = call[s].last /\ d.employee = call[s].employee
    BY <1>1, <1>4 DEF Calls, InsertField
  <2>6. call' = [call EXCEPT ![s] = Idle] \/ call' = [call EXCEPT ![s] = d]
    BY <2>1 DEF Return, Goto
  <2> HIDE DEF d
  <2>7. CallOK(d) /\ CallOK(Idle)
    BY <1>1, <1>2, <2>5, IdleOK, Steps DEF CallOK, Signing, PriorPassed
  <2>8. UNCHANGED <<doc, recipients, signatures>>
    BY <1>4 DEF InsertField
  <2> QED BY <2>3, <2>4, <2>5, <2>6, <2>7, <2>8, FieldsSound, IdleFields
<1> QED BY <1>3, <1>4

LEMMA SentOrCancelledSound ==
  ASSUME IInv, UNCHANGED <<recipients, fields, signatures>>,
         \A t \in Sessions : call[t].pc # "commit",
         doc.status \notin {"none", "completed"},
         NEW x \in {doc.status, "sent", "cancelled"}, doc' = [doc EXCEPT !.status = x],
         call' = call \/ \E s \in Sessions : call' = [call EXCEPT ![s] = Idle]
  PROVE  IInv'
<1>1. Recipients' = Recipients /\ Signed' = Signed /\ Listed' = Listed
  BY DEF Recipients, Signed, Listed
<1>2. doc'.status = x /\ x # "none" /\ x # "completed" /\ doc' \in [status : DocStatus, file : SignedFile]
  BY DEF IInv, TypeOK, DocStatus
<1>3. \A t \in Sessions : call'[t] \in {call[t], Idle}
  BY DEF IInv, TypeOK
<1>4. TypeOK'
  BY <1>2 DEF IInv, TypeOK
<1>5. ASSUME NEW t \in Sessions PROVE CallOK(call[t])'
  <2>1. CallOK(call'[t]) /\ call'[t].pc # "commit"
    BY <1>3, IdleOK, IdleFields DEF IInv, CallsOK
  <2> QED BY <1>1, <1>2, <2>1 DEF CallOK
<1>6. OneCommit'
  BY <1>3, IdleFields DEF OneCommit
<1>7. RowsOK' /\ SigningOrder' /\ CompletedBySigners' /\ FileMissesAtMostOne'
  BY <1>1, <1>2 DEF IInv, RowsOK, SigningOrder, CompletedBySigners, FileMissesAtMostOne
<1> QED BY <1>4, <1>5, <1>6, <1>7 DEF IInv, CallsOK

LEMMA MarkSentSound ==
  ASSUME IInv, NEW s \in Sessions, MarkSent(s)
  PROVE  IInv'
<1>1. CallOK(call[s]) /\ call[s].pc = "send"
  BY DEF IInv, CallsOK, MarkSent
<1>2. doc.status # "none"
  BY <1>1, IdleFields DEF CallOK
<1>3. \A t \in Sessions : call[t].pc # "commit"
  BY <1>1 DEF MarkSent, DocumentFree
<1>4. call' = [call EXCEPT ![s] = Idle] /\ UNCHANGED <<recipients, fields, signatures>>
  BY DEF MarkSent, Return
<1>5. CASE doc.status = "draft"
  <2>1. doc' = [doc EXCEPT !.status = "sent"]
    BY <1>5 DEF MarkSent
  <2> QED BY <1>2, <1>3, <1>4, <1>5, <2>1, SentOrCancelledSound
<1>6. CASE doc.status # "draft"
  <2>1. UNCHANGED tables /\ Return(s)
    BY <1>6 DEF MarkSent, tables
  <2> QED BY <2>1, ReturnSound
<1> QED BY <1>5, <1>6

LEMMA CancelSound ==
  ASSUME IInv, CancelDocument
  PROVE  IInv'
<1>1. \A t \in Sessions : call[t].pc # "commit"
  BY DEF CancelDocument
<1> QED BY <1>1, SentOrCancelledSound DEF CancelDocument, OpenStatus

LEMMA CreateSound ==
  ASSUME IInv, NEW list \in RecipientLists, CreateDocument(list)
  PROVE  IInv'
<1>1. /\ doc.status = "none" /\ doc' = [doc EXCEPT !.status = "draft"]
      /\ UNCHANGED <<fields, signatures, call>>
      /\ recipients' = [e \in Employees |->
           IF e \in DOMAIN list
             THEN [order |-> IF list[e] =< 0 THEN 1 ELSE list[e], status |-> "pending"]
             ELSE recipients[e]]
  BY DEF CreateDocument
<1>2. /\ doc'.status = "draft"
      /\ doc' \in [status : DocStatus, file : SignedFile]
  BY <1>1 DEF IInv, TypeOK, DocStatus
<1>3. \A e \in Employees :
        \/ recipients'[e] = NoRecipient
        \/ recipients'[e] \in RecipientRows /\ recipients'[e].status = "pending"
  <2> SUFFICES ASSUME NEW e \in Employees, e \in DOMAIN list
               PROVE  recipients'[e] \in RecipientRows /\ recipients'[e].status = "pending"
    BY <1>1 DEF IInv, RowsOK
  <2>1. list[e] \in Int
    BY SigningAssumption
  <2> QED BY <1>1, <2>1 DEF RecipientRows
<1>4. Signed' = {} /\ Signed = {}
  BY <1>1, <1>3 DEF Signed, Recipients, IInv, RowsOK, NoRecipient
<1>5. TypeOK'
  <2>1. recipients' \in [Employees -> RecipientRows \cup {NoRecipient}]
    BY <1>1, <1>3
  <2> QED BY <1>1, <1>2, <2>1 DEF IInv, TypeOK
<1>6. CallsOK'
  <2>1. \A s \in Sessions : call'[s] = Idle
    BY <1>1 DEF IInv, CallsOK, CallOK
  <2> QED BY <1>2, <2>1, IdleFields, Steps DEF CallsOK, CallOK, Signing, PriorPassed
<1>7. OneCommit'
  BY <1>1 DEF IInv, OneCommit
<1>8. RowsOK' /\ SigningOrder' /\ CompletedBySigners' /\ FileMissesAtMostOne'
  BY <1>1, <1>2, <1>4
     DEF IInv, RowsOK, SigningOrder, CompletedBySigners, FileMissesAtMostOne
<1> QED BY <1>5, <1>6, <1>7, <1>8 DEF IInv

LEMMA MarkViewedSound ==
  ASSUME IInv, NEW e \in Employees, MarkViewed(e)
  PROVE  IInv'
<1>1. /\ recipients[e].status = "pending"
      /\ recipients' = [recipients EXCEPT ![e].status = "viewed"]
      /\ UNCHANGED <<doc, fields, signatures, call>>
  BY DEF MarkViewed
<1>2. recipients[e] \in RecipientRows
  BY <1>1 DEF IInv, TypeOK, NoRecipient
<1>3. TypeOK'
  <2>1. recipients' \in [Employees -> RecipientRows \cup {NoRecipient}]
    BY <1>1, <1>2 DEF IInv, TypeOK, RecipientRows
  <2> QED BY <1>1, <2>1 DEF IInv, TypeOK
<1>4. \A r \in Employees :
        /\ recipients'[r].order = recipients[r].order
        /\ recipients'[r].status = "signed" <=> recipients[r].status = "signed"
  <2> SUFFICES ASSUME NEW r \in Employees
               PROVE  /\ recipients'[r].order = recipients[r].order
                      /\ recipients'[r].status = "signed" <=> recipients[r].status = "signed"
    OBVIOUS
  <2>1. CASE r = e
    BY <1>1, <1>2, <2>1 DEF IInv, TypeOK, RecipientRows
  <2>2. CASE r # e
    BY <1>1, <2>2 DEF IInv, TypeOK
  <2> QED BY <2>1, <2>2
<1>5. Recipients' = Recipients /\ Signed' = Signed
  BY <1>4 DEF Recipients, Signed
<1>6. Recipients \subseteq Employees /\ Listed' = Listed
  BY <1>1 DEF Recipients, Listed
<1>7. ASSUME NEW t \in Sessions PROVE CallOK(call[t])'
  <2>1. CallOK(call[t]) /\ call' = call /\ doc' = doc
    BY <1>1 DEF IInv, CallsOK
  <2>2. call[t].pc \in PriorPassed =>
          \A x \in call[t].employee, r \in Recipients :
            recipients'[r].order < recipients'[x].order => r \in Signed
    <3>1. call[t].pc \in PriorPassed => call[t].employee \subseteq Recipients
      BY <2>1, Steps DEF CallOK, Signing, PriorPassed
    <3> QED BY <1>4, <1>6, <2>1, <3>1 DEF CallOK
  <2> QED BY <1>5, <1>6, <2>1, <2>2 DEF CallOK
<1>8. OneCommit' /\ RowsOK'
  BY <1>1, <1>5 DEF IInv, OneCommit, RowsOK, NoRecipient
<1>9. SigningOrder'
  BY <1>4, <1>5, <1>6 DEF IInv, SigningOrder, Signed
<1>10. CompletedBySigners' /\ FileMissesAtMostOne'
  BY <1>1, <1>5 DEF IInv, CompletedBySigners, FileMissesAtMostOne
<1> QED BY <1>3, <1>7, <1>8, <1>9, <1>10 DEF IInv, CallsOK

LEMMA CommitSound ==
  ASSUME IInv, NEW s \in Sessions, CommitSign(s)
  PROVE  IInv'
<1>1. /\ CallOK(call[s]) /\ call[s] \in Calls /\ call[s].pc = "commit"
  BY CallTypes DEF IInv, CallsOK, CommitSign, TypeOK
<1>2. PICK e \in Employees : call[s].employee = {e}
  BY <1>1, Steps DEF CallOK, Signing, PriorPassed
<1>3. /\ e \in Recipients
      /\ \A r \in Recipients : recipients[r].order < recipients[e].order => r \in Signed
      /\ call[s].values \subseteq Listed
      /\ call[s].last => Recipients \subseteq Signed \cup {e}
      /\ call[s].last => call[s].file.names \ {e} \subseteq call[s].file.signatures
      /\ doc.status \in OpenStatus
  BY <1>1, <1>2, Steps DEF CallOK, Signing, PriorPassed
<1>4. /\ call' = [call EXCEPT ![s] = Idle]
      /\ signatures' = signatures \cup {e}
      /\ recipients' = [x \in Employees |->
           IF x = e THEN [recipients[x] EXCEPT !.status = "signed"] ELSE recipients[x]]
      /\ doc' = IF call[s].last
                  THEN [status |-> "completed", file |-> call[s].file]
                  ELSE [doc EXCEPT !.status = "partially_signed"]
      /\ fields' = [f \in FieldIds |->
           IF f \in call[s].values THEN [fields[f] EXCEPT !.filled = TRUE] ELSE fields[f]]
  BY <1>2 DEF CommitSign, Return
<1>5. recipients[e] \in RecipientRows
  BY <1>3 DEF IInv, TypeOK, Recipients, NoRecipient
<1>6. /\ recipients'[e] \in RecipientRows
      /\ recipients'[e].order = recipients[e].order /\ recipients'[e].status = "signed"
  BY <1>4, <1>5 DEF RecipientRows
<1>7. \A x \in Employees \ {e} : recipients'[x] = recipients[x]
  BY <1>4
<1>8. Recipients' = Recipients /\ Signed' = Signed \cup {e}
  BY <1>3, <1>6, <1>7 DEF Recipients, Signed
<1>9. \A x \in Employees : recipients'[x].order = recipients[x].order
  BY <1>6, <1>7
<1>10. /\ fields' \in [FieldIds -> FieldRows \cup {NoField, DeletedField}]
       /\ Listed' = Listed
  <2>1. \A f \in call[s].values : fields'[f] \in FieldRows /\ fields'[f].state = "row"
    <3> SUFFICES ASSUME NEW f \in call[s].values
                 PROVE  fields'[f] \in FieldRows /\ fields'[f].state = "row"
      OBVIOUS
    <3>1. f \in Listed /\ f \in FieldIds
      BY <1>3 DEF Listed
    <3>2. fields'[f] = [fields[f] EXCEPT !.filled = TRUE]
      BY <1>4, <3>1
    <3>3. fields[f] \in FieldRows
      BY <3>1 DEF IInv, TypeOK, Listed, NoField, DeletedField
    <3> QED BY <3>2, <3>3 DEF FieldRows
  <2>2. \A f \in FieldIds \ call[s].values : fields'[f] = fields[f]
    BY <1>4
  <2>3. fields' \in [FieldIds -> FieldRows \cup {NoField, DeletedField}]
    BY <1>4, <2>1, <2>2 DEF IInv, TypeOK
  <2> QED BY <1>3, <2>1, <2>2, <2>3 DEF Listed
<1>11. /\ doc' \in [status : DocStatus, file : SignedFile]
       /\ doc'.status \in {"completed", "partially_signed"}
       /\ doc'.status = "completed" => call[s].last /\ doc'.file = call[s].file
  BY <1>1, <1>4 DEF IInv, TypeOK, DocStatus, Calls
<1>12. TypeOK'
  <2>1. recipients' \in [Employees -> RecipientRows \cup {NoRecipient}]
    BY <1>4, <1>6, <1>7 DEF IInv, TypeOK
  <2>2. signatures' \subseteq Employees /\ call' \in [Sessions -> Calls \cup {Idle}]
    BY <1>4 DEF IInv, TypeOK
  <2> QED BY <1>10, <1>11, <2>1, <2>2 DEF TypeOK
<1>13. \A t \in Sessions : call'[t] = IF t = s THEN Idle ELSE call[t]
  BY <1>4 DEF IInv, TypeOK
<1>14. ASSUME NEW t \in Sessions PROVE CallOK(call[t])'
  <2>1. CallOK(call'[t]) /\ call'[t].pc # "commit"
    BY <1>1, <1>13, IdleOK, IdleFields DEF IInv, CallsOK, OneCommit
  <2>2. Recipients \subseteq Employees
    BY DEF Recipients
  <2>3. call'[t].pc \in PriorPassed =>
          \A x \in call'[t].employee, r \in Recipients' :
            recipients'[r].order < recipients'[x].order => r \in Signed'
    <3>1. call'[t].pc \in PriorPassed => call'[t].employee \subseteq Recipients
      BY <2>1, Steps DEF CallOK, Signing, PriorPassed
    <3> QED BY <1>8, <1>9, <2>1, <2>2, <3>1 DEF CallOK
  <2> QED BY <1>8, <1>10, <1>11, <2>1, <2>3 DEF CallOK
<1>15. OneCommit'
  BY <1>13, IdleFields DEF IInv, OneCommit
<1>16. RowsOK'
  BY <1>4, <1>8, <1>11 DEF IInv, RowsOK
<1>17. SigningOrder'
  <2>1. \A x \in Signed : x \in Employees
    BY DEF Signed, Recipients
  <2>2. Recipients \subseteq Employees
    BY DEF Recipients
  <2> QED BY <1>3, <1>8, <1>9, <2>1, <2>2 DEF IInv, SigningOrder
<1>18. CompletedBySigners' /\ FileMissesAtMostOne'
  <2>1. Signed \subseteq Recipients
    BY DEF Signed
  <2> QED BY <1>3, <1>8, <1>11, <2>1 DEF CompletedBySigners, FileMissesAtMostOne
<1> QED BY <1>12, <1>14, <1>15, <1>16, <1>17, <1>18 DEF IInv, CallsOK

-----------------------------------------------------------------------------
(* The theorems *)

LEMMA InitSound == Init => IInv
<1> SUFFICES ASSUME Init PROVE IInv
  OBVIOUS
<1>1. TypeOK
  BY NoFileType DEF Init, TypeOK, DocStatus
<1>2. Recipients = {} /\ Signed = {}
  BY DEF Init, Recipients, Signed, NoRecipient
<1>3. CallsOK
  BY <1>1, IdleFields, Steps DEF Init, CallsOK, CallOK, Signing, PriorPassed
<1>4. OneCommit
  BY IdleFields DEF Init, OneCommit
<1>5. RowsOK /\ SigningOrder /\ CompletedBySigners /\ FileMissesAtMostOne
  BY <1>2 DEF Init, RowsOK, SigningOrder, CompletedBySigners, FileMissesAtMostOne
<1> QED BY <1>1, <1>3, <1>4, <1>5 DEF IInv

LEMMA AdvanceSound ==
  ASSUME IInv, NEW s \in Sessions, Advance(s) \/ Abort(s)
  PROVE  IInv'
<1>1. CASE OutOfFields(s) \/ Abort(s)
  BY <1>1, ReturnSound DEF OutOfFields, Abort
<1>2. CASE DeleteFields(s) \/ InsertField(s)
  BY <1>2, SetFieldsSound
<1>3. CASE \/ ListFields(s) \/ GetRecipient(s) \/ CountUnsignedPriorRecipients(s)
           \/ ListFieldsForRecipient(s) \/ GetSignatureProfile(s)
  BY <1>3, QuerySound
<1>4. CASE CreateSignature(s) \/ UpdateFieldValues(s) \/ MarkRecipientSigned(s) \/ MarkDocument(s)
  BY <1>4, StatementSound
<1>5. CASE MarkSent(s)
  BY <1>5, MarkSentSound
<1>6. CASE CountUnsignedRecipients(s)
  BY <1>6, CountSound
<1>7. CASE PlaceFields(s) \/ CreateSignedPDF(s)
  BY <1>7, PlaceSound, StampSound
<1>8. CASE CommitSign(s)
  BY <1>8, CommitSound
<1> QED BY <1>1, <1>2, <1>3, <1>4, <1>5, <1>6, <1>7, <1>8 DEF Advance

LEMMA NextSound == IInv /\ [Next]_vars => IInv'
<1> SUFFICES ASSUME IInv, [Next]_vars PROVE IInv'
  OBVIOUS
<1>1. ASSUME NEW list \in RecipientLists, CreateDocument(list) PROVE IInv'
  BY <1>1, CreateSound
<1>2. CASE \E s \in Sessions :
             \/ \E specs \in FieldForms : SetFields(s, specs)
             \/ SendDocument(s)
             \/ \E e \in Employees, values \in SUBSET FieldIds : Sign(s, e, values)
  BY <1>2, StartSound
<1>3. CASE CancelDocument
  BY <1>3, CancelSound
<1>4. CASE \E e \in Employees : MarkViewed(e)
  BY <1>4, MarkViewedSound
<1>5. CASE \E s \in Sessions : Advance(s) \/ Abort(s)
  BY <1>5, AdvanceSound
<1>6. CASE UNCHANGED vars
  <2>1. UNCHANGED <<doc, recipients, fields, signatures, call>>
    BY <1>6 DEF vars
  <2>2. Recipients' = Recipients /\ Signed' = Signed /\ Listed' = Listed
    BY <2>1 DEF Recipients, Signed, Listed
  <2> QED BY <2>1, <2>2
          DEF IInv, TypeOK, CallsOK, CallOK, OneCommit, RowsOK,
              SigningOrder, CompletedBySigners, FileMissesAtMostOne
<1> QED BY <1>1, <1>2, <1>3, <1>4, <1>5, <1>6 DEF Next

LEMMA Invariance == Spec => []IInv
BY InitSound, NextSound, PTL DEF Spec

\* Rows and calls stay well formed.
THEOREM TypeCorrect == Spec => []TypeOK
<1>1. IInv => TypeOK
  BY DEF IInv
<1> QED BY <1>1, Invariance, PTL

\* The signing order holds for any number of recipients and of concurrent
\* calls, although Sign checks it on committed rows before its transaction.
THEOREM OrderKept == Spec => []SigningOrder
<1>1. IInv => SigningOrder
  BY DEF IInv
<1> QED BY <1>1, Invariance, PTL

\* Counting the unsigned recipients before the document row is locked may
\* leave a document open, but never completes one too early.
THEOREM CompletedRight == Spec => []CompletedBySigners
<1>1. IInv => CompletedBySigners
  BY DEF IInv
<1> QED BY <1>1, Invariance, PTL

\* Of the recipients the signed file of a completed document names in a
\* signature field, it lacks at most the signature of the one whose call made it.
THEOREM FileRight == Spec => []FileMissesAtMostOne
<1>1. IInv => FileMissesAtMostOne
  BY DEF IInv
<1> QED BY <1>1, Invariance, PTL

-----------------------------------------------------------------------------
(* The calls implement the signing ceremony *)

\* A recipient's signature is inserted by one transaction at a time, and not
\* again: the UNIQUE index that CreateSignature waits for.
SignersAlone ==
  \A s \in Sessions : call[s].pc \in AfterSignature =>
    /\ call[s].employee \cap signatures = {}
    /\ \A t \in Sessions \ {s} :
         call[t].pc \in AfterSignature => call[t].employee \cap call[s].employee = {}

LEMMA AloneMove ==
  ASSUME TypeOK, SignersAlone, NEW s \in Sessions, NEW c, call' = [call EXCEPT ![s] = c],
         signatures' = signatures,
         c.pc \in AfterSignature =>
           call[s].pc \in AfterSignature /\ c.employee = call[s].employee
  PROVE  SignersAlone'
<1>1. \A t \in Sessions : call'[t] = IF t = s THEN c ELSE call[t]
  BY DEF TypeOK
<1>2. \A t \in Sessions : call'[t].pc \in AfterSignature =>
        call[t].pc \in AfterSignature /\ call'[t].employee = call[t].employee
  BY <1>1
<1> QED BY <1>2 DEF SignersAlone

LEMMA AloneReturn ==
  ASSUME TypeOK, SignersAlone, NEW s \in Sessions, Return(s), signatures' = signatures
  PROVE  SignersAlone'
BY AloneMove, IdleFields, Steps DEF Return

\* A call that starts has inserted no signature.
LEMMA AloneStart ==
  ASSUME TypeOK, SignersAlone, NEW s \in Sessions,
         \/ \E specs \in FieldForms : SetFields(s, specs)
         \/ SendDocument(s)
         \/ \E e \in Employees, values \in SUBSET FieldIds : Sign(s, e, values)
  PROVE  SignersAlone'
<1>1. ASSUME NEW specs \in FieldForms, SetFields(s, specs) PROVE SignersAlone'
  <2> DEFINE c == [Idle EXCEPT !.pc = "delete", !.specs = specs]
  <2>1. c.pc = "delete"
    BY DEF Idle
  <2>2. call' = [call EXCEPT ![s] = c] /\ signatures' = signatures
    BY <1>1 DEF SetFields, Start, tables
  <2> HIDE DEF c
  <2> QED BY <2>1, <2>2, AloneMove, Steps
<1>2. ASSUME SendDocument(s) PROVE SignersAlone'
  <2> DEFINE c == [Idle EXCEPT !.pc = "listFields"]
  <2>1. c.pc = "listFields"
    BY DEF Idle
  <2>2. call' = [call EXCEPT ![s] = c] /\ signatures' = signatures
    BY <1>2 DEF SendDocument, Start, tables
  <2> HIDE DEF c
  <2> QED BY <2>1, <2>2, AloneMove, Steps
<1>3. ASSUME NEW e \in Employees, NEW values \in SUBSET FieldIds, Sign(s, e, values)
      PROVE  SignersAlone'
  <2> DEFINE c == [Idle EXCEPT !.pc = "recipient", !.employee = {e}, !.values = values]
  <2>1. c.pc = "recipient"
    BY DEF Idle
  <2>2. call' = [call EXCEPT ![s] = c] /\ signatures' = signatures
    BY <1>3 DEF Sign, Start, tables
  <2> HIDE DEF c
  <2> QED BY <2>1, <2>2, AloneMove, Steps
<1> QED BY <1>1, <1>2, <1>3

\* A call that goes on keeps its recipient.
LEMMA AloneOnward ==
  ASSUME TypeOK, SignersAlone, NEW s \in Sessions, NEW p \in PCs, call[s].pc # "idle",
         call' = [call EXCEPT ![s] = [call[s] EXCEPT !.pc = p]], signatures' = signatures,
         p \in AfterSignature => call[s].pc \in AfterSignature
  PROVE  SignersAlone'
<1>1. PICK c : c = [call[s] EXCEPT !.pc = p]
  OBVIOUS
<1>2. c.pc = p /\ c.employee = call[s].employee
  BY <1>1, Onward
<1> QED BY <1>1, <1>2, AloneMove

LEMMA AloneSigns ==
  ASSUME IInv, SignersAlone, NEW s \in Sessions, CreateSignature(s)
  PROVE  SignersAlone'
<1>1. /\ call[s].pc = "signature" /\ UNCHANGED signatures /\ TypeOK
      /\ CallOK(call[s])
  BY DEF CreateSignature, Statement, tables, IInv, CallsOK
<1>2. CASE Return(s)
  BY <1>1, <1>2, AloneReturn
<1>3. CASE ~Return(s)
  <2>1. /\ call' = [call EXCEPT ![s] = [call[s] EXCEPT !.pc = "values"]]
        /\ call[s].employee \cap signatures = {}
        /\ \A e \in call[s].employee : Free(s, e, AfterSignature)
    BY <1>3 DEF CreateSignature, Statement, Goto
  <2>2. PICK c : c = [call[s] EXCEPT !.pc = "values"]
    OBVIOUS
  <2>3. c.pc = "values" /\ c.employee = call[s].employee
    BY <1>1, <2>2, Onward, Steps DEF PCs
  <2>4. \A t \in Sessions : call'[t] = IF t = s THEN c ELSE call[t]
    BY <1>1, <2>1, <2>2 DEF TypeOK
  <2>5. \A t \in Sessions \ {s} :
          call[t].pc \in AfterSignature => call[t].employee \cap call[s].employee = {}
    BY <2>1 DEF Free
  <2> QED BY <1>1, <2>1, <2>3, <2>4, <2>5 DEF SignersAlone
<1> QED BY <1>2, <1>3

LEMMA AloneCommits ==
  ASSUME TypeOK, SignersAlone, NEW s \in Sessions, CommitSign(s)
  PROVE  SignersAlone'
<1>1. /\ call[s].pc \in AfterSignature
      /\ signatures' = signatures \cup call[s].employee
      /\ \A t \in Sessions : call'[t] = IF t = s THEN Idle ELSE call[t]
  BY Steps DEF CommitSign, Return, TypeOK
<1>2. \A t \in Sessions : call'[t].pc \in AfterSignature =>
        t # s /\ call[t].pc \in AfterSignature /\ call'[t] = call[t]
  BY <1>1, IdleFields, Steps
<1> QED BY <1>1, <1>2 DEF SignersAlone

\* The other statements of the calls.
LEMMA AloneAdvances ==
  ASSUME IInv, SignersAlone, NEW s \in Sessions, Advance(s) \/ Abort(s)
  PROVE  SignersAlone'
<1>0. TypeOK /\ (call[s].pc # "idle" => call[s] \in Calls)
  BY CallTypes DEF IInv, TypeOK
<1>1. CASE Return(s) /\ ~CommitSign(s)
  <2>1. signatures' = signatures
    BY <1>1 DEF Advance, Abort, DeleteFields, InsertField, OutOfFields, ListFields, MarkSent,
       GetRecipient, CountUnsignedPriorRecipients, ListFieldsForRecipient,
       GetSignatureProfile, CreateSignature, UpdateFieldValues, MarkRecipientSigned,
       CountUnsignedRecipients, PlaceFields, CreateSignedPDF, MarkDocument, Query, Statement, tables
  <2> QED BY <1>0, <1>1, <2>1, AloneReturn
<1>2. CASE CommitSign(s)
  BY <1>0, <1>2, AloneCommits
<1>3. CASE CreateSignature(s)
  BY <1>3, AloneSigns
<1>4. CASE ~Return(s) /\ (\/ DeleteFields(s) \/ ListFields(s) \/ GetRecipient(s)
                          \/ CountUnsignedPriorRecipients(s) \/ ListFieldsForRecipient(s)
                          \/ GetSignatureProfile(s) \/ UpdateFieldValues(s)
                          \/ MarkRecipientSigned(s) \/ MarkDocument(s))
  <2>1. PICK p \in PCs :
          /\ call' = [call EXCEPT ![s] = [call[s] EXCEPT !.pc = p]]
          /\ UNCHANGED signatures /\ call[s].pc # "idle"
          /\ p \in AfterSignature => call[s].pc \in AfterSignature
    BY <1>4, Steps DEF PCs, DeleteFields, ListFields, GetRecipient,
       CountUnsignedPriorRecipients, ListFieldsForRecipient, GetSignatureProfile,
       UpdateFieldValues, MarkRecipientSigned, MarkDocument, Query, Statement, Goto, tables
  <2> QED BY <1>0, <2>1, AloneOnward
<1>5. CASE InsertField(s) /\ ~Return(s)
  <2>1. PICK spec : call' = [call EXCEPT ![s] = [call[s] EXCEPT !.specs = @ \ {spec}]]
    BY <1>5 DEF InsertField, Goto
  <2>2. PICK c : c = [call[s] EXCEPT !.specs = @ \ {spec}]
    OBVIOUS
  <2>3. c.pc = "insert" /\ signatures' = signatures
    BY <1>0, <1>5, <2>2 DEF InsertField, Calls
  <2>4. call' = [call EXCEPT ![s] = c]
    BY <2>1, <2>2
  <2>5. c.pc \notin AfterSignature
    BY <2>3, Steps
  <2> QED BY <1>0, <2>3, <2>4, <2>5, AloneMove
<1>6. CASE CountUnsignedRecipients(s) \/ PlaceFields(s) \/ CreateSignedPDF(s)
  <2>1. call[s].pc \in AfterSignature /\ call[s] \in Calls /\ signatures' = signatures
    BY <1>0, <1>6, Steps
       DEF CountUnsignedRecipients, PlaceFields, CreateSignedPDF, Statement, tables
  <2>2. CASE CountUnsignedRecipients(s)
    <3> DEFINE last == Recipients \subseteq Signed \cup call[s].employee
    <3>1. PICK c : c = [call[s] EXCEPT !.last = last,
                                       !.pc = IF last THEN "place" ELSE "partial"]
      OBVIOUS
    <3>2. call' = [call EXCEPT ![s] = c]
      BY <2>2, <3>1 DEF CountUnsignedRecipients, Statement, Goto
    <3>3. c.employee = call[s].employee
      BY <2>1, <3>1 DEF Calls
    <3> QED BY <1>0, <2>1, <3>2, <3>3, AloneMove
  <2>3. CASE CreateSignedPDF(s)
    <3>1. PICK c : c = [call[s] EXCEPT !.file.signatures = signatures \cap call[s].file.names,
                                       !.pc = "complete"]
      OBVIOUS
    <3>2. call' = [call EXCEPT ![s] = c]
      BY <2>3, <3>1 DEF CreateSignedPDF, Statement, Goto
    <3>3. c.employee = call[s].employee
      BY <2>1, <3>1 DEF Calls
    <3> QED BY <1>0, <2>1, <3>2, <3>3, AloneMove
  <2>4. CASE PlaceFields(s)
    <3> DEFINE names == {r \in Recipients : SignatureFields(r) # {}}
    <3>1. PICK c : c = [call[s] EXCEPT !.file.names = names, !.pc = "stamp"]
      OBVIOUS
    <3>2. call' = [call EXCEPT ![s] = c]
      BY <2>4, <3>1 DEF PlaceFields, Statement, Goto
    <3> HIDE DEF names
    <3>3. c.employee = call[s].employee
      BY <2>1, <3>1 DEF Calls
    <3> QED BY <1>0, <2>1, <3>2, <3>3, AloneMove
  <2> QED BY <1>6, <2>2, <2>3, <2>4
<1>7. CASE OutOfFields(s) \/ Abort(s) \/ MarkSent(s)
  <2>1. Return(s)
    BY <1>7 DEF OutOfFields, Abort, MarkSent
  <2>2. ~CommitSign(s) \/ CommitSign(s)
    OBVIOUS
  <2> QED BY <1>1, <1>2, <2>1
<1> QED BY <1>1, <1>2, <1>3, <1>4, <1>5, <1>6, <1>7 DEF Advance

LEMMA AloneSound == IInv /\ SignersAlone /\ [Next]_vars => SignersAlone'
<1> SUFFICES ASSUME IInv, SignersAlone, [Next]_vars PROVE SignersAlone'
  OBVIOUS
<1>1. CASE \/ \E list \in RecipientLists : CreateDocument(list)
           \/ CancelDocument
           \/ \E e \in Employees : MarkViewed(e)
           \/ UNCHANGED vars
  BY <1>1 DEF CreateDocument, CancelDocument, MarkViewed, vars, SignersAlone
<1>2. CASE \E s \in Sessions :
             \/ \E specs \in FieldForms : SetFields(s, specs)
             \/ SendDocument(s)
             \/ \E e \in Employees, values \in SUBSET FieldIds : Sign(s, e, values)
  BY <1>2, AloneStart DEF IInv
<1>3. CASE \E s \in Sessions : Advance(s) \/ Abort(s)
  BY <1>3, AloneAdvances
<1> QED BY <1>1, <1>2, <1>3 DEF Next

LEMMA InitAlone == Init => SignersAlone
BY IdleFields, Steps DEF Init, SignersAlone

LEMMA AloneInvariance == Spec => [](IInv /\ SignersAlone)
BY InitSound, InitAlone, NextSound, AloneSound, PTL DEF Spec

\* What the ceremony sees of the rows.
CeremonyStatus == IF doc.status \in OpenStatus THEN "open" ELSE doc.status
CeremonyOrder == [e \in Employees |-> recipients[e].order]

CeremonyNext ==
  Ceremony!Next \/ UNCHANGED <<CeremonyStatus, CeremonyOrder, Signed>>

LEMMA CeremonyRecipients ==
  ASSUME TypeOK
  PROVE  Ceremony!Recipients = Recipients
BY DEF Ceremony!Recipients, Recipients

LEMMA InitCeremony == Init => Ceremony!Init
BY DEF Init, Ceremony!Init, OpenStatus, NoRecipient, Signed, Recipients

LEMMA OrderIsNat ==
  ASSUME TypeOK
  PROVE  CeremonyOrder \in [Employees -> Nat]
BY DEF TypeOK, CeremonyOrder, RecipientRows, NoRecipient

LEMMA CreateCeremony ==
  ASSUME IInv, IInv', NEW list \in RecipientLists, CreateDocument(list)
  PROVE  Ceremony!Create
<1>1. doc.status = "none" /\ doc'.status = "draft" /\ signatures' = signatures
  BY DEF CreateDocument, IInv, TypeOK
<1>2. Signed' = Signed
  BY <1>1 DEF IInv, RowsOK
<1>3. CeremonyOrder' \in [Employees -> Nat]
  BY OrderIsNat DEF IInv, TypeOK, CeremonyOrder, RecipientRows, NoRecipient
<1>4. [e \in Employees |-> recipients[e].order]' \in [Employees -> Nat]
  BY <1>3 DEF CeremonyOrder
<1> QED BY <1>1, <1>2, <1>4 DEF Ceremony!Create, OpenStatus

\* A step that writes the status of the document at most.
LEMMA StatusCeremony ==
  ASSUME IInv, UNCHANGED <<recipients, signatures>>,
         \/ doc'.status = doc.status
         \/ doc.status = "draft" /\ doc'.status = "sent"
         \/ doc.status \in {"draft"} \cup OpenStatus /\ doc'.status = "cancelled"
  PROVE  CeremonyNext
<1>1. CeremonyOrder' = CeremonyOrder /\ Signed' = Signed
  BY DEF CeremonyOrder, Signed, Recipients
<1>2. [e \in Employees |-> recipients[e].order]' = [e \in Employees |-> recipients[e].order]
  BY <1>1 DEF CeremonyOrder
<1>3. CASE doc'.status = doc.status
  BY <1>1, <1>3 DEF CeremonyNext, CeremonyStatus
<1>4. CASE doc.status = "draft" /\ doc'.status = "sent"
  <2>1. Ceremony!Send
    BY <1>1, <1>2, <1>4 DEF Ceremony!Send, OpenStatus
  <2> QED BY <2>1 DEF CeremonyNext, Ceremony!Next
<1>5. CASE doc.status \in {"draft"} \cup OpenStatus /\ doc'.status = "cancelled"
  <2>1. Ceremony!Cancel
    BY <1>1, <1>2, <1>5 DEF Ceremony!Cancel, OpenStatus
  <2> QED BY <2>1 DEF CeremonyNext, Ceremony!Next
<1> QED BY <1>3, <1>4, <1>5

\* A view changes no signing order, and nobody has signed before or after it
\* who had not.
LEMMA ViewCeremony ==
  ASSUME IInv, IInv', NEW e \in Employees, MarkViewed(e)
  PROVE  CeremonyNext
<1>1. UNCHANGED <<doc, signatures>> /\ Signed' = Signed
  BY DEF MarkViewed, IInv, RowsOK
<1>2. \A d \in Employees : recipients'[d].order = recipients[d].order
  <2>1. recipients[e] \in RecipientRows
    BY DEF MarkViewed, IInv, TypeOK, NoRecipient
  <2>2. recipients' = [recipients EXCEPT ![e] = [recipients[e] EXCEPT !.status = "viewed"]]
    BY DEF MarkViewed
  <2> QED BY <2>1, <2>2 DEF IInv, TypeOK, RecipientRows
<1>3. CeremonyOrder' = CeremonyOrder
  BY <1>2 DEF CeremonyOrder
<1> QED BY <1>1, <1>3 DEF CeremonyNext, CeremonyStatus

\* A commit is one recipient's signature: it was that recipient's turn when
\* the call checked, the document is open because MarkDocument locked its row,
\* and no other call has inserted the signature meanwhile.
LEMMA CommitCeremony ==
  ASSUME IInv, IInv', SignersAlone, NEW s \in Sessions, CommitSign(s)
  PROVE  CeremonyNext
<1>1. /\ call[s].pc = "commit" /\ CallOK(call[s])
      /\ call[s].pc \in PriorPassed /\ call[s].pc \in Signing \ {"recipient"}
      /\ call[s].pc \in AfterSignature
  BY Steps DEF CommitSign, IInv, CallsOK, Signing, PriorPassed
<1>2. PICK e \in Employees : call[s].employee = {e}
  BY <1>1 DEF CallOK
<1>3. /\ e \in Recipients /\ e \notin Signed /\ doc.status \in OpenStatus
      /\ \A r \in Recipients : recipients[r].order < recipients[e].order => r \in Signed
  <2>1. e \notin signatures
    BY <1>1, <1>2 DEF SignersAlone
  <2> QED BY <1>1, <1>2, <2>1 DEF CallOK, IInv, RowsOK
<1>4. Signed' = Signed \cup {e}
  BY <1>2 DEF CommitSign, IInv, RowsOK
<1>5. \A d \in Employees : recipients'[d].order = recipients[d].order
  <2>1. recipients[e] \in RecipientRows
    BY <1>3 DEF Recipients, NoRecipient, IInv, TypeOK
  <2>2. recipients' = [d \in Employees |->
          IF d \in call[s].employee THEN [recipients[d] EXCEPT !.status = "signed"]
          ELSE recipients[d]]
    BY DEF CommitSign
  <2>3. recipients' = [d \in Employees |->
          IF d = e THEN [recipients[e] EXCEPT !.status = "signed"] ELSE recipients[d]]
    BY <1>2, <2>2
  <2>4. [recipients[e] EXCEPT !.status = "signed"].order = recipients[e].order
    BY <2>1 DEF RecipientRows
  <2> QED BY <2>3, <2>4
<1>6. CeremonyOrder' = CeremonyOrder /\ Recipients' = Recipients
  BY <1>5 DEF CeremonyOrder, Recipients
<1>7. doc'.status \in {"completed", "partially_signed"}
  BY <1>3 DEF CommitSign, IInv, TypeOK, OpenStatus
<1>8. doc'.status = "completed" => Signed' = Recipients
  BY <1>6 DEF IInv, CompletedBySigners
<1>9. Ceremony!Sign(e)
  <2>1. [d \in Employees |-> recipients[d].order]' = [d \in Employees |-> recipients[d].order]
    BY <1>6 DEF CeremonyOrder
  <2>2. Ceremony!Recipients = Recipients
    BY CeremonyRecipients DEF IInv
  <2>3. \A r \in Recipients :
          [d \in Employees |-> recipients[d].order][r] <
          [d \in Employees |-> recipients[d].order][e] => r \in Signed
    BY <1>3 DEF Recipients
  <2> QED BY <1>3, <1>4, <1>7, <1>8, <2>1, <2>2, <2>3 DEF Ceremony!Sign, OpenStatus
<1> QED BY <1>9 DEF CeremonyNext, Ceremony!Next

LEMMA AdvanceCeremony ==
  ASSUME IInv, IInv', SignersAlone, NEW s \in Sessions, Advance(s) \/ Abort(s)
  PROVE  CeremonyNext
<1>1. CASE CommitSign(s)
  BY <1>1, CommitCeremony
<1>2. CASE MarkSent(s)
  <2>1. UNCHANGED <<recipients, signatures>>
    BY <1>2 DEF MarkSent
  <2>2. \/ doc' = doc
        \/ doc.status = "draft" /\ doc' = [doc EXCEPT !.status = "sent"]
    BY <1>2 DEF MarkSent
  <2>3. [doc EXCEPT !.status = "sent"].status = "sent"
    BY DEF IInv, TypeOK
  <2>4. CASE doc' = doc
    BY <2>1, <2>4, StatusCeremony
  <2>5. CASE doc.status = "draft" /\ doc' = [doc EXCEPT !.status = "sent"]
    <3>1. doc.status = "draft" /\ doc'.status = "sent"
      BY <2>3, <2>5
    <3> QED BY <2>1, <3>1, StatusCeremony
  <2> QED BY <2>2, <2>4, <2>5
<1>3. CASE UNCHANGED <<doc, recipients, signatures>>
  BY <1>3, StatusCeremony
<1> QED BY <1>1, <1>2, <1>3
        DEF Advance, Abort, DeleteFields, InsertField, OutOfFields, ListFields,
            GetRecipient, CountUnsignedPriorRecipients, ListFieldsForRecipient,
            GetSignatureProfile, CreateSignature, UpdateFieldValues, MarkRecipientSigned,
            CountUnsignedRecipients, PlaceFields, CreateSignedPDF, MarkDocument, Query, Statement, tables

LEMMA NextCeremony ==
  ASSUME IInv, IInv', SignersAlone, [Next]_vars
  PROVE  CeremonyNext
<1>1. ASSUME NEW list \in RecipientLists, CreateDocument(list) PROVE CeremonyNext
  BY <1>1, CreateCeremony DEF CeremonyNext, Ceremony!Next
<1>2. CASE \E s \in Sessions :
             \/ \E specs \in FieldForms : SetFields(s, specs)
             \/ SendDocument(s)
             \/ \E e \in Employees, values \in SUBSET FieldIds : Sign(s, e, values)
  <2>1. UNCHANGED <<doc, recipients, signatures>>
    BY <1>2 DEF SetFields, SendDocument, Sign, tables
  <2> QED BY <2>1, StatusCeremony
<1>3. CASE CancelDocument
  <2>1. /\ UNCHANGED <<recipients, signatures>>
        /\ doc.status \in {"draft"} \cup OpenStatus /\ doc'.status = "cancelled"
    BY <1>3 DEF CancelDocument, IInv, TypeOK
  <2> QED BY <2>1, StatusCeremony
<1>4. CASE \E e \in Employees : MarkViewed(e)
  BY <1>4, ViewCeremony
<1>5. CASE \E s \in Sessions : Advance(s) \/ Abort(s)
  BY <1>5, AdvanceCeremony
<1>6. CASE UNCHANGED vars
  BY <1>6, StatusCeremony DEF vars
<1> QED BY <1>1, <1>2, <1>3, <1>4, <1>5, <1>6 DEF Next

\* The calls of the recipients and of the creator, however they interleave,
\* are steps of the signing ceremony or leave it as it is: recipients sign
\* once, in order, only while the document is open, and a completed or
\* cancelled document stays closed.
THEOREM CeremonyImplemented == Spec => ImplementsCeremony
<1>1. Init => Ceremony!Init
  BY InitCeremony
<1>2. IInv /\ SignersAlone /\ IInv' /\ [Next]_vars =>
        [Ceremony!Next]_<<CeremonyStatus, CeremonyOrder, Signed>>
  BY NextCeremony DEF CeremonyNext
<1>3. IInv /\ SignersAlone /\ IInv' /\ [Next]_vars =>
        [Ceremony!Next]_<<IF doc.status \in OpenStatus THEN "open" ELSE doc.status,
                          [e \in Employees |-> recipients[e].order], Signed>>
  BY <1>2 DEF CeremonyStatus, CeremonyOrder
<1> QED BY <1>1, <1>3, AloneInvariance, PTL DEF Spec, ImplementsCeremony, Ceremony!Spec
=============================================================================
